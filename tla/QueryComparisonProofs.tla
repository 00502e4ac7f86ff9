------------------------ MODULE QueryComparisonProofs ----------------------
(***************************************************************************)
(* What a comparison says is true, what it calls comparable is, and its    *)
(* verdict is that of one moment, for any number of arguments, runs and    *)
(* metrics, and whatever is ingested while it runs.                        *)
(***************************************************************************)
EXTENDS GraphqlEndpoint, RankLemmas, SequenceTheorems

DeltaRecord ==
  [ metricName     : MetricNames,
    unit           : Units,
    baselineRunId  : RunIds,
    candidateRunId : RunIds,
    absoluteDelta  : Int,
    percentDelta   : {<<>>} \cup (Int \X Int) ]

\* A stored document stays as it is under its id.
TableOK ==
  /\ DOMAIN table \subseteq RunIds
  /\ \A id \in DOMAIN table : table[id] \in Documents /\ table[id].run_id = id

ComparisonTypes ==
  /\ TableOK
  /\ asked \in Seq(Arguments)
  /\ stage \in {"idle", "finding", "comparing", "done"}
  /\ runs \in Seq(Documents)
  /\ candidate \in 2..(Len(runs) + 2)
  /\ metric \in Nat \ {0}
  /\ deltas \in Seq(DeltaRecord)
  /\ verdict \in Verdicts
  /\ verdict = "pending" <=> stage # "done"

\* Until the runs are found there are none, and no differences.
NothingFound ==
  stage \in {"idle", "finding"} \/ verdict = "invalid_query" =>
    runs = <<>> /\ candidate = 2 /\ metric = 1 /\ deltas = <<>>

\* The arguments are refused exactly if they name too few or too many runs.
CountIsTold ==
  stage # "idle" =>
    (verdict = "invalid_query" <=> Cardinality(AskedIds) \notin 2..MaxComparisonRuns)

\* The runs found are stored, were asked for, and stand in that order.
RunsAreAsked ==
  /\ \A i \in DOMAIN runs :
       /\ runs[i].run_id \in AskedIds
       /\ runs[i].run_id \in DOMAIN table
       /\ table[runs[i].run_id] = runs[i]
  /\ \A i, j \in DOMAIN runs : runs[i].run_id = runs[j].run_id => i = j
  /\ RequestedOrderIsKept

Comparing == stage = "comparing" \/ verdict = "comparable"

Metrics == Len(runs[1].metrics)

\* The difference of a pair that the loops have passed.
IsCompared(c, m) ==
  LET base == runs[1].metrics[m]
  IN  \E n \in DOMAIN runs[c].metrics :
        /\ runs[c].metrics[n].name = base.name
        /\ runs[c].metrics[n].unit = base.unit
        /\ DeltaOf(c, m).metricName = base.name
        /\ DeltaOf(c, m).candidateRunId = runs[c].run_id
        /\ IF IsFinite(runs[c].metrics[n].value - base.value)
             THEN base.value + DeltaOf(c, m).absoluteDelta = runs[c].metrics[n].value
             ELSE ~ IsFinite(DeltaOf(c, m).absoluteDelta)
        /\ DeltaOf(c, m).percentDelta = <<>> <=> base.value = 0

\* Where the loops are, and what they have left behind.
LoopsOK ==
  Comparing =>
    /\ Len(runs) \in 2..MaxComparisonRuns
    /\ \A i \in DOMAIN runs : runs[i].comparability_key = runs[1].comparability_key
    /\ candidate <= Len(runs) + 1
    /\ metric <= Metrics + 1
    /\ candidate > Len(runs) => metric = 1
    /\ verdict = "comparable" => candidate > Len(runs)
    /\ Len(deltas) = (candidate - 2) * Metrics + metric - 1
    /\ \A c \in 2..Len(runs), m \in 1..Metrics :
         c < candidate \/ (c = candidate /\ m < metric) => IsCompared(c, m)

\* A difference is that of two values of one metric.
IsDelta(d) ==
  \E c \in DOMAIN runs, m \in DOMAIN runs[1].metrics : \E n \in DOMAIN runs[c].metrics :
    /\ runs[1].metrics[m].name = runs[c].metrics[n].name
    /\ d = Delta(runs[1], runs[c], runs[1].metrics[m], runs[c].metrics[n])

DeltasAreReal == \A k \in DOMAIN deltas : IsDelta(deltas[k])

ComparisonInv ==
  /\ ComparisonTypes
  /\ NothingFound
  /\ CountIsTold
  /\ RunsAreAsked
  /\ LoopsOK
  /\ DeltasAreReal
  /\ RefusalIsTrue

EndpointTypes ==
  /\ gate \in {"idle", "validating", "resolving", "replied"}
  /\ document \in Queries \cup {NoQuery}
  /\ reply \in {"none", "QUERY_DEPTH_LIMIT", "GRAPHQL_VALIDATION_FAILED", "BAD_USER_INPUT",
                "data", "partial", "error"}
  /\ reply # "none" <=> gate = "replied"
  /\ stage # "idle" => gate \in {"resolving", "replied"}

EndpointInv ==
  /\ ComparisonInv
  /\ EndpointTypes
  /\ RepliesAreTrue

-----------------------------------------------------------------------------
(* The elements of a sequence at some positions.                           *)

UpTo(set, i) == {j \in set : j <= i}

LEMMA UpToCounts ==
  ASSUME NEW set \in SUBSET Nat, IsFiniteSet(set), NEW i \in set
  PROVE  /\ IsFiniteSet(UpTo(set, i))
         /\ Cardinality(UpTo(set, i)) = Cardinality(set) - RankIn(set, i)
         /\ Cardinality(UpTo(set, i)) \in 1..Cardinality(set)
<1> DEFINE above == Above(set, i)
<1>1. UpTo(set, i) = set \ above
  <2>1. \A j \in set : ~ (j > i) <=> j <= i
    OBVIOUS
  <2> QED
    BY <2>1 DEF UpTo, Above
<1>2. set \cap above = above
  BY DEF Above
<1>3. RankIn(set, i) \in Nat /\ RankIn(set, i) < Cardinality(set) /\ Cardinality(set) \in Nat
  BY AboveFinite, RankBelowTotal
<1>4. Cardinality(above) = RankIn(set, i)
  BY DEF RankIn
<1> HIDE DEF above
<1>5. IsFiniteSet(set \ above) /\ Cardinality(set \ above) = Cardinality(set) - Cardinality(above)
  BY <1>2, FS_Difference
<1> QED
  BY <1>1, <1>3, <1>4, <1>5

\* There is a k-th position for every k up to their number.
LEMMA PlaceType ==
  ASSUME NEW set \in SUBSET Nat, IsFiniteSet(set), NEW k \in 1..Cardinality(set)
  PROVE  Place(set, k) \in set /\ Cardinality(UpTo(set, Place(set, k))) = k
<1>1. Cardinality(set) \in Nat
  BY FS_CardinalityType
<1>2. Cardinality(set) - k \in Nat /\ Cardinality(set) - k < Cardinality(set)
  BY <1>1
<1>3. PICK r \in set : RankIn(set, r) = Cardinality(set) - k
  BY <1>2, RankIsOnto
<1>4. Cardinality(UpTo(set, r)) = k
  BY <1>1, <1>3, UpToCounts
<1>5. \E i \in set : Cardinality(UpTo(set, i)) = k
  BY <1>4
<1> QED
  BY <1>5 DEF Place, UpTo

\* Every position is the k-th for some k.
LEMMA PlaceIsOnto ==
  ASSUME NEW set \in SUBSET Nat, IsFiniteSet(set), NEW i \in set
  PROVE  \E k \in 1..Cardinality(set) : Place(set, k) = i
<1> DEFINE k == Cardinality(UpTo(set, i))
<1>1. k \in 1..Cardinality(set)
  BY UpToCounts
<1>2. Place(set, k) \in set /\ Cardinality(UpTo(set, Place(set, k))) = k
  BY <1>1, PlaceType
<1>3. RankIn(set, Place(set, k)) = RankIn(set, i)
  <2>1. RankIn(set, i) \in Nat /\ RankIn(set, Place(set, k)) \in Nat /\ Cardinality(set) \in Nat
    BY AboveFinite
  <2>2. k = Cardinality(set) - RankIn(set, i)
    BY UpToCounts
  <2> HIDE DEF k
  <2>3. k = Cardinality(set) - RankIn(set, Place(set, k))
    BY <1>2, UpToCounts
  <2> QED
    BY <2>1, <2>2, <2>3
<1> QED
  BY <1>1, <1>2, <1>3, RankIsInjective

\* The positions are taken in order.
LEMMA PlaceIncreases ==
  ASSUME NEW set \in SUBSET Nat, IsFiniteSet(set),
         NEW j \in 1..Cardinality(set), NEW k \in 1..Cardinality(set), j < k
  PROVE  Place(set, j) < Place(set, k)
<1>1. /\ Place(set, j) \in set /\ Cardinality(UpTo(set, Place(set, j))) = j
      /\ Place(set, k) \in set /\ Cardinality(UpTo(set, Place(set, k))) = k
  BY PlaceType
<1>2. Place(set, j) \in Nat /\ Place(set, k) \in Nat
  BY <1>1
<1>3. SUFFICES ASSUME Place(set, k) <= Place(set, j)
               PROVE  FALSE
  BY <1>2
<1>4. UpTo(set, Place(set, k)) \in SUBSET UpTo(set, Place(set, j))
  <2> SUFFICES ASSUME NEW i \in set, i <= Place(set, k)
               PROVE  i <= Place(set, j)
    BY DEF UpTo
  <2>1. i \in Nat
    OBVIOUS
  <2> QED
    BY <1>2, <1>3, <2>1
<1>5. k <= j
  BY <1>1, <1>4, UpToCounts, FS_Subset
<1> QED
  BY <1>5

\* The least number with a property.
LEMMA LeastExists ==
  ASSUME NEW set \in SUBSET Nat, IsFiniteSet(set), set # {}
  PROVE  \E i \in set : \A j \in set : i <= j
<1>1. 1 \in 1..Cardinality(set)
  BY FS_EmptySet, FS_CardinalityType
<1> DEFINE i == Place(set, 1)
<1>2. i \in set /\ Cardinality(UpTo(set, i)) = 1 /\ IsFiniteSet(UpTo(set, i))
  BY <1>1, PlaceType, UpToCounts
<1> HIDE DEF i
<1>3. ASSUME NEW j \in set PROVE i <= j
  <2>1. SUFFICES ASSUME j < i PROVE FALSE
    BY <1>2
  <2>2. i \in UpTo(set, i) /\ j \in UpTo(set, i)
    BY <1>2, <2>1 DEF UpTo
  <2>3. PICK x : UpTo(set, i) = {x}
    BY <1>2, FS_Singleton
  <2> QED
    BY <1>2, <2>1, <2>2, <2>3
<1> QED
  BY <1>2, <1>3

LEMMA AtType ==
  ASSUME NEW S, NEW seq \in Seq(S), NEW positions \in SUBSET DOMAIN seq
  PROVE  /\ positions \in SUBSET Nat
         /\ IsFiniteSet(positions)
         /\ Cardinality(positions) \in Nat
         /\ At(seq, positions) \in Seq(S)
         /\ Len(At(seq, positions)) = Cardinality(positions)
         /\ \A k \in 1..Cardinality(positions) : At(seq, positions)[k] = seq[Place(positions, k)]
<1>1. DOMAIN seq = 1..Len(seq) /\ Len(seq) \in Nat
  BY LenProperties
<1>2. positions \in SUBSET Nat /\ IsFiniteSet(1..Len(seq))
  BY <1>1, FS_Interval
<1>3. IsFiniteSet(positions) /\ Cardinality(positions) \in Nat
  BY <1>1, <1>2, FS_Subset, FS_CardinalityType
<1>4. \A k \in 1..Cardinality(positions) : seq[Place(positions, k)] \in S
  BY <1>1, <1>2, <1>3, PlaceType, ElementOfSeq
<1>5. At(seq, positions) = [k \in 1..Cardinality(positions) |-> seq[Place(positions, k)]]
  BY DEF At
<1> QED
  BY <1>2, <1>3, <1>4, <1>5

-----------------------------------------------------------------------------
(* The arguments.                                                          *)

IdsOf(args) == {Trim[args[i]] : i \in DOMAIN args} \ {Blank}

LEMMA FirstOccurrenceType ==
  ASSUME NEW args \in Seq(Arguments)
  PROVE  /\ FirstOccurrences(args) \in SUBSET DOMAIN args
         /\ FirstOccurrences(args) \in SUBSET Nat
         /\ IsFiniteSet(FirstOccurrences(args))
         /\ Cardinality(FirstOccurrences(args)) \in Nat
<1>1. FirstOccurrences(args) \in SUBSET DOMAIN args
  BY DEF FirstOccurrences
<1> HIDE DEF FirstOccurrences
<1> QED
  BY <1>1, AtType

\* An id that is asked for occurs first at one place.
LEMMA FirstOccurrenceExists ==
  ASSUME NEW args \in Seq(Arguments), NEW id \in IdsOf(args)
  PROVE  /\ \E i \in FirstOccurrences(args) : Trim[args[i]] = id
         /\ \A i \in FirstOccurrences(args), j \in DOMAIN args :
              Trim[args[i]] = Trim[args[j]] => i <= j
<1>1. DOMAIN args = 1..Len(args) /\ Len(args) \in Nat
  BY LenProperties
<1>2. \E i \in FirstOccurrences(args) : Trim[args[i]] = id
  <2> DEFINE set == {i \in DOMAIN args : Trim[args[i]] = id}
  <2>1. set \in SUBSET Nat /\ set # {}
    BY <1>1 DEF IdsOf
  <2>2. IsFiniteSet(set)
    <3>1. set \in SUBSET (1..Len(args)) /\ IsFiniteSet(1..Len(args))
      BY <1>1, FS_Interval
    <3> QED
      BY <3>1, FS_Subset
  <2>3. PICK i \in set : \A j \in set : i <= j
    BY <2>1, <2>2, LeastExists
  <2>4. ASSUME NEW j \in 1..(i - 1) PROVE Trim[args[j]] # Trim[args[i]]
    <3>1. j \in DOMAIN args /\ ~ (i <= j)
      BY <1>1, <2>3
    <3> QED
      BY <2>3, <3>1
  <2>5. i \in FirstOccurrences(args)
    BY <2>3, <2>4 DEF FirstOccurrences, IdsOf
  <2> QED
    BY <2>3, <2>5
<1>3. ASSUME NEW i \in FirstOccurrences(args), NEW j \in DOMAIN args,
             Trim[args[i]] = Trim[args[j]]
      PROVE  i <= j
  <2>1. SUFFICES ASSUME ~ (i <= j) PROVE FALSE
    OBVIOUS
  <2>2. i \in 1..Len(args) /\ j \in 1..Len(args) /\ j \in 1..(i - 1)
    BY <1>1, <2>1 DEF FirstOccurrences
  <2> QED
    BY <1>3, <2>2 DEF FirstOccurrences
<1> QED
  BY <1>2, <1>3

\* What is left of the arguments is each of the ids asked for, once, in the
\* order of their first occurrences.
LEMMA NormalizedFacts ==
  ASSUME NEW args \in Seq(Arguments)
  PROVE  LET ids    == Normalized(args)
             firsts == FirstOccurrences(args)
         IN  /\ ids \in Seq(RunIds)
             /\ Len(ids) = Cardinality(firsts)
             /\ \A k \in 1..Len(ids) : /\ Place(firsts, k) \in firsts
                                       /\ ids[k] = Trim[args[Place(firsts, k)]]
                                       /\ ids[k] \in IdsOf(args)
             /\ \A id \in IdsOf(args) : \E k \in 1..Len(ids) : ids[k] = id
             /\ \A j, k \in 1..Len(ids) : ids[j] = ids[k] => j = k
<1> DEFINE ids == Normalized(args)
           firsts == FirstOccurrences(args)
           trimmed == [i \in DOMAIN args |-> Trim[args[i]]]
           n == Cardinality(firsts)
<1>1. DOMAIN args = 1..Len(args) /\ Len(args) \in Nat /\ args \in [1..Len(args) -> Arguments]
  BY LenProperties
<1>2. trimmed \in Seq(RunIds \cup {Blank}) /\ DOMAIN trimmed = DOMAIN args
      /\ \A i \in DOMAIN args : trimmed[i] = Trim[args[i]]
  BY <1>1, ComparisonAssumption
<1>3. ids = At(trimmed, firsts)
  BY DEF Normalized
<1>4. firsts \in SUBSET DOMAIN args /\ firsts \in SUBSET Nat /\ IsFiniteSet(firsts) /\ n \in Nat
  BY FirstOccurrenceType
<1>5. \A i \in firsts : Trim[args[i]] \in RunIds /\ Trim[args[i]] \in IdsOf(args)
  BY <1>1, ComparisonAssumption DEF FirstOccurrences, IdsOf
<1>6. \A i, j \in firsts : Trim[args[i]] = Trim[args[j]] => i = j
  <2> SUFFICES ASSUME NEW i \in firsts, NEW j \in firsts, Trim[args[i]] = Trim[args[j]]
               PROVE  i = j
    OBVIOUS
  <2>1. i <= j /\ j <= i
    BY <1>4, <1>5, FirstOccurrenceExists
  <2> QED
    BY <1>4, <2>1
<1> HIDE DEF ids, firsts, trimmed
<1>7. Len(ids) = n /\ ids \in Seq(RunIds \cup {Blank})
      /\ \A k \in 1..n : ids[k] = trimmed[Place(firsts, k)]
  BY <1>2, <1>3, <1>4, AtType
<1>8. \A k \in 1..n : Place(firsts, k) \in firsts /\ ids[k] = Trim[args[Place(firsts, k)]]
  BY <1>2, <1>4, <1>7, PlaceType
<1>9. ids \in Seq(RunIds)
  <2>1. ids \in [1..n -> RunIds \cup {Blank}]
    BY <1>7, LenProperties
  <2>2. ids \in [1..n -> RunIds]
    BY <1>5, <1>8, <2>1
  <2> QED
    BY <1>4, <2>2
<1>10. \A id \in IdsOf(args) : \E k \in 1..n : ids[k] = id
  <2> SUFFICES ASSUME NEW id \in IdsOf(args) PROVE \E k \in 1..n : ids[k] = id
    OBVIOUS
  <2>1. PICK i \in firsts : Trim[args[i]] = id
    BY FirstOccurrenceExists DEF firsts
  <2>2. PICK k \in 1..n : Place(firsts, k) = i
    BY <1>4, PlaceIsOnto
  <2> QED
    BY <1>8, <2>1, <2>2
<1>11. \A j, k \in 1..n : ids[j] = ids[k] => j = k
  <2> SUFFICES ASSUME NEW j \in 1..n, NEW k \in 1..n, ids[j] = ids[k]
               PROVE  j = k
    OBVIOUS
  <2>1. Place(firsts, j) = Place(firsts, k)
    BY <1>6, <1>8
  <2>2. ~ (j < k) /\ ~ (k < j)
    BY <1>4, <2>1, PlaceIncreases, <1>8
  <2> QED
    BY <1>4, <2>2
<1> QED
  BY <1>5, <1>7, <1>8, <1>9, <1>10, <1>11 DEF ids, firsts

\* There are as many of them as ids asked for.
LEMMA NormalizedCounts ==
  ASSUME NEW args \in Seq(Arguments)
  PROVE  /\ Len(Normalized(args)) = Cardinality(IdsOf(args))
         /\ Len(Normalized(args)) \in Nat
<1> DEFINE ids == Normalized(args)
           n == Len(ids)
           asks == IdsOf(args)
<1>1. ids \in Seq(RunIds) /\ (\A k \in 1..n : ids[k] \in asks)
      /\ (\A id \in asks : \E k \in 1..n : ids[k] = id)
      /\ (\A j, k \in 1..n : ids[j] = ids[k] => j = k)
  BY NormalizedFacts
<1> HIDE DEF ids, asks
<1>2. n \in Nat /\ ids \in [1..n -> RunIds] /\ DOMAIN ids = 1..n
  BY <1>1, LenProperties
<1>3. ids \in [1..n -> asks]
  BY <1>1, <1>2
<1> HIDE DEF n
<1>4. ids \in Bijection(1..n, asks)
  BY <1>1, <1>3 DEF Bijection, Injection, Surjection, IsInjective
<1>5. ExistsBijection(1..n, asks)
  BY <1>4 DEF ExistsBijection
<1>6. IsFiniteSet(1..n) /\ Cardinality(1..n) = n
  BY <1>2, FS_Interval
<1>7. Cardinality(asks) = Cardinality(1..n)
  BY <1>5, <1>6, FS_Bijection
<1> QED
  BY <1>2, <1>6, <1>7 DEF ids, asks, n

\* Where an id was first asked for.
LEMMA FirstAskedIs ==
  ASSUME asked \in Seq(Arguments), NEW i \in FirstOccurrences(asked)
  PROVE  FirstAsked(Trim[asked[i]]) = i
<1> DEFINE id == Trim[asked[i]]
           P(k) == Trim[asked[k]] = id /\ \A j \in DOMAIN asked : Trim[asked[j]] = id => k <= j
<1>1. i \in DOMAIN asked /\ FirstOccurrences(asked) \in SUBSET Nat /\ DOMAIN asked \in SUBSET Nat
  BY FirstOccurrenceType, LenProperties
<1>2. id \in IdsOf(asked)
  BY <1>1 DEF FirstOccurrences, IdsOf
<1>3. P(i)
  BY <1>1, <1>2, FirstOccurrenceExists
<1>4. ASSUME NEW k \in DOMAIN asked, P(k) PROVE k = i
  <2>1. k <= i /\ i <= k
    BY <1>1, <1>3, <1>4
  <2> QED
    BY <1>1, <2>1
<1> HIDE DEF id
<1>5. FirstAsked(id) = CHOOSE k \in DOMAIN asked : P(k)
  BY DEF FirstAsked
<1>6. FirstAsked(id) \in DOMAIN asked /\ P(FirstAsked(id))
  BY <1>1, <1>3, <1>5
<1> QED
  BY <1>4, <1>6 DEF id

\* The runs found are those of the ids that are stored, in their order.
LEMMA FoundFacts ==
  ASSUME TableOK, NEW ids \in Seq(RunIds)
  PROVE  LET found == InRequestedOrder(ids)
         IN  /\ found \in Seq(Documents)
             /\ Len(found) \in Nat
             /\ \A k \in 1..Len(found) : \E i \in 1..Len(ids) :
                  /\ ids[i] \in DOMAIN table
                  /\ found[k] = table[ids[i]]
                  /\ found[k].run_id = ids[i]
             /\ \A j, k \in 1..Len(found) : j < k =>
                  \E a, b \in 1..Len(ids) :
                    a < b /\ found[j].run_id = ids[a] /\ found[k].run_id = ids[b]
             /\ Len(found) < Len(ids) => \E i \in 1..Len(ids) : ids[i] \notin DOMAIN table
<1> DEFINE present == {i \in DOMAIN ids : ids[i] \in DOMAIN table}
           kept == At(ids, present)
           n == Cardinality(present)
           found == InRequestedOrder(ids)
<1>1. DOMAIN ids = 1..Len(ids) /\ Len(ids) \in Nat
  BY LenProperties
<1>2. present \in SUBSET DOMAIN ids
  OBVIOUS
<1>3. \A i \in present : i \in 1..Len(ids) /\ ids[i] \in DOMAIN table
  BY <1>1
<1>4. found = [k \in DOMAIN kept |-> table[kept[k]]]
  BY DEF InRequestedOrder
<1>5. Len(ids) # n => \E i \in 1..Len(ids) : ids[i] \notin DOMAIN table
  <2> SUFFICES ASSUME \A i \in 1..Len(ids) : ids[i] \in DOMAIN table
               PROVE  Len(ids) = n
    OBVIOUS
  <2>1. present = 1..Len(ids)
    BY <1>1
  <2> DEFINE m == Len(ids)
  <2>2. present = 1..m /\ m \in Nat
    BY <1>1, <2>1
  <2> HIDE DEF present, m
  <2>3. Cardinality(1..m) = m
    BY <2>2, FS_Interval
  <2>4. n = m
    BY <2>2, <2>3
  <2> QED
    BY <2>4 DEF m
<1> HIDE DEF present, kept, found
<1>6. /\ present \in SUBSET Nat /\ IsFiniteSet(present) /\ n \in Nat
      /\ kept \in Seq(RunIds) /\ Len(kept) = n
      /\ \A k \in 1..n : kept[k] = ids[Place(present, k)]
  BY <1>2, AtType DEF kept
<1> HIDE DEF n
<1>7. \A k \in 1..n : Place(present, k) \in present
  BY <1>6, PlaceType DEF n
<1>8. DOMAIN kept = 1..n
  BY <1>6, LenProperties
<1>9. \A k \in 1..n : /\ kept[k] \in DOMAIN table
                      /\ found[k] = table[kept[k]]
                      /\ table[kept[k]] \in Documents
                      /\ table[kept[k]].run_id = kept[k]
  BY <1>3, <1>4, <1>6, <1>7, <1>8 DEF TableOK
<1>10. found \in [1..n -> Documents]
  BY <1>4, <1>8, <1>9
<1>11. found \in Seq(Documents) /\ Len(found) = n
  <2>1. found \in Seq(Documents)
    BY <1>6, <1>10
  <2>2. DOMAIN found = 1..n /\ DOMAIN found = 1..Len(found) /\ Len(found) \in Nat
    BY <1>10, <2>1, LenProperties
  <2> QED
    BY <1>6, <2>1, <2>2
<1>12. \A k \in 1..n : \E i \in 1..Len(ids) :
         ids[i] \in DOMAIN table /\ found[k] = table[ids[i]] /\ found[k].run_id = ids[i]
  <2> SUFFICES ASSUME NEW k \in 1..n
               PROVE  \E i \in 1..Len(ids) : /\ ids[i] \in DOMAIN table
                                             /\ found[k] = table[ids[i]]
                                             /\ found[k].run_id = ids[i]
    OBVIOUS
  <2> DEFINE i == Place(present, k)
  <2>1. i \in 1..Len(ids) /\ ids[i] = kept[k]
    BY <1>3, <1>6, <1>7
  <2> HIDE DEF i
  <2>2. ids[i] \in DOMAIN table /\ found[k] = table[ids[i]] /\ found[k].run_id = ids[i]
    BY <1>9, <2>1
  <2> QED
    BY <2>1, <2>2
<1>13. ASSUME NEW j \in 1..n, NEW k \in 1..n, j < k
       PROVE  \E a, b \in 1..Len(ids) :
                a < b /\ found[j].run_id = ids[a] /\ found[k].run_id = ids[b]
  <2>1. Place(present, j) < Place(present, k)
    BY <1>6, <1>13, PlaceIncreases DEF n
  <2>2. /\ Place(present, j) \in 1..Len(ids) /\ Place(present, k) \in 1..Len(ids)
        /\ kept[j] = ids[Place(present, j)] /\ kept[k] = ids[Place(present, k)]
    BY <1>3, <1>6, <1>7
  <2>3. found[j].run_id = kept[j] /\ found[k].run_id = kept[k]
    BY <1>9
  <2> QED
    BY <2>1, <2>2, <2>3
<1> QED
  BY <1>5, <1>6, <1>11, <1>12, <1>13 DEF found

-----------------------------------------------------------------------------
(* What the loops rest on.                                                 *)

LEMMA DocumentFacts ==
  ASSUME NEW e \in Documents
  PROVE  /\ e.run_id \in RunIds /\ e.comparability_key \in Keys /\ e.iterations \in Nat
         /\ e.started_at \in {"time", "leap_second"}
         /\ e.metrics \in Seq(Metric) /\ Len(e.metrics) \in Nat
         /\ DOMAIN e.metrics = 1..Len(e.metrics)
         /\ \A m \in 1..Len(e.metrics) : /\ e.metrics[m].name \in MetricNames
                                         /\ e.metrics[m].unit \in Units
                                         /\ e.metrics[m].value \in Int
<1>1. e \in Evidence
  BY ComparisonAssumption
<1>2. e.run_id \in RunIds /\ e.comparability_key \in Keys /\ e.iterations \in Nat
      /\ e.metrics \in Seq(Metric)
  BY <1>1 DEF Evidence
<1>3. Len(e.metrics) \in Nat /\ DOMAIN e.metrics = 1..Len(e.metrics)
      /\ \A m \in 1..Len(e.metrics) : e.metrics[m] \in Metric
  BY <1>2, LenProperties, ElementOfSeq
<1>4. -MaxFloat..MaxFloat \in SUBSET Int
  BY ComparisonAssumption
<1>5. \A x \in Metric : x.name \in MetricNames /\ x.unit \in Units /\ x.value \in Int
  BY <1>4 DEF Metric
<1>6. e.started_at \in {"time", "leap_second"}
  BY <1>1 DEF Evidence
<1> QED
  BY <1>2, <1>3, <1>5, <1>6

\* One key for all is the key of the first.
LEMMA SameKeysIs ==
  ASSUME NEW found \in Seq(Documents), Len(found) >= 1
  PROVE  SameKeys(found) <=>
           \A i \in DOMAIN found : found[i].comparability_key = found[1].comparability_key
<1> DEFINE n == Len(found)
           keys == {found[i].comparability_key : i \in DOMAIN found}
           f == [i \in 1..n |-> found[i].comparability_key]
<1>1. n \in Nat /\ DOMAIN found = 1..n /\ 1 \in 1..n
  BY LenProperties
<1> HIDE DEF n
<1>2. f \in Surjection(1..n, keys)
  BY <1>1 DEF Surjection
<1>3. IsFiniteSet(1..n)
  BY <1>1, FS_Interval
<1> HIDE DEF f
<1>4. IsFiniteSet(keys)
  <2> HIDE DEF keys
  <2> QED
    BY <1>2, <1>3, FS_Surjection
<1>5. found[1].comparability_key \in keys
  BY <1>1
<1>6. Cardinality(keys) = 1 <=> \E x : keys = {x}
  <2> HIDE DEF keys
  <2> QED
    BY <1>4, FS_Singleton
<1>7. (\E x : keys = {x}) <=>
        \A i \in DOMAIN found : found[i].comparability_key = found[1].comparability_key
  <2>1. ASSUME NEW x, keys = {x}, NEW i \in DOMAIN found
        PROVE  found[i].comparability_key = found[1].comparability_key
    <3>1. found[i].comparability_key \in keys
      OBVIOUS
    <3> HIDE DEF keys
    <3> QED
      BY <1>5, <2>1, <3>1
  <2>2. ASSUME \A i \in DOMAIN found :
                 found[i].comparability_key = found[1].comparability_key
        PROVE  keys = {found[1].comparability_key}
    BY <1>1, <2>2
  <2> QED
    BY <2>1, <2>2
<1> QED
  BY <1>6, <1>7 DEF SameKeys

\* The differences of one candidate stand before those of the next.
LEMMA Positions ==
  ASSUME NEW size \in Nat, NEW c \in Nat, NEW d \in Nat, c < d, NEW m \in 1..size
  PROVE  c * size + m \in Nat \ {0} /\ c * size + m <= d * size
<1> DEFINE e == d - c - 1
<1>1. e \in Nat /\ d = c + 1 + e
  OBVIOUS
<1> HIDE DEF e
<1>2. c * size \in Nat /\ e * size \in Nat
  BY <1>1
<1>3. d * size = c * size + size + e * size
  BY <1>1
<1> QED
  BY <1>2, <1>3

\* A double is the number it stands for if that is finite, and else is not.
LEMMA DoubleIs ==
  ASSUME NEW x \in Int
  PROVE  /\ Double(x) \in Int
         /\ IsFinite(x) => Double(x) = x
         /\ IsFinite(Double(x)) <=> IsFinite(x)
<1>1. MaxFloat \in Nat
  BY ComparisonAssumption
<1> QED
  BY <1>1 DEF Double, IsFinite, Infinity

LEMMA DeltaType ==
  ASSUME NEW base \in Documents, NEW run \in Documents,
         NEW m \in 1..Len(base.metrics), NEW n \in 1..Len(run.metrics)
  PROVE  Delta(base, run, base.metrics[m], run.metrics[n]) \in DeltaRecord
<1> DEFINE was == base.metrics[m]
           is == run.metrics[n]
<1>1. base.run_id \in RunIds /\ run.run_id \in RunIds /\ was.name \in MetricNames
      /\ was.unit \in Units /\ was.value \in Int /\ is.value \in Int
  BY DocumentFacts
<1> HIDE DEF was, is
<1>2. /\ Double(is.value - was.value) \in Int
      /\ Percent(Double(is.value - was.value), was.value) \in {<<>>} \cup (Int \X Int)
  <2> DEFINE difference == is.value - was.value
  <2>1. difference \in Int
    BY <1>1
  <2> HIDE DEF difference
  <2>2. Double(difference) \in Int
    BY <2>1, DoubleIs
  <2>3. Percent(Double(difference), was.value) \in {<<>>} \cup (Int \X Int)
    BY <1>1, <2>2 DEF Percent
  <2> QED
    BY <2>2, <2>3 DEF difference
<1>3. Delta(base, run, was, is) \in DeltaRecord
  BY <1>1, <1>2 DEF Delta, DeltaRecord
<1> QED
  BY <1>3 DEF was, is

-----------------------------------------------------------------------------
(* Every step keeps the invariant.                                         *)

LEMMA ComparisonInitially ==
  ASSUME Init
  PROVE  ComparisonInv
<1>1. runs = <<>> /\ deltas = <<>> /\ asked = <<>> /\ candidate = 2 /\ metric = 1
      /\ stage = "idle" /\ verdict = "pending" /\ DOMAIN table = {}
  BY DEF Init
<1>2. runs \in Seq(Documents) /\ Len(runs) = 0 /\ DOMAIN runs = {} /\ deltas \in Seq(DeltaRecord)
      /\ asked \in Seq(Arguments)
  BY <1>1, EmptySeq
<1>3. ComparisonTypes
  BY <1>1, <1>2 DEF ComparisonTypes, TableOK, Verdicts
<1>4. NothingFound /\ CountIsTold
  BY <1>1 DEF NothingFound, CountIsTold
<1>5. RunsAreAsked
  BY <1>2 DEF RunsAreAsked, RequestedOrderIsKept
<1>6. LoopsOK /\ DeltasAreReal /\ RefusalIsTrue
  BY <1>1, <1>2 DEF LoopsOK, Comparing, DeltasAreReal, RefusalIsTrue
<1> QED
  BY <1>3, <1>4, <1>5, <1>6 DEF ComparisonInv

\* Nothing but the table changes, and what is stored stays.
LEMMA ComparisonKeeps ==
  ASSUME ComparisonInv,
         UNCHANGED <<asked, stage, loopVars, verdict>>,
         TableOK',
         \A id \in DOMAIN table : id \in DOMAIN table' /\ table'[id] = table[id]
  PROVE  ComparisonInv'
<1>a. /\ asked' = asked /\ stage' = stage /\ runs' = runs /\ candidate' = candidate
      /\ metric' = metric /\ deltas' = deltas /\ verdict' = verdict
  BY DEF loopVars
<1>b. ComparisonTypes /\ NothingFound /\ CountIsTold /\ RunsAreAsked /\ LoopsOK
      /\ DeltasAreReal /\ RefusalIsTrue
  BY DEF ComparisonInv
<1>1. ComparisonTypes'
  BY <1>a, <1>b DEF ComparisonTypes
<1>2. NothingFound'
  BY <1>a, <1>b DEF NothingFound
<1>3. CountIsTold'
  BY <1>a, <1>b DEF CountIsTold, AskedIds
<1>4. RunsAreAsked'
  <2>1. RequestedOrderIsKept'
    BY <1>a, <1>b DEF RunsAreAsked, RequestedOrderIsKept, FirstAsked
  <2>2. AskedIds' = AskedIds
    BY <1>a DEF AskedIds
  <2> QED
    BY <1>a, <1>b, <2>1, <2>2 DEF RunsAreAsked
<1>5. LoopsOK'
  <2>1. Metrics' = Metrics /\ Comparing' = Comparing
    BY <1>a DEF Metrics, Comparing
  <2>2. \A c, m : IsCompared(c, m)' <=> IsCompared(c, m)
    BY <1>a DEF IsCompared, DeltaOf
  <2> QED
    BY <1>a, <1>b, <2>1, <2>2 DEF LoopsOK
<1>6. RefusalIsTrue'
  <2>1. AskedIds' = AskedIds
    BY <1>a DEF AskedIds
  <2> QED
    BY <1>a, <1>b, <2>1 DEF RefusalIsTrue
<1>7. DeltasAreReal'
  BY <1>a, <1>b DEF DeltasAreReal, IsDelta
<1> QED
  BY <1>1, <1>2, <1>3, <1>4, <1>5, <1>6, <1>7 DEF ComparisonInv

LEMMA IngestStep ==
  ASSUME ComparisonInv, NEW e \in Documents, Ingest(e)
  PROVE  ComparisonInv'
<1>1. TableOK /\ e.run_id \in RunIds
  BY DocumentFacts DEF ComparisonInv, ComparisonTypes
<1>2. TableOK'
  BY <1>1 DEF TableOK, Ingest
<1>3. \A id \in DOMAIN table : id \in DOMAIN table' /\ table'[id] = table[id]
  BY DEF Ingest
<1> QED
  BY <1>2, <1>3, ComparisonKeeps DEF Ingest

LEMMA AskStep ==
  ASSUME ComparisonInv, NEW args \in Seq(Arguments), Ask(args)
  PROVE  ComparisonInv'
<1>1. /\ stage = "idle" /\ asked' = args /\ verdict = "pending"
      /\ UNCHANGED <<table, runs, candidate, metric, deltas>>
      /\ runs = <<>> /\ candidate = 2 /\ metric = 1 /\ deltas = <<>>
      /\ <<stage', verdict'>> \in {<<"done", "invalid_query">>, <<"finding", "pending">>}
      /\ verdict' = "invalid_query" <=> ~ CountOK(Normalized(args))
  BY DEF Ask, Finish, loopVars, ComparisonInv, ComparisonTypes, NothingFound
<1>2. AskedIds' = IdsOf(args)
  BY <1>1 DEF AskedIds, IdsOf
<1>3. verdict' = "invalid_query" <=> Cardinality(AskedIds') \notin 2..MaxComparisonRuns
  BY <1>1, <1>2, NormalizedCounts DEF CountOK
<1>4. ComparisonTypes'
  BY <1>1 DEF ComparisonInv, ComparisonTypes, TableOK, Verdicts
<1>5. NothingFound' /\ CountIsTold'
  BY <1>1, <1>3 DEF NothingFound, CountIsTold
<1>6. RunsAreAsked'
  <2>1. DOMAIN runs' = {}
    BY <1>1
  <2> QED
    BY <2>1 DEF RunsAreAsked, RequestedOrderIsKept
<1>7. LoopsOK' /\ DeltasAreReal' /\ RefusalIsTrue'
  BY <1>1, <1>3 DEF LoopsOK, Comparing, DeltasAreReal, RefusalIsTrue
<1> QED
  BY <1>4, <1>5, <1>6, <1>7 DEF ComparisonInv

\* The runs that Find puts in their place.
LEMMA FindRuns ==
  ASSUME ComparisonInv, stage = "finding", asked' = asked, table' = table,
         runs' = InRequestedOrder(Normalized(asked))
  PROVE  /\ runs' \in Seq(Documents)
         /\ Len(runs') \in Nat
         /\ RunsAreAsked'
         /\ Len(runs') < Len(Normalized(asked)) => {runs'[i].run_id : i \in DOMAIN runs'} # AskedIds
<1> DEFINE ids == Normalized(asked)
           firsts == FirstOccurrences(asked)
           found == InRequestedOrder(ids)
<1>1. TableOK /\ asked \in Seq(Arguments)
  BY DEF ComparisonInv, ComparisonTypes
<1>2. AskedIds = IdsOf(asked) /\ AskedIds' = IdsOf(asked)
  BY DEF AskedIds, IdsOf
<1>3. /\ ids \in Seq(RunIds)
      /\ Len(ids) = Cardinality(firsts)
      /\ \A k \in 1..Len(ids) : /\ Place(firsts, k) \in firsts
                                /\ ids[k] = Trim[asked[Place(firsts, k)]]
                                /\ ids[k] \in IdsOf(asked)
  BY <1>1, NormalizedFacts
<1>4. firsts \in SUBSET Nat /\ IsFiniteSet(firsts)
  BY <1>1, FirstOccurrenceType
<1>5. \A a, b \in 1..Len(ids) : a < b => FirstAsked(ids[a]) < FirstAsked(ids[b])
  <2> SUFFICES ASSUME NEW a \in 1..Len(ids), NEW b \in 1..Len(ids), a < b
               PROVE  FirstAsked(ids[a]) < FirstAsked(ids[b])
    OBVIOUS
  <2>1. FirstAsked(ids[a]) = Place(firsts, a) /\ FirstAsked(ids[b]) = Place(firsts, b)
    BY <1>1, <1>3, FirstAskedIs
  <2> HIDE DEF ids, firsts
  <2> QED
    BY <1>3, <1>4, <2>1, PlaceIncreases
<1>6. \A id : FirstAsked(id)' = FirstAsked(id)
  BY DEF FirstAsked
<1> HIDE DEF ids, firsts
<1>7. /\ found \in Seq(Documents)
      /\ Len(found) \in Nat
      /\ \A k \in 1..Len(found) : \E i \in 1..Len(ids) :
           ids[i] \in DOMAIN table /\ found[k] = table[ids[i]] /\ found[k].run_id = ids[i]
      /\ \A j, k \in 1..Len(found) : j < k =>
           \E a, b \in 1..Len(ids) :
             a < b /\ found[j].run_id = ids[a] /\ found[k].run_id = ids[b]
      /\ Len(found) < Len(ids) => \E i \in 1..Len(ids) : ids[i] \notin DOMAIN table
  BY <1>1, <1>3, FoundFacts
<1>8. runs' = found
  BY DEF ids
<1> HIDE DEF found
<1>9. DOMAIN found = 1..Len(found)
  BY <1>7, LenProperties
<1>10. \A j, k \in 1..Len(found) : j < k =>
         FirstAsked(found[j].run_id) < FirstAsked(found[k].run_id)
  BY <1>5, <1>7
<1>11. RequestedOrderIsKept'
  BY <1>6, <1>8, <1>9, <1>10 DEF RequestedOrderIsKept
<1>12. \A k \in 1..Len(found) : /\ found[k].run_id \in IdsOf(asked)
                                /\ found[k].run_id \in DOMAIN table
                                /\ table[found[k].run_id] = found[k]
  BY <1>3, <1>7
<1>13. ASSUME NEW j \in 1..Len(found), NEW k \in 1..Len(found), found[j].run_id = found[k].run_id
       PROVE  j = k
  <2>1. CASE j < k
    <3>1. PICK a \in 1..Len(ids), b \in 1..Len(ids) :
            a < b /\ found[j].run_id = ids[a] /\ found[k].run_id = ids[b]
      BY <1>7, <2>1
    <3>2. FirstAsked(ids[a]) < FirstAsked(ids[b]) /\ ids[a] = ids[b]
      BY <1>5, <1>13, <3>1
    <3>3. FirstAsked(ids[a]) \in Nat
      BY <1>1, <1>3, <1>4, FirstAskedIs DEF firsts
    <3> QED
      BY <3>2, <3>3
  <2>2. CASE k < j
    <3>1. PICK a \in 1..Len(ids), b \in 1..Len(ids) :
            a < b /\ found[k].run_id = ids[a] /\ found[j].run_id = ids[b]
      BY <1>7, <2>2
    <3>2. FirstAsked(ids[a]) < FirstAsked(ids[b]) /\ ids[a] = ids[b]
      BY <1>5, <1>13, <3>1
    <3>3. FirstAsked(ids[a]) \in Nat
      BY <1>1, <1>3, <1>4, FirstAskedIs DEF firsts
    <3> QED
      BY <3>2, <3>3
  <2> QED
    BY <1>7, <2>1, <2>2
<1>14. RunsAreAsked'
  BY <1>2, <1>8, <1>9, <1>11, <1>12, <1>13 DEF RunsAreAsked
<1>15. ASSUME Len(found) < Len(ids) PROVE {found[i].run_id : i \in DOMAIN found} # AskedIds
  <2>1. PICK i \in 1..Len(ids) : ids[i] \notin DOMAIN table
    BY <1>7, <1>15
  <2>2. ids[i] \in AskedIds
    BY <1>2, <1>3
  <2> QED
    BY <1>9, <1>12, <2>1, <2>2
<1> QED
  BY <1>7, <1>8, <1>14, <1>15 DEF ids

\* While the runs and what was asked for stay, so do the parts about them.
LEMMA RunsStay ==
  ASSUME ComparisonInv, UNCHANGED <<table, asked, runs>>
  PROVE  TableOK' /\ RunsAreAsked' /\ AskedIds' = AskedIds
<1>1. AskedIds' = AskedIds
  BY DEF AskedIds
<1>2. RunsAreAsked'
  BY <1>1 DEF ComparisonInv, RunsAreAsked, RequestedOrderIsKept, FirstAsked
<1> QED
  BY <1>1, <1>2 DEF ComparisonInv, ComparisonTypes, TableOK

LEMMA FindStep ==
  ASSUME ComparisonInv, Find
  PROVE  ComparisonInv'
<1> DEFINE ids == Normalized(asked)
<1>1. /\ stage = "finding" /\ verdict = "pending"
      /\ UNCHANGED <<table, asked, candidate, metric>>
      /\ runs = <<>> /\ candidate = 2 /\ metric = 1 /\ deltas = <<>>
      /\ runs' = InRequestedOrder(ids)
      /\ deltas' = <<>>
  BY DEF Find, Refuse, Finish, ComparisonInv, ComparisonTypes, NothingFound
<1>2. \/ Len(runs') < Len(ids) /\ stage' = "done" /\ verdict' = "missing_runs"
      \/ /\ Len(runs') = Len(ids) /\ ~ SameKeys(runs')
         /\ stage' = "done" /\ verdict' = "keys_differ"
      \/ /\ Len(runs') = Len(ids) /\ SameKeys(runs')
         /\ stage' = "comparing" /\ verdict' = "pending"
  BY <1>1 DEF Find, Refuse, Finish
<1>3. /\ runs' \in Seq(Documents)
      /\ Len(runs') \in Nat
      /\ RunsAreAsked'
      /\ Len(runs') < Len(ids) => {runs'[i].run_id : i \in DOMAIN runs'} # AskedIds
  BY <1>1, FindRuns
<1>4. AskedIds' = AskedIds /\ AskedIds = IdsOf(asked)
  BY <1>1 DEF AskedIds, IdsOf
<1>5. Cardinality(AskedIds) \in 2..MaxComparisonRuns
  BY <1>1 DEF ComparisonInv, CountIsTold
<1>6. Len(ids) = Cardinality(AskedIds) /\ Len(ids) \in 2..MaxComparisonRuns
  BY <1>4, <1>5, NormalizedCounts DEF ComparisonInv, ComparisonTypes
<1>7. Len(runs') = Len(ids) =>
        (SameKeys(runs') <=>
           \A i \in DOMAIN runs' : runs'[i].comparability_key = runs'[1].comparability_key)
  BY <1>3, <1>6, SameKeysIs
<1>8. DOMAIN runs' = 1..Len(runs')
  BY <1>3, LenProperties
<1> HIDE DEF ids
<1>9. ComparisonTypes'
  <2>1. TableOK' /\ asked' \in Seq(Arguments)
    BY <1>1 DEF ComparisonInv, ComparisonTypes, TableOK
  <2>2. deltas' \in Seq(DeltaRecord) /\ metric' = 1 /\ candidate' = 2
    BY <1>1, EmptySeq
  <2>3. candidate' \in 2..(Len(runs') + 2)
    BY <1>3, <2>2
  <2>4. stage' \in {"done", "comparing"} /\ verdict' \in Verdicts
        /\ (verdict' = "pending" <=> stage' # "done")
    BY <1>2 DEF Verdicts
  <2> QED
    BY <1>3, <2>1, <2>2, <2>3, <2>4 DEF ComparisonTypes
<1>10. NothingFound'
  BY <1>2 DEF NothingFound
<1>11. CountIsTold'
  BY <1>2, <1>4, <1>5 DEF CountIsTold
<1>12. LoopsOK'
  <2> SUFFICES ASSUME Comparing' PROVE LoopsOK'
    BY DEF LoopsOK
  <2>1. Len(runs') = Len(ids) /\ SameKeys(runs') /\ verdict' = "pending"
    BY <1>2 DEF Comparing
  <2>2. \A i \in DOMAIN runs' : runs'[i].comparability_key = runs'[1].comparability_key
    BY <1>7, <2>1
  <2>3. Metrics' \in Nat
    <3>1. 1 \in 1..Len(runs')
      BY <1>6, <2>1
    <3>2. runs'[1] \in Documents
      BY <1>3, <3>1, ElementOfSeq
    <3> QED
      BY <3>2, DocumentFacts DEF Metrics
  <2>4. candidate' = 2 /\ metric' = 1 /\ Len(deltas') = 0
    BY <1>1
  <2>5. Len(deltas') = (candidate' - 2) * Metrics' + metric' - 1
    <3>1. \A size \in Nat : 0 = (2 - 2) * size + 1 - 1
      OBVIOUS
    <3> QED
      BY <2>3, <2>4, <3>1
  <2>6. \A c \in 2..Len(runs'), m \in 1..Metrics' :
          ~ (c < candidate' \/ (c = candidate' /\ m < metric'))
    BY <1>3, <2>3, <2>4
  <2>7. Len(runs') \in 2..MaxComparisonRuns
    BY <1>6, <2>1
  <2>8. candidate' <= Len(runs') /\ candidate' <= Len(runs') + 1
    BY <1>3, <2>4, <2>7
  <2>9. metric' <= Metrics' + 1
    <3>1. \A size \in Nat : 1 <= size + 1
      OBVIOUS
    <3> QED
      BY <2>3, <2>4, <3>1
  <2> QED
    BY <1>3, <2>1, <2>2, <2>4, <2>5, <2>6, <2>7, <2>8, <2>9 DEF LoopsOK
<1>13. RefusalIsTrue'
  <2>1. verdict' = "missing_runs" => {runs'[i].run_id : i \in DOMAIN runs'} # AskedIds'
    BY <1>2, <1>3, <1>4
  <2>2. ASSUME verdict' = "keys_differ"
        PROVE  \E i, j \in DOMAIN runs' :
                 runs'[i].comparability_key # runs'[j].comparability_key
    <3>1. 1 \in DOMAIN runs'
      BY <1>2, <1>6, <1>8, <2>2
    <3>2. \E i \in DOMAIN runs' : runs'[i].comparability_key # runs'[1].comparability_key
      BY <1>2, <1>7, <2>2
    <3> QED
      BY <3>1, <3>2
  <2> QED
    BY <1>1, <1>2, <2>1, <2>2 DEF RefusalIsTrue
<1>14. DeltasAreReal'
  BY <1>1 DEF DeltasAreReal
<1> QED
  BY <1>3, <1>9, <1>10, <1>11, <1>12, <1>13, <1>14 DEF ComparisonInv

LEMMA FindFailsStep ==
  ASSUME ComparisonInv, FindFails
  PROVE  ComparisonInv'
<1>1. /\ stage = "finding" /\ verdict = "pending" /\ deltas = <<>>
      /\ stage' = "done" /\ verdict' = "failed"
      /\ UNCHANGED <<table, asked, runs, candidate, metric, deltas>>
  BY DEF FindFails, Finish, loopVars, ComparisonInv, ComparisonTypes, NothingFound
<1>2. TableOK' /\ RunsAreAsked' /\ AskedIds' = AskedIds
  BY <1>1, RunsStay
<1>3. ComparisonTypes'
  BY <1>1, <1>2 DEF ComparisonInv, ComparisonTypes, Verdicts
<1>4. NothingFound' /\ CountIsTold'
  BY <1>1, <1>2 DEF ComparisonInv, NothingFound, CountIsTold
<1>5. LoopsOK' /\ DeltasAreReal' /\ RefusalIsTrue'
  BY <1>1 DEF LoopsOK, Comparing, DeltasAreReal, RefusalIsTrue
<1> QED
  BY <1>2, <1>3, <1>4, <1>5 DEF ComparisonInv

\* In the loops.
LEMMA LoopFacts ==
  ASSUME ComparisonInv, stage = "comparing"
  PROVE  /\ verdict = "pending"
         /\ Len(runs) \in Nat /\ Len(runs) \in 2..MaxComparisonRuns
         /\ DOMAIN runs = 1..Len(runs)
         /\ \A i \in 1..Len(runs) : runs[i] \in Documents
         /\ Metrics \in Nat
         /\ DOMAIN runs[1].metrics = 1..Metrics
         /\ candidate \in 2..(Len(runs) + 1)
         /\ metric \in 1..(Metrics + 1)
         /\ deltas \in Seq(DeltaRecord)
         /\ Len(deltas) = (candidate - 2) * Metrics + metric - 1
         /\ (candidate - 2) * Metrics \in Nat
<1>1. ComparisonTypes /\ LoopsOK
  BY DEF ComparisonInv
<1>2. /\ Len(runs) \in 2..MaxComparisonRuns /\ candidate <= Len(runs) + 1
      /\ metric <= Metrics + 1
      /\ Len(deltas) = (candidate - 2) * Metrics + metric - 1
  BY <1>1 DEF LoopsOK, Comparing
<1>3. DOMAIN runs = 1..Len(runs) /\ Len(runs) \in Nat
      /\ \A i \in 1..Len(runs) : runs[i] \in Documents
  BY <1>1, LenProperties, ElementOfSeq DEF ComparisonTypes
<1>4. Metrics \in Nat /\ DOMAIN runs[1].metrics = 1..Metrics
  <2>1. runs[1] \in Documents
    BY <1>2, <1>3
  <2> QED
    BY <2>1, DocumentFacts DEF Metrics
<1>5. candidate \in 2..(Len(runs) + 1) /\ candidate - 2 \in Nat
  BY <1>1, <1>2, <1>3 DEF ComparisonTypes
<1>6. metric \in 1..(Metrics + 1)
  BY <1>1, <1>2, <1>4 DEF ComparisonTypes
<1>7. (candidate - 2) * Metrics \in Nat
  BY <1>4, <1>5
<1> QED
  BY <1>1, <1>2, <1>3, <1>4, <1>5, <1>6, <1>7 DEF ComparisonTypes

\* The loops return with a refusal.
LEMMA RefuseStep ==
  ASSUME ComparisonInv, stage = "comparing",
         UNCHANGED <<table, asked, runs, candidate, metric>>,
         NEW reason \in {"metric_missing", "metric_incompatible"}, Refuse(reason),
         RefusalIsTrue'
  PROVE  ComparisonInv'
<1>1. stage' = "done" /\ verdict' = reason /\ deltas' = <<>>
  BY DEF Refuse, Finish
<1>2. TableOK' /\ RunsAreAsked' /\ AskedIds' = AskedIds
  BY RunsStay
<1>3. verdict = "pending"
  BY LoopFacts
<1>4. ComparisonTypes'
  <2>1. deltas' \in Seq(DeltaRecord)
    BY <1>1, EmptySeq
  <2>2. runs' = runs /\ candidate' = candidate /\ metric' = metric /\ asked' = asked
    OBVIOUS
  <2>3. ComparisonTypes
    BY DEF ComparisonInv
  <2> QED
    BY <1>1, <1>2, <2>1, <2>2, <2>3 DEF ComparisonTypes, Verdicts
<1>5. NothingFound' /\ LoopsOK' /\ DeltasAreReal'
  BY <1>1 DEF NothingFound, LoopsOK, Comparing, DeltasAreReal
<1>6. CountIsTold'
  BY <1>1, <1>2, <1>3 DEF ComparisonInv, CountIsTold
<1> QED
  BY <1>2, <1>4, <1>5, <1>6 DEF ComparisonInv

\* The loops pass a pair, and its difference is added.
LEMMA PassStep ==
  ASSUME ComparisonInv, stage = "comparing", candidate <= Len(runs), metric <= Metrics,
         NEW j \in Matching(runs[candidate], runs[1].metrics[metric].name),
         Compatible(runs[1].metrics[metric], runs[candidate].metrics[j]),
         deltas' = Append(deltas, Delta(runs[1], runs[candidate], runs[1].metrics[metric],
                                        runs[candidate].metrics[j])),
         metric' = metric + 1,
         UNCHANGED <<table, asked, stage, runs, candidate, verdict>>
  PROVE  ComparisonInv'
<1> DEFINE base == runs[1]
           run == runs[candidate]
           was == base.metrics[metric]
           is == run.metrics[j]
           new == Delta(base, run, was, is)
<1>1. /\ verdict = "pending"
      /\ Len(runs) \in Nat /\ Len(runs) \in 2..MaxComparisonRuns
      /\ \A i \in 1..Len(runs) : runs[i] \in Documents
      /\ Metrics \in Nat
      /\ DOMAIN base.metrics = 1..Metrics
      /\ candidate \in 2..(Len(runs) + 1)
      /\ metric \in 1..(Metrics + 1)
      /\ deltas \in Seq(DeltaRecord)
      /\ Len(deltas) = (candidate - 2) * Metrics + metric - 1
      /\ (candidate - 2) * Metrics \in Nat
  BY LoopFacts
<1>2. base \in Documents /\ run \in Documents /\ metric \in 1..Metrics /\ candidate \in 2..Len(runs)
  <2>1. candidate \in 2..Len(runs) /\ candidate \in 1..Len(runs) /\ 1 \in 1..Len(runs)
    BY <1>1
  <2>2. metric \in 1..Metrics
    BY <1>1
  <2> QED
    BY <1>1, <2>1, <2>2
<1>3. j \in DOMAIN run.metrics /\ j \in 1..Len(run.metrics) /\ is.name = was.name /\ is.unit = was.unit
  BY <1>2, DocumentFacts DEF Matching, Compatible
<1>4. new \in DeltaRecord
  BY <1>2, <1>3, DeltaType DEF Metrics
<1>5. was.value \in Int /\ is.value \in Int
  BY <1>2, <1>3, DocumentFacts DEF Metrics
<1>6. /\ new.metricName = was.name
      /\ new.candidateRunId = run.run_id
      /\ IF IsFinite(is.value - was.value)
           THEN was.value + new.absoluteDelta = is.value
           ELSE ~ IsFinite(new.absoluteDelta)
      /\ new.percentDelta = <<>> <=> was.value = 0
  <2>1. /\ new.metricName = was.name
        /\ new.candidateRunId = run.run_id
        /\ new.absoluteDelta = Double(is.value - was.value)
        /\ new.percentDelta = <<>> <=> was.value = 0
    BY DEF Delta, Percent
  <2> DEFINE difference == is.value - was.value
  <2>2. difference \in Int /\ was.value + difference = is.value
    BY <1>5
  <2> HIDE DEF difference
  <2>3. /\ IsFinite(difference) => Double(difference) = difference
        /\ IsFinite(Double(difference)) <=> IsFinite(difference)
    BY <2>2, DoubleIs
  <2>4. /\ IsFinite(difference) => was.value + new.absoluteDelta = is.value
        /\ ~ IsFinite(difference) => ~ IsFinite(new.absoluteDelta)
    <3>1. new.absoluteDelta = Double(difference)
      BY <2>1 DEF difference
    <3> HIDE DEF was, is, new
    <3> QED
      BY <2>2, <2>3, <3>1
  <2> QED
    BY <2>1, <2>4 DEF difference
<1>d. IsDelta(new)
  <2>1. candidate \in DOMAIN runs /\ metric \in DOMAIN base.metrics
    BY <1>1, <1>2, LenProperties DEF ComparisonInv, ComparisonTypes
  <2>2. was.name = is.name /\ j \in DOMAIN run.metrics
    BY <1>3
  <2> QED
    BY <2>1, <2>2 DEF IsDelta
<1>a. deltas' = Append(deltas, new)
  OBVIOUS
<1> HIDE DEF new
<1>b. deltas \in Seq(DeltaRecord)
  BY <1>1
<1>c. /\ Append(deltas, new) \in Seq(DeltaRecord)
      /\ Len(Append(deltas, new)) = Len(deltas) + 1
      /\ \A k \in 1..Len(deltas) : Append(deltas, new)[k] = deltas[k]
      /\ Append(deltas, new)[Len(deltas) + 1] = new
  BY <1>4, <1>b, AppendProperties
<1>7. /\ deltas' \in Seq(DeltaRecord)
      /\ Len(deltas') = Len(deltas) + 1
      /\ \A k \in 1..Len(deltas) : deltas'[k] = deltas[k]
      /\ deltas'[Len(deltas) + 1] = new
  BY <1>a, <1>c
<1>8. Metrics' = Metrics
  BY DEF Metrics
<1>9. TableOK' /\ RunsAreAsked' /\ AskedIds' = AskedIds
  BY RunsStay
<1>10. ComparisonTypes'
  BY <1>1, <1>7, <1>9 DEF ComparisonInv, ComparisonTypes
<1>11. NothingFound' /\ CountIsTold'
  BY <1>1, <1>9 DEF ComparisonInv, NothingFound, CountIsTold
<1>12. RefusalIsTrue'
  BY <1>1 DEF RefusalIsTrue
<1>13. LoopsOK'
  <2>1. Len(deltas') = (candidate - 2) * Metrics + (metric + 1) - 1
    BY <1>1, <1>7
  <2>2. ASSUME NEW c \in 2..Len(runs), NEW m \in 1..Metrics,
               c < candidate \/ (c = candidate /\ m < metric)
        PROVE  IsCompared(c, m)'
    <3>1. IsCompared(c, m)
      BY <1>1, <2>2 DEF ComparisonInv, LoopsOK, Comparing
    <3>2. (c - 2) * Metrics + m \in 1..Len(deltas)
      <4>1. CASE c < candidate
        <5>1. c - 2 \in Nat /\ candidate - 2 \in Nat /\ c - 2 < candidate - 2
          BY <1>1, <4>1
        <5>2. (c - 2) * Metrics + m \in Nat \ {0}
              /\ (c - 2) * Metrics + m <= (candidate - 2) * Metrics
          BY <1>1, <5>1, Positions
        <5> QED
          BY <1>1, <5>2
      <4>2. CASE c = candidate /\ m < metric
        <5> DEFINE offset == (candidate - 2) * Metrics
        <5>1. offset \in Nat /\ Len(deltas) = offset + metric - 1 /\ (c - 2) * Metrics = offset
          BY <1>1, <4>2
        <5> HIDE DEF offset
        <5>2. offset + m \in 1..(offset + metric - 1)
          <6>1. metric \in Nat /\ m \in Nat \ {0} /\ m <= metric - 1
            BY <1>1, <4>2
          <6> QED
            BY <5>1, <6>1
        <5> QED
          BY <5>1, <5>2
      <4> QED
        BY <2>2, <4>1, <4>2
    <3>3. DeltaOf(c, m)' = DeltaOf(c, m)
      BY <1>7, <3>2 DEF DeltaOf, Metrics
    <3> QED
      BY <3>1, <3>3 DEF IsCompared
  <2>3. ASSUME NEW c \in 2..Len(runs), NEW m \in 1..Metrics, c = candidate, m = metric
        PROVE  IsCompared(c, m)'
    <3>1. Len(deltas) + 1 = (candidate - 2) * Metrics + metric
      <4> DEFINE offset == (candidate - 2) * Metrics
      <4>1. offset \in Nat /\ Len(deltas) = offset + metric - 1
        BY <1>1
      <4> HIDE DEF offset
      <4>2. Len(deltas) + 1 = offset + metric
        BY <1>1, <4>1
      <4> QED
        BY <4>2 DEF offset
    <3>2. deltas'[(c - 2) * Metrics + m] = new
      BY <1>7, <2>3, <3>1
    <3>3. DeltaOf(c, m)' = new
      BY <3>2 DEF DeltaOf, Metrics
    <3>4. runs'[1].metrics[m] = was /\ runs'[c] = run
      BY <2>3
    <3> HIDE DEF was, run
    <3>5. /\ run.metrics[j].name = was.name
          /\ run.metrics[j].unit = was.unit
          /\ new.metricName = was.name
          /\ new.candidateRunId = run.run_id
          /\ IF IsFinite(run.metrics[j].value - was.value)
               THEN was.value + new.absoluteDelta = run.metrics[j].value
               ELSE ~ IsFinite(new.absoluteDelta)
          /\ new.percentDelta = <<>> <=> was.value = 0
      BY <1>3, <1>6
    <3> QED
      BY <1>3, <3>3, <3>4, <3>5 DEF IsCompared
  <2>4. ASSUME NEW c \in 2..Len(runs), NEW m \in 1..Metrics,
               c < candidate \/ (c = candidate /\ m < metric + 1)
        PROVE  IsCompared(c, m)'
    <3>1. \/ c < candidate \/ (c = candidate /\ m < metric)
          \/ c = candidate /\ m = metric
      BY <1>1, <2>4
    <3>2. CASE c = candidate /\ m = metric
      BY <2>3, <3>2
    <3> QED
      BY <2>2, <3>1, <3>2
  <2>5. \A i \in DOMAIN runs : runs[i].comparability_key = runs[1].comparability_key
    BY DEF ComparisonInv, LoopsOK, Comparing
  <2>6. /\ candidate <= Len(runs) + 1 /\ metric + 1 <= Metrics + 1
        /\ ~ (candidate > Len(runs))
    BY <1>1
  <2> QED
    BY <1>1, <1>8, <2>1, <2>4, <2>5, <2>6 DEF LoopsOK
<1>14. DeltasAreReal'
  <2>1. DOMAIN deltas = 1..Len(deltas) /\ DOMAIN deltas' = 1..(Len(deltas) + 1)
        /\ Len(deltas) \in Nat
    BY <1>b, <1>7, LenProperties
  <2>2. ASSUME NEW k \in 1..(Len(deltas) + 1) PROVE IsDelta(deltas'[k])
    <3>1. CASE k \in 1..Len(deltas)
      BY <1>7, <2>1, <3>1 DEF ComparisonInv, DeltasAreReal
    <3>2. CASE k = Len(deltas) + 1
      BY <1>7, <1>d, <3>2
    <3> QED
      BY <2>1, <3>1, <3>2
  <2>3. \A k \in DOMAIN deltas' : IsDelta(deltas'[k])
    BY <2>1, <2>2
  <2> QED
    BY <2>3 DEF DeltasAreReal, IsDelta
<1> QED
  BY <1>9, <1>10, <1>11, <1>12, <1>13, <1>14 DEF ComparisonInv

LEMMA CompareMetricStep ==
  ASSUME ComparisonInv, CompareMetric
  PROVE  ComparisonInv'
<1> DEFINE was == runs[1].metrics[metric]
           found == Matching(runs[candidate], was.name)
<1>1. /\ stage = "comparing" /\ candidate <= Len(runs) /\ metric <= Metrics
      /\ UNCHANGED <<table, asked, runs, candidate>>
  BY DEF CompareMetric, Metrics
<1>2. \/ found = {} /\ Refuse("metric_missing") /\ UNCHANGED metric
      \/ \E j \in found :
           \/ /\ ~ Compatible(was, runs[candidate].metrics[j])
              /\ Refuse("metric_incompatible")
              /\ UNCHANGED metric
           \/ /\ Compatible(was, runs[candidate].metrics[j])
              /\ deltas' = Append(deltas, Delta(runs[1], runs[candidate], was,
                                                runs[candidate].metrics[j]))
              /\ metric' = metric + 1
              /\ UNCHANGED <<stage, verdict>>
  BY DEF CompareMetric
<1>3. candidate \in DOMAIN runs /\ metric \in DOMAIN runs[1].metrics
  <2>1. /\ Len(runs) \in Nat /\ DOMAIN runs = 1..Len(runs) /\ Metrics \in Nat
        /\ DOMAIN runs[1].metrics = 1..Metrics
        /\ candidate \in 2..(Len(runs) + 1) /\ metric \in 1..(Metrics + 1)
    BY <1>1, LoopFacts
  <2> QED
    BY <1>1, <2>1
<1>4. CASE found = {} /\ Refuse("metric_missing") /\ UNCHANGED metric
  <2>1. verdict' = "metric_missing" /\ deltas' = <<>>
    BY <1>4 DEF Refuse, Finish
  <2>2. \A n \in DOMAIN runs[candidate].metrics : runs[candidate].metrics[n].name # was.name
    BY <1>4 DEF Matching
  <2>3. RefusalIsTrue'
    BY <1>1, <1>3, <2>1, <2>2 DEF RefusalIsTrue
  <2> QED
    BY <1>1, <1>4, <2>3, RefuseStep
<1>5. ASSUME NEW j \in found, ~ Compatible(was, runs[candidate].metrics[j]),
             Refuse("metric_incompatible"), UNCHANGED metric
      PROVE  ComparisonInv'
  <2>1. verdict' = "metric_incompatible" /\ deltas' = <<>>
    BY <1>5 DEF Refuse, Finish
  <2>2. /\ j \in DOMAIN runs[candidate].metrics
        /\ runs[candidate].metrics[j].name = was.name
        /\ runs[candidate].metrics[j].unit # was.unit
    BY <1>5 DEF Matching, Compatible
  <2>3. RefusalIsTrue'
    BY <1>1, <1>3, <2>1, <2>2 DEF RefusalIsTrue
  <2> QED
    BY <1>1, <1>5, <2>3, RefuseStep
<1>6. ASSUME NEW j \in found, Compatible(was, runs[candidate].metrics[j]),
             deltas' = Append(deltas, Delta(runs[1], runs[candidate], was,
                                            runs[candidate].metrics[j])),
             metric' = metric + 1,
             UNCHANGED <<stage, verdict>>
      PROVE  ComparisonInv'
  BY <1>1, <1>6, PassStep
<1> QED
  BY <1>2, <1>4, <1>5, <1>6

LEMMA NextCandidateStep ==
  ASSUME ComparisonInv, NextCandidate
  PROVE  ComparisonInv'
<1>1. /\ stage = "comparing" /\ candidate <= Len(runs) /\ metric > Metrics
      /\ candidate' = candidate + 1 /\ metric' = 1
      /\ UNCHANGED <<table, asked, stage, runs, deltas, verdict>>
  BY DEF NextCandidate, Metrics
<1>2. /\ verdict = "pending"
      /\ Len(runs) \in Nat /\ Len(runs) \in 2..MaxComparisonRuns
      /\ Metrics \in Nat
      /\ candidate \in 2..(Len(runs) + 1)
      /\ metric \in 1..(Metrics + 1)
      /\ Len(deltas) = (candidate - 2) * Metrics + metric - 1
  BY <1>1, LoopFacts
<1>3. TableOK' /\ RunsAreAsked' /\ AskedIds' = AskedIds
  BY <1>1, RunsStay
<1>4. candidate' \in 2..(Len(runs) + 1) /\ metric = Metrics + 1
  BY <1>1, <1>2
<1>5. ComparisonTypes'
  BY <1>1, <1>2, <1>3, <1>4 DEF ComparisonInv, ComparisonTypes
<1>6. NothingFound' /\ CountIsTold' /\ RefusalIsTrue'
  BY <1>1, <1>2, <1>3 DEF ComparisonInv, NothingFound, CountIsTold, RefusalIsTrue
<1>7. Metrics' = Metrics
  BY <1>1 DEF Metrics
<1>8. Len(deltas') = (candidate' - 2) * Metrics + metric' - 1
  <2>1. \A c \in Nat, size \in Nat :
          c >= 2 => (c - 2) * size + (size + 1) - 1 = (c + 1 - 2) * size + 1 - 1
    <3> SUFFICES ASSUME NEW c \in Nat, NEW size \in Nat, c >= 2
                 PROVE  (c - 2) * size + (size + 1) - 1 = (c + 1 - 2) * size + 1 - 1
      OBVIOUS
    <3>1. c + 1 - 2 = (c - 2) + 1
      OBVIOUS
    <3>2. ((c - 2) + 1) * size = (c - 2) * size + size
      OBVIOUS
    <3> QED
      BY <3>1, <3>2
  <2>2. candidate \in Nat /\ candidate >= 2
    BY <1>2
  <2> QED
    BY <1>1, <1>2, <1>4, <2>1, <2>2
<1>9. ASSUME NEW c \in 2..Len(runs), NEW m \in 1..Metrics,
             c < candidate' \/ (c = candidate' /\ m < metric')
      PROVE  IsCompared(c, m)'
  <2>1. c < candidate \/ (c = candidate /\ m < metric)
    BY <1>1, <1>2, <1>4, <1>9
  <2>2. IsCompared(c, m)
    BY <1>1, <2>1 DEF ComparisonInv, LoopsOK, Comparing
  <2> QED
    BY <1>1, <2>2 DEF IsCompared, DeltaOf
<1>10. \A i \in DOMAIN runs : runs[i].comparability_key = runs[1].comparability_key
  BY <1>1 DEF ComparisonInv, LoopsOK, Comparing
<1>11. candidate' <= Len(runs) + 1 /\ metric' = 1 /\ metric' <= Metrics + 1
  BY <1>1, <1>2
<1>12. LoopsOK'
  BY <1>1, <1>2, <1>7, <1>8, <1>9, <1>10, <1>11 DEF LoopsOK
<1>13. DeltasAreReal'
  BY <1>1 DEF ComparisonInv, DeltasAreReal, IsDelta
<1> QED
  BY <1>3, <1>5, <1>6, <1>12, <1>13 DEF ComparisonInv

LEMMA ConcludeStep ==
  ASSUME ComparisonInv, Conclude
  PROVE  ComparisonInv'
<1>1. /\ stage = "comparing" /\ candidate > Len(runs)
      /\ stage' = "done" /\ verdict' = "comparable"
      /\ UNCHANGED <<table, asked, runs, candidate, metric, deltas>>
  BY DEF Conclude, Finish, loopVars
<1>2. TableOK' /\ RunsAreAsked' /\ AskedIds' = AskedIds
  BY <1>1, RunsStay
<1>3. verdict = "pending"
  BY <1>1, LoopFacts
<1>4. ComparisonTypes'
  BY <1>1, <1>2 DEF ComparisonInv, ComparisonTypes, Verdicts
<1>5. NothingFound' /\ CountIsTold' /\ RefusalIsTrue'
  BY <1>1, <1>2, <1>3 DEF ComparisonInv, NothingFound, CountIsTold, RefusalIsTrue
<1>6. LoopsOK'
  <2>1. Metrics' = Metrics
    BY <1>1 DEF Metrics
  <2>2. \A c, m : IsCompared(c, m)' <=> IsCompared(c, m)
    BY <1>1 DEF IsCompared, DeltaOf
  <2> QED
    BY <1>1, <2>1, <2>2 DEF ComparisonInv, LoopsOK, Comparing
<1>7. DeltasAreReal'
  BY <1>1 DEF ComparisonInv, DeltasAreReal, IsDelta
<1> QED
  BY <1>2, <1>4, <1>5, <1>6, <1>7 DEF ComparisonInv

LEMMA TakeStep ==
  ASSUME ComparisonInv, Take
  PROVE  ComparisonInv'
<1>1. runs' = <<>> /\ deltas' = <<>> /\ asked' = <<>> /\ candidate' = 2 /\ metric' = 1
      /\ stage' = "idle" /\ verdict' = "pending" /\ table' = table
  BY DEF Take
<1>2. runs' \in Seq(Documents) /\ Len(runs') = 0 /\ DOMAIN runs' = {}
      /\ deltas' \in Seq(DeltaRecord) /\ asked' \in Seq(Arguments)
  BY <1>1, EmptySeq
<1>3. ComparisonTypes'
  BY <1>1, <1>2 DEF ComparisonInv, ComparisonTypes, TableOK, Verdicts
<1>4. NothingFound' /\ CountIsTold'
  BY <1>1 DEF NothingFound, CountIsTold
<1>5. RunsAreAsked'
  BY <1>2 DEF RunsAreAsked, RequestedOrderIsKept
<1>6. LoopsOK' /\ DeltasAreReal' /\ RefusalIsTrue'
  BY <1>1 DEF LoopsOK, Comparing, DeltasAreReal, RefusalIsTrue
<1> QED
  BY <1>3, <1>4, <1>5, <1>6 DEF ComparisonInv

\* The comparison goes on inside of a request.
LEMMA ResolveStep ==
  ASSUME ComparisonInv, Resolve
  PROVE  ComparisonInv'
<1>1. ASSUME NEW n \in 0..MaxArguments, NEW args \in [1..n -> Arguments], Ask(args)
      PROVE  ComparisonInv'
  <2>1. args \in Seq(Arguments)
    BY ComparisonAssumption
  <2> QED
    BY <1>1, <2>1, AskStep
<1> QED
  BY <1>1, FindStep, FindFailsStep, CompareMetricStep, NextCandidateStep, ConcludeStep DEF Resolve

-----------------------------------------------------------------------------
(* The endpoint around it.                                                 *)

LEMMA ComparisonStays ==
  ASSUME ComparisonInv, UNCHANGED vars
  PROVE  ComparisonInv' /\ AskedIds' = AskedIds
<1>1. UNCHANGED <<table, asked, stage, loopVars, verdict>>
  BY DEF vars, loopVars
<1>2. TableOK'
  BY <1>1 DEF ComparisonInv, ComparisonTypes, TableOK
<1>3. AskedIds' = AskedIds
  BY <1>1 DEF AskedIds
<1> QED
  BY <1>1, <1>2, <1>3, ComparisonKeeps

LEMMA EndpointTypesStep ==
  ASSUME EndpointInv, [EndpointNext]_allVars
  PROVE  EndpointTypes'
<1>1. EndpointTypes
  BY DEF EndpointInv
<1>2. CASE UNCHANGED allVars
  BY <1>1, <1>2 DEF EndpointTypes, allVars, vars, endpointVars
<1>3. ASSUME NEW e \in Documents, Ingest(e), UNCHANGED endpointVars PROVE EndpointTypes'
  BY <1>1, <1>3 DEF EndpointTypes, Ingest, endpointVars
<1>4. ASSUME NEW q \in Queries, Post(q) PROVE EndpointTypes'
  BY <1>1, <1>4 DEF EndpointTypes, Post, vars
<1>5. CASE Validate
  BY <1>1, <1>5 DEF EndpointTypes, Validate, Reply, vars
<1>6. CASE Resolve
  BY <1>1, <1>6 DEF EndpointTypes, Resolve, endpointVars
<1>7. CASE Render
  BY <1>1, <1>7 DEF EndpointTypes, Render, Reply, vars
<1>8. CASE Collect
  BY <1>1, <1>8 DEF EndpointTypes, Collect, Take, vars
<1> QED
  BY <1>2, <1>3, <1>4, <1>5, <1>6, <1>7, <1>8 DEF EndpointNext

\* What has been said of stored runs stays true while others are stored.
LEMMA RepliesStay ==
  ASSUME RepliesAreTrue, UNCHANGED <<reply, verdict>>, AskedIds' = AskedIds,
         \A id \in DOMAIN table : id \in DOMAIN table' /\ table'[id] = table[id]
  PROVE  RepliesAreTrue'
<1>1. StoredAsked \in SUBSET StoredAsked'
  BY DEF StoredAsked
<1>2. SomeValues(TooFarApart) => SomeValues(TooFarApart)'
  BY <1>1 DEF SomeValues, TooFarApart
<1>3. SomeValues(TooSteep) => SomeValues(TooSteep)'
  BY <1>1 DEF SomeValues, TooSteep, TooFarApart
<1> QED
  BY <1>1, <1>2, <1>3 DEF RepliesAreTrue

LEMMA RunsAreStored ==
  ASSUME ComparisonInv, NEW i \in DOMAIN runs
  PROVE  runs[i] \in StoredAsked /\ runs[i] \in Documents
BY DEF ComparisonInv, RunsAreAsked, ComparisonTypes, TableOK, StoredAsked

\* Differences are only ever told of comparable runs, and are those of the
\* values of two runs that are stored.
LEMMA DifferencesAreStored ==
  ASSUME ComparisonInv, stage = "done", NEW k \in DOMAIN deltas
  PROVE  /\ verdict = "comparable"
         /\ ~ IsFinite(deltas[k].absoluteDelta) => SomeValues(TooFarApart)
         /\ ~ PercentFits(deltas[k].percentDelta) => SomeValues(TooSteep)
<1>1. verdict = "comparable"
  BY DEF ComparisonInv, ComparisonTypes, RefusalIsTrue
<1>2. PICK c \in DOMAIN runs, m \in DOMAIN runs[1].metrics : \E n \in DOMAIN runs[c].metrics :
        /\ runs[1].metrics[m].name = runs[c].metrics[n].name
        /\ deltas[k] = Delta(runs[1], runs[c], runs[1].metrics[m], runs[c].metrics[n])
  BY DEF ComparisonInv, DeltasAreReal, IsDelta
<1>3. PICK n \in DOMAIN runs[c].metrics :
        /\ runs[1].metrics[m].name = runs[c].metrics[n].name
        /\ deltas[k] = Delta(runs[1], runs[c], runs[1].metrics[m], runs[c].metrics[n])
  BY <1>2
<1> DEFINE was == runs[1].metrics[m].value
           is == runs[c].metrics[n].value
<1>4. 1 \in DOMAIN runs
  <2>1. DOMAIN runs = 1..Len(runs) /\ Len(runs) \in Nat
    BY LenProperties DEF ComparisonInv, ComparisonTypes
  <2> QED
    BY <2>1
<1>5. runs[1] \in StoredAsked /\ runs[c] \in StoredAsked
      /\ runs[1] \in Documents /\ runs[c] \in Documents
  BY <1>4, RunsAreStored
<1>6. was \in Int /\ is \in Int
  BY <1>5, DocumentFacts
<1>7. /\ deltas[k].absoluteDelta = Double(is - was)
      /\ deltas[k].percentDelta = IF was = 0 THEN <<>> ELSE <<Double(is - was), was>>
  BY <1>3 DEF Delta, Percent
<1>8. TooFarApart(was, is) => SomeValues(TooFarApart)
  BY <1>3, <1>5 DEF SomeValues, TooFarApart
<1>9. TooSteep(was, is) => SomeValues(TooSteep)
  BY <1>3, <1>5 DEF SomeValues
<1> HIDE DEF was, is
<1>10. /\ IsFinite(is - was) => Double(is - was) = is - was
       /\ IsFinite(Double(is - was)) <=> IsFinite(is - was)
  BY <1>6, DoubleIs
<1>11. ~ IsFinite(deltas[k].absoluteDelta) => TooFarApart(was, is)
  BY <1>7, <1>10 DEF TooFarApart
<1>12. ASSUME ~ PercentFits(deltas[k].percentDelta) PROVE TooSteep(was, is)
  <2> DEFINE percent == <<Double(is - was), was>>
  <2>1. was # 0 /\ ~ PercentFits(percent)
    BY <1>7, <1>12 DEF PercentFits
  <2>2. ~ IsFinite(Double(is - was))
        \/ ~ (100 * Magnitude(Double(is - was)) <= MaxFloat * Magnitude(was))
    BY <2>1 DEF PercentFits
  <2>3. 100 * Magnitude(is - was) \in Int /\ MaxFloat * Magnitude(was) \in Int
    BY <1>6, ComparisonAssumption DEF Magnitude
  <2>4. ~ (100 * Magnitude(is - was) <= MaxFloat * Magnitude(was))
          => 100 * Magnitude(is - was) > MaxFloat * Magnitude(was)
    BY <2>3
  <2> QED
    BY <1>10, <2>1, <2>2, <2>4 DEF TooSteep, TooFarApart
<1> QED
  BY <1>1, <1>8, <1>9, <1>11, <1>12

LEMMA RenderStep ==
  ASSUME EndpointInv, Render
  PROVE  RepliesAreTrue'
<1>1. ComparisonInv /\ stage = "done" /\ AskedIds' = AskedIds /\ table' = table
      /\ verdict' = verdict
  BY ComparisonStays DEF EndpointInv, Render, vars
<1>2. verdict = "invalid_query" <=> Cardinality(AskedIds) \notin 2..MaxComparisonRuns
  BY <1>1 DEF ComparisonInv, CountIsTold
<1>3. StoredAsked' = StoredAsked
  BY <1>1 DEF StoredAsked
<1>4. /\ SomeValues(TooFarApart) => SomeValues(TooFarApart)'
      /\ SomeValues(TooSteep) => SomeValues(TooSteep)'
  BY <1>3 DEF SomeValues, TooSteep, TooFarApart
<1>5. CASE verdict = "invalid_query" /\ reply' = "BAD_USER_INPUT"
  BY <1>1, <1>2, <1>5 DEF RepliesAreTrue
<1>6. CASE verdict = "failed" /\ reply' = "error"
  BY <1>1, <1>2, <1>6 DEF RepliesAreTrue
<1>7. CASE verdict # "invalid_query" /\ reply' = "data"
  BY <1>1, <1>2, <1>7 DEF RepliesAreTrue
<1>8. ASSUME NEW i \in DOMAIN runs, ~ Fits(runs[i]), verdict # "invalid_query", reply' = "error"
      PROVE  RepliesAreTrue'
  <2>1. runs[i] \in StoredAsked' /\ runs[i] \in Documents
    BY <1>1, <1>3, RunsAreStored
  <2>2. runs[i].iterations > MaxInt \/ runs[i].started_at = "leap_second"
    BY <1>8, <2>1, DocumentFacts, EndpointAssumption DEF Fits
  <2> QED
    BY <1>1, <1>2, <1>8, <2>1, <2>2 DEF RepliesAreTrue
<1>9. ASSUME NEW i \in DOMAIN deltas, ~ IsFinite(deltas[i].absoluteDelta), reply' = "error"
      PROVE  RepliesAreTrue'
  <2>1. verdict = "comparable" /\ SomeValues(TooFarApart)'
    BY <1>1, <1>4, <1>9, DifferencesAreStored
  <2> QED
    BY <1>1, <1>2, <1>9, <2>1 DEF RepliesAreTrue
<1>10. ASSUME NEW i \in DOMAIN deltas, ~ PercentFits(deltas[i].percentDelta), reply' = "partial"
       PROVE  RepliesAreTrue'
  <2>1. verdict = "comparable" /\ SomeValues(TooSteep)'
    BY <1>1, <1>4, <1>10, DifferencesAreStored
  <2> QED
    BY <1>1, <1>2, <1>10, <2>1 DEF RepliesAreTrue
<1> QED
  BY <1>5, <1>6, <1>7, <1>8, <1>9, <1>10 DEF Render, Reply

LEMMA RepliesStep ==
  ASSUME EndpointInv, [EndpointNext]_allVars
  PROVE  RepliesAreTrue'
<1>1. RepliesAreTrue /\ EndpointTypes /\ ComparisonInv
  BY DEF EndpointInv
<1>2. CASE UNCHANGED vars /\ UNCHANGED reply
  <2>1. AskedIds' = AskedIds /\ table' = table /\ verdict' = verdict
    BY <1>1, <1>2, ComparisonStays DEF vars
  <2> QED
    BY <1>1, <1>2, <2>1, RepliesStay
<1>3. ASSUME reply' \in {"none", "QUERY_DEPTH_LIMIT", "GRAPHQL_VALIDATION_FAILED"}
      PROVE  RepliesAreTrue'
  BY <1>3 DEF RepliesAreTrue
<1>4. CASE UNCHANGED allVars
  BY <1>2, <1>4 DEF allVars, endpointVars
<1>5. ASSUME NEW e \in Documents, Ingest(e), UNCHANGED endpointVars PROVE RepliesAreTrue'
  <2>1. AskedIds' = AskedIds /\ reply' = reply /\ verdict' = verdict
    BY <1>5 DEF Ingest, AskedIds, endpointVars
  <2>2. \A id \in DOMAIN table : id \in DOMAIN table' /\ table'[id] = table[id]
    BY <1>5 DEF Ingest
  <2> QED
    BY <1>1, <2>1, <2>2, RepliesStay
<1>6. ASSUME NEW q \in Queries, Post(q) PROVE RepliesAreTrue'
  BY <1>2, <1>6 DEF Post
<1>7. CASE Validate
  BY <1>2, <1>3, <1>7 DEF Validate, Reply
<1>8. CASE Resolve
  <2>1. gate = "resolving" /\ reply' = reply
    BY <1>8 DEF Resolve, endpointVars
  <2> QED
    BY <1>1, <1>3, <2>1 DEF EndpointTypes
<1>9. CASE Render
  BY <1>9, RenderStep
<1>10. CASE Collect
  BY <1>3, <1>10 DEF Collect
<1> QED
  BY <1>4, <1>5, <1>6, <1>7, <1>8, <1>9, <1>10 DEF EndpointNext

LEMMA EndpointStep ==
  ASSUME EndpointInv, [EndpointNext]_allVars
  PROVE  EndpointInv'
<1>1. ComparisonInv
  BY DEF EndpointInv
<1>2. ComparisonInv'
  <2>1. CASE UNCHANGED vars
    BY <1>1, <2>1, ComparisonStays
  <2>2. ASSUME NEW e \in Documents, Ingest(e) PROVE ComparisonInv'
    BY <1>1, <2>2, IngestStep
  <2>3. CASE Resolve
    BY <1>1, <2>3, ResolveStep
  <2>4. CASE Collect
    BY <1>1, <2>1, <2>4, TakeStep DEF Collect
  <2> QED
    BY <2>1, <2>2, <2>3, <2>4 DEF EndpointNext, allVars, Post, Validate, Render
<1>3. EndpointTypes' /\ RepliesAreTrue'
  BY EndpointTypesStep, RepliesStep
<1> QED
  BY <1>2, <1>3 DEF EndpointInv

\* The inductive invariant: what the loops have passed is compared, the
\* runs are the stored ones that were asked for, in that order, and the
\* replies follow from the verdict.
THEOREM ComparisonInductive == EndpointSpec => []EndpointInv
<1>1. EndpointInit => EndpointInv
  <2> SUFFICES ASSUME EndpointInit PROVE EndpointInv
    OBVIOUS
  <2>1. ComparisonInv
    BY ComparisonInitially DEF EndpointInit
  <2>2. stage = "idle"
    BY DEF EndpointInit, Init
  <2> QED
    BY <2>1, <2>2 DEF EndpointInit, EndpointInv, EndpointTypes, RepliesAreTrue
<1>2. EndpointInv /\ [EndpointNext]_allVars => EndpointInv'
  BY EndpointStep
<1> QED
  BY <1>1, <1>2, PTL DEF EndpointSpec

-----------------------------------------------------------------------------
(* What the runs check, for every value of the constants.                  *)

\* Every variable of the comparison and of the endpoint keeps its type, and
\* the number of differences follows the two loops.
THEOREM TypeCorrect == EndpointSpec => []EndpointTypeOK
<1>1. EndpointInv => EndpointTypeOK
  <2> SUFFICES ASSUME EndpointInv PROVE EndpointTypeOK
    OBVIOUS
  <2>1. ComparisonTypes /\ LoopsOK /\ EndpointTypes
    BY DEF EndpointInv, ComparisonInv
  <2>2. TypeOK
    BY <2>1 DEF ComparisonTypes, TableOK, LoopsOK, Comparing, Metrics, TypeOK
  <2> QED
    BY <2>1, <2>2 DEF EndpointTypes, EndpointTypeOK
<1> QED
  BY <1>1, ComparisonInductive, PTL

\* Runs are called comparable only when every metric of the baseline was
\* compared in every candidate (compareBenchmarkRuns).
THEOREM VerdictsAreEarned == EndpointSpec => []ComparableIsEarned
<1>1. EndpointInv => ComparableIsEarned
  <2> SUFFICES ASSUME EndpointInv, verdict = "comparable" PROVE ComparableIsEarned
    BY DEF ComparableIsEarned
  <2>1. ComparisonTypes /\ LoopsOK /\ RunsAreAsked
    BY DEF EndpointInv, ComparisonInv
  <2>2. Comparing
    BY DEF Comparing
  <2>3. Len(runs) \in Nat /\ Len(runs) \in 2..MaxComparisonRuns /\ DOMAIN runs = 1..Len(runs)
        /\ runs[1] \in Documents
    <3>1. Len(runs) \in Nat /\ DOMAIN runs = 1..Len(runs)
      BY <2>1, LenProperties DEF ComparisonTypes
    <3>2. Len(runs) \in 2..MaxComparisonRuns
      BY <2>1, <2>2 DEF LoopsOK
    <3>3. 1 \in 1..Len(runs)
      BY <3>1, <3>2
    <3> QED
      BY <2>1, <3>1, <3>2, <3>3, ElementOfSeq DEF ComparisonTypes
  <2>4. Metrics \in Nat /\ DOMAIN runs[1].metrics = 1..Metrics
    BY <2>3, DocumentFacts DEF Metrics
  <2>5. candidate = Len(runs) + 1 /\ metric = 1
    BY <2>1, <2>2, <2>3 DEF LoopsOK, ComparisonTypes
  <2>6. Len(deltas) = (Len(runs) - 1) * Metrics
    <3>1. \A n \in Nat, size \in Nat : (n + 1 - 2) * size + 1 - 1 = (n - 1) * size
      <4> SUFFICES ASSUME NEW n \in Nat, NEW size \in Nat
                   PROVE  (n + 1 - 2) * size + 1 - 1 = (n - 1) * size
        OBVIOUS
      <4>1. n + 1 - 2 = n - 1 /\ (n - 1) * size \in Int
        OBVIOUS
      <4> QED
        BY <4>1
    <3>2. Len(deltas) = (candidate - 2) * Metrics + metric - 1
      BY <2>1, <2>2 DEF LoopsOK
    <3> QED
      BY <2>3, <2>4, <2>5, <3>1, <3>2
  <2>7. \A c \in 2..Len(runs), m \in DOMAIN runs[1].metrics : IsCompared(c, m)
    BY <2>1, <2>2, <2>3, <2>4, <2>5 DEF LoopsOK
  <2>8. \A i \in DOMAIN runs :
          /\ runs[i].run_id \in DOMAIN table
          /\ runs[i].comparability_key = runs[1].comparability_key
          /\ \A j \in DOMAIN runs : runs[i].run_id = runs[j].run_id => i = j
    BY <2>1, <2>2 DEF LoopsOK, RunsAreAsked
  <2> QED
    BY <2>3, <2>6, <2>7, <2>8 DEF ComparableIsEarned, IsCompared, Metrics
<1> QED
  BY <1>1, ComparisonInductive, PTL

\* A refusal names an obstacle that the runs asked for have, and tells no
\* difference (the early returns of compareBenchmarkRuns).
THEOREM RefusalsAreTrue == EndpointSpec => []RefusalIsTrue
<1>1. EndpointInv => RefusalIsTrue
  BY DEF EndpointInv, ComparisonInv
<1> QED
  BY <1>1, ComparisonInductive, PTL

\* The runs come back in the order they were asked for.
THEOREM OrderIsKept == EndpointSpec => []RequestedOrderIsKept
<1>1. EndpointInv => RequestedOrderIsKept
  BY DEF EndpointInv, ComparisonInv, RunsAreAsked
<1> QED
  BY <1>1, ComparisonInductive, PTL

\* A client is told of its own mistakes only if it made them.  Behind an
\* error instead of the verdict there is a read that failed, a stored run
\* asked for whose count or time the schema cannot carry, or, with comparable
\* runs only, a difference beyond the finite doubles; behind one beside the
\* verdict, a percentage beyond them (mapErrors, toComparison).
THEOREM ClientsAreToldTheTruth == EndpointSpec => []RepliesAreTrue
<1>1. EndpointInv => RepliesAreTrue
  BY DEF EndpointInv
<1> QED
  BY <1>1, ComparisonInductive, PTL

-----------------------------------------------------------------------------
(* The verdict on the runs of one moment.                                  *)

\* The promise speaks of the same verdict.
LEMMA SameVerdict ==
  ASSUME NEW args, NEW rows
  PROVE  /\ Promise!Cardinality(Promise!FirstOccurrences(args)) = Cardinality(FirstOccurrences(args))
         /\ Promise!VerdictOf(args, rows) = VerdictOf(args, rows)
<1>1. \A S : Promise!Cardinality(S) = Cardinality(S)
  BY DEF Promise!Cardinality, Cardinality, Promise!IsFiniteSet, IsFiniteSet
<1>2. Promise!FirstOccurrences(args) = FirstOccurrences(args)
  BY DEF Promise!FirstOccurrences, FirstOccurrences
<1>3. Promise!Baseline(args) = Baseline(args)
  BY <1>2 DEF Promise!Baseline, Baseline
<1>4. \A i : Promise!RunAt(args, rows, i) = RunAt(args, rows, i)
  BY DEF Promise!RunAt, RunAt
<1>5. Promise!BaselineMetrics(args, rows) = BaselineMetrics(args, rows)
  BY <1>3, <1>4 DEF Promise!BaselineMetrics, BaselineMetrics
<1>6. \A run, m : Promise!Named(run, m) = Named(run, m)
  BY DEF Promise!Named, Named
<1>7. \A run, m : Promise!Fitting(run, m) = Fitting(run, m)
  BY <1>6 DEF Promise!Fitting, Fitting
<1>8. Promise!Obstacles(args, rows) = Obstacles(args, rows)
  BY <1>2, <1>3, <1>4, <1>5, <1>7 DEF Promise!Obstacles, Obstacles
<1>9. \A pairs : Promise!FirstOf(pairs) = FirstOf(pairs)
  BY DEF Promise!FirstOf, FirstOf
<1>10. \A p : Promise!ReasonAt(args, rows, p) = ReasonAt(args, rows, p)
  BY <1>4, <1>5, <1>6 DEF Promise!ReasonAt, ReasonAt
<1>11. Promise!Cardinality(Promise!FirstOccurrences(args)) = Cardinality(FirstOccurrences(args))
  BY <1>1, <1>2
<1>12. Promise!VerdictOf(args, rows) = VerdictOf(args, rows)
  BY <1>2, <1>4, <1>8, <1>9, <1>10, <1>11 DEF Promise!VerdictOf, VerdictOf
<1> QED
  BY <1>11, <1>12

LEMMA PlaceOfAll ==
  ASSUME NEW n \in Nat, NEW k \in 1..n
  PROVE  Place(1..n, k) = k
<1>1. 1..n \in SUBSET Nat /\ IsFiniteSet(1..n) /\ Cardinality(1..n) = n
  BY FS_Interval
<1> DEFINE i == Place(1..n, k)
<1>2. i \in 1..n /\ Cardinality(UpTo(1..n, i)) = k
  BY <1>1, PlaceType
<1> HIDE DEF i
<1>3. UpTo(1..n, i) = 1..i /\ i \in Nat
  BY <1>2 DEF UpTo
<1>4. Cardinality(1..i) = i
  BY <1>3, FS_Interval
<1> QED
  BY <1>2, <1>3, <1>4 DEF i

\* If as many runs are found as ids are asked for, they stand where their
\* ids do.
LEMMA FoundAll ==
  ASSUME TableOK, NEW ids \in Seq(RunIds),
         Len(InRequestedOrder(ids)) = Len(ids)
  PROVE  \A k \in 1..Len(ids) :
           ids[k] \in DOMAIN table /\ InRequestedOrder(ids)[k] = table[ids[k]]
<1> DEFINE present == {i \in DOMAIN ids : ids[i] \in DOMAIN table}
           kept == At(ids, present)
           n == Len(ids)
           found == InRequestedOrder(ids)
<1>1. DOMAIN ids = 1..n /\ n \in Nat
  BY LenProperties
<1>2. present \in SUBSET DOMAIN ids
  OBVIOUS
<1>3. found = [k \in DOMAIN kept |-> table[kept[k]]]
  BY DEF InRequestedOrder
<1>4. \A i \in present : ids[i] \in DOMAIN table
  OBVIOUS
<1> HIDE DEF present, kept, found
<1>5. /\ IsFiniteSet(present) /\ Cardinality(present) \in Nat
      /\ kept \in Seq(RunIds) /\ Len(kept) = Cardinality(present)
      /\ \A k \in 1..Cardinality(present) : kept[k] = ids[Place(present, k)]
  BY <1>2, AtType DEF kept
<1>6. Cardinality(present) = n
  <2>1. DOMAIN kept = 1..Cardinality(present) /\ found \in Seq(Documents)
    BY <1>5, LenProperties, FoundFacts DEF found
  <2>2. DOMAIN found = 1..Cardinality(present) /\ DOMAIN found = 1..Len(found) /\ Len(found) \in Nat
    BY <1>3, <2>1, LenProperties
  <2>3. Len(found) = n
    BY DEF found
  <2> QED
    BY <1>1, <1>5, <2>2, <2>3
<1> HIDE DEF n
<1>7. present = 1..n
  <2>1. IsFiniteSet(1..n) /\ Cardinality(1..n) = n
    BY <1>1, FS_Interval
  <2> QED
    BY <1>1, <1>2, <1>6, <2>1, FS_Subset
<1>8. DOMAIN kept = 1..n /\ \A k \in 1..n : kept[k] = ids[k]
  BY <1>1, <1>5, <1>6, <1>7, PlaceOfAll, LenProperties
<1> QED
  BY <1>3, <1>4, <1>7, <1>8 DEF n, found

\* Where a pair stands before another.
Before(p, q) == p[1] < q[1] \/ (p[1] = q[1] /\ p[2] <= q[2])

LEMMA PairIs ==
  ASSUME NEW A, NEW B, NEW p \in A \X B
  PROVE  p = <<p[1], p[2]>> /\ p[1] \in A /\ p[2] \in B
OBVIOUS

\* A set of pairs has a first one.
LEMMA FirstExists ==
  ASSUME NEW A \in SUBSET Nat, IsFiniteSet(A), NEW B \in SUBSET Nat, IsFiniteSet(B),
         NEW pairs \in SUBSET (A \X B), pairs # {}
  PROVE  FirstOf(pairs) \in pairs /\ \A q \in pairs : Before(FirstOf(pairs), q)
<1> DEFINE lefts == {a \in A : \E b \in B : <<a, b>> \in pairs}
<1>a. \A q \in pairs : /\ q = <<q[1], q[2]>> /\ q[1] \in A /\ q[2] \in B
                       /\ q[1] \in Nat /\ q[2] \in Nat
  BY PairIs
<1>b. \A q \in pairs : q[1] \in lefts
  BY <1>a
<1>1. lefts # {} /\ lefts \in SUBSET Nat /\ IsFiniteSet(lefts)
  <2>1. lefts # {} /\ lefts \in SUBSET A
    BY <1>b
  <2> HIDE DEF lefts
  <2> QED
    BY <2>1, FS_Subset
<1>2. PICK a \in lefts : \A c \in lefts : a <= c
  <2> HIDE DEF lefts
  <2> QED
    BY <1>1, LeastExists
<1> DEFINE rights == {b \in B : <<a, b>> \in pairs}
<1>c. \A q \in pairs : q[1] = a => q[2] \in rights
  BY <1>a
<1>3. rights # {} /\ rights \in SUBSET Nat /\ IsFiniteSet(rights)
  <2>1. rights # {} /\ rights \in SUBSET B
    BY <1>2
  <2> HIDE DEF rights
  <2> QED
    BY <2>1, FS_Subset
<1>4. PICK b \in rights : \A d \in rights : b <= d
  <2> HIDE DEF rights
  <2> QED
    BY <1>3, LeastExists
<1>5. <<a, b>> \in pairs /\ a \in Nat /\ b \in Nat
  BY <1>2, <1>4
<1> HIDE DEF lefts, rights
<1>6. ASSUME NEW q \in pairs PROVE Before(<<a, b>>, q)
  <2>1. a <= q[1] /\ q[1] \in Nat /\ q[2] \in Nat /\ (q[1] = a => b <= q[2])
    BY <1>a, <1>b, <1>c, <1>2, <1>4
  <2>2. a < q[1] \/ (a = q[1] /\ b <= q[2])
    BY <1>5, <2>1
  <2> QED
    BY <2>2 DEF Before
<1>7. \E p \in pairs : \A q \in pairs : p[1] < q[1] \/ (p[1] = q[1] /\ p[2] <= q[2])
  BY <1>5, <1>6 DEF Before
<1> QED
  BY <1>7 DEF FirstOf, Before

\* And only one.
LEMMA FirstIsUnique ==
  ASSUME NEW A \in SUBSET Nat, NEW B \in SUBSET Nat, NEW pairs \in SUBSET (A \X B),
         NEW p \in pairs, \A q \in pairs : Before(p, q)
  PROVE  FirstOf(pairs) = p
<1> DEFINE f == FirstOf(pairs)
<1>1. f \in pairs /\ \A q \in pairs : Before(f, q)
  BY DEF FirstOf, Before
<1> HIDE DEF f
<1>2. p = <<p[1], p[2]>> /\ p[1] \in Nat /\ p[2] \in Nat
      /\ f = <<f[1], f[2]>> /\ f[1] \in Nat /\ f[2] \in Nat
  BY <1>1, PairIs
<1>3. p[1] = f[1] /\ p[2] = f[2]
  BY <1>1, <1>2 DEF Before
<1> QED
  BY <1>2, <1>3 DEF f


\* The baseline is where the first run is.
LEMMA BaselineIs ==
  ASSUME NEW args \in Seq(Arguments), FirstOccurrences(args) # {}
  PROVE  /\ Baseline(args) \in FirstOccurrences(args)
         /\ 1 \in 1..Cardinality(FirstOccurrences(args))
         /\ Baseline(args) = Place(FirstOccurrences(args), 1)
<1> DEFINE firsts == FirstOccurrences(args)
           b == Baseline(args)
<1>1. firsts \in SUBSET Nat /\ IsFiniteSet(firsts) /\ Cardinality(firsts) \in Nat
  BY FirstOccurrenceType
<1>2. b = CHOOSE i \in firsts : \A j \in firsts : i <= j
  BY DEF Baseline
<1> HIDE DEF firsts, b
<1>3. firsts # {}
  BY DEF firsts
<1>4. \E i \in firsts : \A j \in firsts : i <= j
  BY <1>1, <1>3, LeastExists
<1>5. b \in firsts /\ \A j \in firsts : b <= j
  BY <1>2, <1>4
<1>6. PICK k \in 1..Cardinality(firsts) : Place(firsts, k) = b
  BY <1>1, <1>5, PlaceIsOnto
<1>7. 1 \in 1..Cardinality(firsts) /\ Place(firsts, 1) \in firsts
  BY <1>1, <1>6, PlaceType
<1>8. k = 1
  <2>1. SUFFICES ASSUME 1 < k PROVE FALSE
    BY <1>1, <1>6
  <2>2. Place(firsts, 1) < b /\ b <= Place(firsts, 1)
    BY <1>1, <1>5, <1>6, <1>7, <2>1, PlaceIncreases
  <2>3. b \in Nat /\ Place(firsts, 1) \in Nat
    BY <1>1, <1>5, <1>7
  <2> HIDE DEF b
  <2> QED
    BY <2>2, <2>3
<1> QED
  BY <1>5, <1>6, <1>7, <1>8 DEF firsts, b

\* The obstacles are pairs of numbers.
LEMMA ObstaclesType ==
  ASSUME NEW args \in Seq(Arguments), NEW rows, FirstOccurrences(args) # {},
         \A i \in FirstOccurrences(args) : RunAt(args, rows, i) \in Documents
  PROVE  LET columns == DOMAIN BaselineMetrics(args, rows)
         IN  /\ columns \in SUBSET Nat /\ IsFiniteSet(columns)
             /\ Obstacles(args, rows) \in SUBSET (FirstOccurrences(args) \X columns)
<1> DEFINE base == RunAt(args, rows, Baseline(args))
<1>1. base \in Documents
  BY BaselineIs
<1> HIDE DEF base
<1>2. DOMAIN base.metrics = 1..Len(base.metrics) /\ Len(base.metrics) \in Nat
  BY <1>1, DocumentFacts
<1>3. DOMAIN base.metrics \in SUBSET Nat
  BY <1>2
<1>4. IsFiniteSet(DOMAIN base.metrics)
  <2> DEFINE n == Len(base.metrics)
  <2>1. DOMAIN base.metrics = 1..n /\ n \in Nat
    BY <1>2
  <2> HIDE DEF n
  <2> QED
    BY <2>1, FS_Interval
<1>5. Obstacles(args, rows) \in SUBSET (FirstOccurrences(args) \X DOMAIN base.metrics)
  BY DEF Obstacles, BaselineMetrics, base
<1> QED
  BY <1>3, <1>4, <1>5 DEF BaselineMetrics, base

\* What is ingested later does not change the verdict on stored runs.
LEMMA VerdictIsStable ==
  ASSUME NEW args \in Seq(Arguments), NEW rows, NEW later,
         FirstOccurrences(args) # {},
         \A i \in FirstOccurrences(args) :
           /\ Trim[args[i]] \in DOMAIN rows /\ Trim[args[i]] \in DOMAIN later
           /\ later[Trim[args[i]]] = rows[Trim[args[i]]]
           /\ rows[Trim[args[i]]] \in Documents
  PROVE  VerdictOf(args, later) = VerdictOf(args, rows)
<1> DEFINE firsts == FirstOccurrences(args)
           pairs == Obstacles(args, rows)
           p == FirstOf(pairs)
<1>1. \A i \in firsts : /\ RunAt(args, later, i) = RunAt(args, rows, i)
                        /\ RunAt(args, rows, i) \in Documents
  BY DEF RunAt
<1>2. Baseline(args) \in firsts
  BY BaselineIs
<1>3. BaselineMetrics(args, later) = BaselineMetrics(args, rows)
  BY <1>1, <1>2 DEF BaselineMetrics
<1>4. Obstacles(args, later) = pairs
  BY <1>1, <1>3 DEF Obstacles
<1>5. pairs # {} => p[1] \in firsts
  <2> SUFFICES ASSUME pairs # {} PROVE p[1] \in firsts
    OBVIOUS
  <2> DEFINE columns == DOMAIN BaselineMetrics(args, rows)
  <2>1. /\ columns \in SUBSET Nat /\ IsFiniteSet(columns)
        /\ pairs \in SUBSET (firsts \X columns)
    BY <1>1, ObstaclesType
  <2>2. firsts \in SUBSET Nat /\ IsFiniteSet(firsts)
    BY FirstOccurrenceType
  <2> HIDE DEF firsts, columns, pairs
  <2>3. p \in pairs
    BY <2>1, <2>2, FirstExists
  <2> HIDE DEF p
  <2>4. p \in firsts \X columns
    BY <2>1, <2>3
  <2> QED
    BY <2>4, PairIs
<1>6. pairs # {} => ReasonAt(args, later, p) = ReasonAt(args, rows, p)
  BY <1>1, <1>3, <1>5 DEF ReasonAt
<1> HIDE DEF firsts, pairs, p
<1>7. /\ ~ \E i \in firsts : Trim[args[i]] \notin DOMAIN rows
      /\ ~ \E i \in firsts : Trim[args[i]] \notin DOMAIN later
  BY DEF firsts
<1>8. (\E i, j \in firsts : RunAt(args, later, i).comparability_key
                             # RunAt(args, later, j).comparability_key)
      <=> \E i, j \in firsts : RunAt(args, rows, i).comparability_key
                                 # RunAt(args, rows, j).comparability_key
  BY <1>1
<1> QED
  BY <1>4, <1>6, <1>7, <1>8 DEF VerdictOf, firsts, pairs, p

-----------------------------------------------------------------------------
(* The runs in place.                                                      *)

\* The runs found are those of the arguments, one by one.
ArePlaced(args, rows, found) ==
  LET firsts == FirstOccurrences(args)
  IN  /\ Len(found) = Cardinality(firsts)
      /\ \A k \in 1..Len(found) :
           /\ Trim[args[Place(firsts, k)]] \in DOMAIN rows
           /\ found[k] = RunAt(args, rows, Place(firsts, k))

PlacedInv == stage = "comparing" => ArePlaced(asked, table, runs)

\* The verdict in terms of the runs found.
LEMMA VerdictOfPlaced ==
  ASSUME NEW args \in Seq(Arguments), NEW rows, NEW found \in Seq(Documents),
         ArePlaced(args, rows, found), Len(found) \in 2..MaxComparisonRuns
  PROVE  LET firsts == FirstOccurrences(args)
         IN  /\ firsts # {}
             /\ \A k \in 1..Len(found) : /\ Place(firsts, k) \in firsts
                                         /\ found[k] = RunAt(args, rows, Place(firsts, k))
             /\ \A i \in firsts : \E k \in 1..Len(found) : i = Place(firsts, k)
             /\ \A i \in firsts : Trim[args[i]] \in DOMAIN rows
             /\ \A j, k \in 1..Len(found) : j < k => Place(firsts, j) < Place(firsts, k)
             /\ Baseline(args) = Place(firsts, 1)
             /\ BaselineMetrics(args, rows) = found[1].metrics
<1> DEFINE firsts == FirstOccurrences(args)
           n == Len(found)
<1>1. firsts \in SUBSET Nat /\ IsFiniteSet(firsts) /\ Cardinality(firsts) = n
      /\ n \in Nat /\ n \in 2..MaxComparisonRuns
  BY FirstOccurrenceType, LenProperties DEF ArePlaced
<1>2. \A k \in 1..n : /\ Trim[args[Place(firsts, k)]] \in DOMAIN rows
                      /\ found[k] = RunAt(args, rows, Place(firsts, k))
  BY DEF ArePlaced
<1>3. firsts # {} => Baseline(args) = Place(firsts, 1)
  BY BaselineIs
<1> HIDE DEF firsts, n
<1>4. firsts # {}
  <2>1. Cardinality(firsts) # 0
    BY <1>1
  <2> QED
    BY <2>1, FS_EmptySet
<1>5. \A k \in 1..n : Place(firsts, k) \in firsts
  BY <1>1, PlaceType
<1>6. \A i \in firsts : \E k \in 1..n : i = Place(firsts, k)
  BY <1>1, PlaceIsOnto
<1>7. \A j, k \in 1..n : j < k => Place(firsts, j) < Place(firsts, k)
  BY <1>1, PlaceIncreases
<1>8. BaselineMetrics(args, rows) = found[1].metrics
  <2>1. 1 \in 1..n
    BY <1>1
  <2> QED
    BY <1>2, <1>3, <1>4, <2>1 DEF BaselineMetrics
<1> QED
  BY <1>2, <1>3, <1>4, <1>5, <1>6, <1>7, <1>8 DEF firsts, n

\* The obstacles among them.
LEMMA ObstaclesOfPlaced ==
  ASSUME NEW args \in Seq(Arguments), NEW rows, NEW found \in Seq(Documents),
         ArePlaced(args, rows, found), Len(found) \in 2..MaxComparisonRuns
  PROVE  LET firsts == FirstOccurrences(args)
             first == found[1]
         IN  /\ \A c \in 2..Len(found), m \in DOMAIN first.metrics :
                  Fitting(found[c], first.metrics[m]) = {}
                    => <<Place(firsts, c), m>> \in Obstacles(args, rows)
             /\ \A p \in Obstacles(args, rows) : \E c \in 2..Len(found), m \in DOMAIN first.metrics :
                  /\ p = <<Place(firsts, c), m>>
                  /\ Fitting(found[c], first.metrics[m]) = {}
<1> DEFINE firsts == FirstOccurrences(args)
           n == Len(found)
           first == found[1]
           pairs == Obstacles(args, rows)
<1>0. n \in Nat /\ n \in 2..MaxComparisonRuns
  BY LenProperties
<1>1. /\ \A k \in 1..n : /\ Place(firsts, k) \in firsts
                         /\ found[k] = RunAt(args, rows, Place(firsts, k))
      /\ \A i \in firsts : \E k \in 1..n : i = Place(firsts, k)
      /\ \A j, k \in 1..n : j < k => Place(firsts, j) < Place(firsts, k)
      /\ Baseline(args) = Place(firsts, 1)
      /\ BaselineMetrics(args, rows) = first.metrics
  BY VerdictOfPlaced
<1>2. pairs = {p \in (firsts \ {Baseline(args)}) \X DOMAIN first.metrics :
                 Fitting(RunAt(args, rows, p[1]), first.metrics[p[2]]) = {}}
  BY <1>1 DEF Obstacles
<1>3. firsts \in SUBSET Nat
  BY FirstOccurrenceType
<1> HIDE DEF firsts, n, first, pairs
<1>4. ASSUME NEW c \in 2..n, NEW m \in DOMAIN first.metrics,
             Fitting(found[c], first.metrics[m]) = {}
      PROVE  <<Place(firsts, c), m>> \in pairs
  <2>1. c \in 1..n /\ 1 \in 1..n /\ 1 < c
    BY <1>0
  <2>2. Place(firsts, 1) < Place(firsts, c) /\ Place(firsts, 1) \in Nat /\ Place(firsts, c) \in firsts
    BY <1>1, <1>3, <2>1
  <2>3. Place(firsts, c) \in firsts \ {Baseline(args)}
    BY <1>1, <1>3, <2>2
  <2>4. found[c] = RunAt(args, rows, Place(firsts, c))
    BY <1>1, <2>1
  <2> QED
    BY <1>2, <1>4, <2>3, <2>4
<1>5. ASSUME NEW p \in pairs
      PROVE  \E c \in 2..n, m \in DOMAIN first.metrics :
               p = <<Place(firsts, c), m>> /\ Fitting(found[c], first.metrics[m]) = {}
  <2>1. p \in (firsts \ {Baseline(args)}) \X DOMAIN first.metrics
        /\ Fitting(RunAt(args, rows, p[1]), first.metrics[p[2]]) = {}
    BY <1>2
  <2>2. p = <<p[1], p[2]>> /\ p[1] \in firsts /\ p[1] # Baseline(args) /\ p[2] \in DOMAIN first.metrics
    BY <2>1, PairIs
  <2>3. PICK c \in 1..n : p[1] = Place(firsts, c)
    BY <1>1, <2>2
  <2>4. c \in 2..n
    <3>1. c # 1
      BY <1>1, <2>2, <2>3
    <3> QED
      BY <1>0, <3>1
  <2>5. found[c] = RunAt(args, rows, p[1])
    BY <1>1, <2>3
  <2> QED
    BY <2>1, <2>2, <2>3, <2>4, <2>5
<1> QED
  BY <1>4, <1>5 DEF firsts, n, first, pairs


\* Once the loops have begun only they decide.
LEMMA VerdictOfLoops ==
  ASSUME ComparisonInv, PlacedInv, stage = "comparing"
  PROVE  VerdictOf(asked, table) =
           IF Obstacles(asked, table) = {}
             THEN "comparable"
             ELSE ReasonAt(asked, table, FirstOf(Obstacles(asked, table)))
<1> DEFINE firsts == FirstOccurrences(asked)
           n == Len(runs)
<1>1. asked \in Seq(Arguments) /\ runs \in Seq(Documents) /\ ArePlaced(asked, table, runs)
  BY DEF ComparisonInv, ComparisonTypes, PlacedInv
<1>2. n \in 2..MaxComparisonRuns /\ DOMAIN runs = 1..n
  BY LoopFacts
<1>3. \A i \in 1..n : runs[i].comparability_key = runs[1].comparability_key
  BY <1>2 DEF ComparisonInv, LoopsOK, Comparing
<1>4. /\ \A k \in 1..n : runs[k] = RunAt(asked, table, Place(firsts, k))
      /\ \A i \in firsts : \E k \in 1..n : i = Place(firsts, k)
      /\ \A i \in firsts : Trim[asked[i]] \in DOMAIN table
  BY <1>1, <1>2, VerdictOfPlaced
<1>5. Cardinality(firsts) = n
  BY <1>1 DEF ArePlaced
<1> HIDE DEF firsts, n
<1>6. \A i \in firsts : RunAt(asked, table, i).comparability_key = runs[1].comparability_key
  BY <1>3, <1>4
<1>7. ~ \E i, j \in firsts : RunAt(asked, table, i).comparability_key
                               # RunAt(asked, table, j).comparability_key
  BY <1>6
<1> QED
  BY <1>2, <1>4, <1>5, <1>7 DEF VerdictOf, firsts

\* What the loops have passed is no obstacle.
LEMMA ObstacleIsAhead ==
  ASSUME ComparisonInv, PlacedInv, stage = "comparing", NEW p \in Obstacles(asked, table)
  PROVE  \E c \in candidate..Len(runs), m \in 1..Metrics :
           /\ p = <<Place(FirstOccurrences(asked), c), m>>
           /\ c = candidate => metric <= m
<1> DEFINE n == Len(runs)
<1>1. asked \in Seq(Arguments) /\ runs \in Seq(Documents) /\ ArePlaced(asked, table, runs)
  BY DEF ComparisonInv, ComparisonTypes, PlacedInv
<1>2. n \in Nat /\ n \in 2..MaxComparisonRuns /\ DOMAIN runs[1].metrics = 1..Metrics
      /\ Metrics \in Nat /\ candidate \in 2..(n + 1) /\ metric \in 1..(Metrics + 1)
  BY LoopFacts
<1>a. \A q \in Obstacles(asked, table) : \E c \in 2..n, m \in DOMAIN runs[1].metrics :
        /\ q = <<Place(FirstOccurrences(asked), c), m>>
        /\ Fitting(runs[c], runs[1].metrics[m]) = {}
  <2>1. Len(runs) \in 2..MaxComparisonRuns
    BY <1>2
  <2>2. LET firsts == FirstOccurrences(asked)
            first == runs[1]
        IN  \A q \in Obstacles(asked, table) : \E c \in 2..Len(runs), m \in DOMAIN first.metrics :
              q = <<Place(firsts, c), m>> /\ Fitting(runs[c], first.metrics[m]) = {}
    BY <1>1, <2>1, ObstaclesOfPlaced
  <2> QED
    BY <2>2
<1>3. PICK c \in 2..n, m \in DOMAIN runs[1].metrics :
        /\ p = <<Place(FirstOccurrences(asked), c), m>>
        /\ Fitting(runs[c], runs[1].metrics[m]) = {}
  BY <1>a
<1>4. ~ IsCompared(c, m)
  BY <1>3 DEF IsCompared, Fitting, Named
<1>5. ~ (c < candidate \/ (c = candidate /\ m < metric))
  <2>1. c \in 2..Len(runs) /\ m \in 1..Metrics
    BY <1>2
  <2>2. IsCompared(c, m) \/ ~ (c < candidate \/ (c = candidate /\ m < metric))
    BY <2>1 DEF ComparisonInv, LoopsOK, Comparing
  <2> QED
    BY <1>4, <2>2
<1> HIDE DEF n
<1>6. c \in candidate..n /\ m \in 1..Metrics /\ (c = candidate => metric <= m)
  BY <1>2, <1>5
<1> QED
  BY <1>3, <1>6 DEF n

\* At the end of the loops there is none.
LEMMA ConcludesRightly ==
  ASSUME ComparisonInv, PlacedInv, Conclude
  PROVE  VerdictOf(asked, table) = "comparable"
<1>1. stage = "comparing" /\ candidate > Len(runs)
  BY DEF Conclude
<1>2. Obstacles(asked, table) = {}
  <2> SUFFICES ASSUME NEW p \in Obstacles(asked, table) PROVE FALSE
    OBVIOUS
  <2>1. \E c \in candidate..Len(runs) : TRUE
    BY <1>1, ObstacleIsAhead
  <2>2. candidate \in Nat /\ Len(runs) \in Nat
    BY <1>1, LoopFacts
  <2> QED
    BY <1>1, <2>1, <2>2
<1> QED
  BY <1>1, <1>2, VerdictOfLoops

\* Where the loops meet one it is the first.
LEMMA RefusesRightly ==
  ASSUME ComparisonInv, PlacedInv, stage = "comparing",
         candidate <= Len(runs), metric <= Metrics,
         Fitting(runs[candidate], runs[1].metrics[metric]) = {}
  PROVE  VerdictOf(asked, table) =
           IF Named(runs[candidate], runs[1].metrics[metric]) = {}
             THEN "metric_missing"
             ELSE "metric_incompatible"
<1> DEFINE firsts == FirstOccurrences(asked)
           n == Len(runs)
           pairs == Obstacles(asked, table)
           p == <<Place(firsts, candidate), metric>>
<1>1. asked \in Seq(Arguments) /\ runs \in Seq(Documents) /\ ArePlaced(asked, table, runs)
  BY DEF ComparisonInv, ComparisonTypes, PlacedInv
<1>2. /\ n \in Nat /\ n \in 2..MaxComparisonRuns /\ DOMAIN runs[1].metrics = 1..Metrics
      /\ Metrics \in Nat /\ candidate \in 2..n /\ metric \in 1..Metrics
      /\ \A i \in 1..n : runs[i] \in Documents
  <2>1. /\ n \in Nat /\ n \in 2..MaxComparisonRuns /\ DOMAIN runs[1].metrics = 1..Metrics
        /\ Metrics \in Nat /\ candidate \in 2..(n + 1) /\ metric \in 1..(Metrics + 1)
        /\ \A i \in 1..n : runs[i] \in Documents
    BY LoopFacts
  <2> HIDE DEF n
  <2>2. candidate \in 2..n
    BY <2>1 DEF n
  <2>3. metric \in 1..Metrics
    BY <2>1
  <2> QED
    BY <2>1, <2>2, <2>3
<1>3. p \in pairs
  BY <1>1, <1>2, ObstaclesOfPlaced
<1>4. /\ firsts # {}
      /\ \A k \in 1..n : /\ Place(firsts, k) \in firsts
                         /\ runs[k] = RunAt(asked, table, Place(firsts, k))
      /\ \A j, k \in 1..n : j < k => Place(firsts, j) < Place(firsts, k)
      /\ \A i \in firsts : \E k \in 1..n : i = Place(firsts, k)
      /\ BaselineMetrics(asked, table) = runs[1].metrics
  BY <1>1, <1>2, VerdictOfPlaced
<1>5. firsts \in SUBSET Nat
  BY <1>1, FirstOccurrenceType
<1>6. \A q \in pairs : \E c \in candidate..n, m \in 1..Metrics :
        q = <<Place(firsts, c), m>> /\ (c = candidate => metric <= m)
  BY ObstacleIsAhead
<1>7. pairs \in SUBSET (firsts \X DOMAIN BaselineMetrics(asked, table))
      /\ DOMAIN BaselineMetrics(asked, table) \in SUBSET Nat
  <2>1. \A i \in firsts : RunAt(asked, table, i) \in Documents
    BY <1>2, <1>4
  <2> QED
    BY <1>1, <1>4, <2>1, ObstaclesType
<1> HIDE DEF firsts, n, pairs
<1>8. ASSUME NEW q \in pairs PROVE Before(p, q)
  <2>1. PICK c \in candidate..n, m \in 1..Metrics :
          q = <<Place(firsts, c), m>> /\ (c = candidate => metric <= m)
    BY <1>6
  <2>2. CASE c = candidate
    BY <2>1, <2>2 DEF Before
  <2>3. CASE c # candidate
    <3>1. c \in 1..n /\ candidate \in 1..n /\ candidate < c
      BY <1>2, <2>3
    <3>2. Place(firsts, candidate) < Place(firsts, c)
      BY <1>4, <3>1
    <3> QED
      BY <2>1, <3>2 DEF Before
  <2> QED
    BY <2>2, <2>3
<1>9. FirstOf(pairs) = p
  <2> HIDE DEF p
  <2> QED
    BY <1>3, <1>5, <1>7, <1>8, FirstIsUnique
<1>10. ReasonAt(asked, table, p) =
         IF Named(runs[candidate], runs[1].metrics[metric]) = {}
           THEN "metric_missing"
           ELSE "metric_incompatible"
  <2>1. runs[candidate] = RunAt(asked, table, Place(firsts, candidate))
    BY <1>2, <1>4
  <2> QED
    BY <1>4, <2>1 DEF ReasonAt
<1>11. VerdictOf(asked, table) = ReasonAt(asked, table, FirstOf(pairs))
  BY <1>3, VerdictOfLoops DEF pairs
<1> QED
  BY <1>9, <1>10, <1>11


\* The runs stay in place while the table grows.
LEMMA PlacedStays ==
  ASSUME PlacedInv, UNCHANGED <<asked, runs>>, stage' = "comparing" => stage = "comparing",
         \A id \in DOMAIN table : id \in DOMAIN table' /\ table'[id] = table[id]
  PROVE  PlacedInv'
<1> SUFFICES ASSUME stage' = "comparing" PROVE ArePlaced(asked', table', runs')
  BY DEF PlacedInv
<1>1. ArePlaced(asked, table, runs)
  BY DEF PlacedInv
<1>2. ArePlaced(asked, table', runs)
  BY <1>1 DEF ArePlaced, RunAt
<1> QED
  BY <1>2

\* What Find finds when nothing is missing.
LEMMA FindPlaces ==
  ASSUME ComparisonInv, stage = "finding",
         Len(InRequestedOrder(Normalized(asked))) = Len(Normalized(asked))
  PROVE  ArePlaced(asked, table, InRequestedOrder(Normalized(asked)))
<1> DEFINE ids == Normalized(asked)
           firsts == FirstOccurrences(asked)
           found == InRequestedOrder(ids)
<1>1. TableOK /\ asked \in Seq(Arguments)
  BY DEF ComparisonInv, ComparisonTypes
<1>2. /\ ids \in Seq(RunIds)
      /\ Len(ids) = Cardinality(firsts)
      /\ \A k \in 1..Len(ids) : ids[k] = Trim[asked[Place(firsts, k)]]
  BY <1>1, NormalizedFacts
<1>3. \A k \in 1..Len(ids) : ids[k] \in DOMAIN table /\ found[k] = table[ids[k]]
  BY <1>1, <1>2, FoundAll
<1>4. Len(found) = Len(ids)
  OBVIOUS
<1> HIDE DEF ids, firsts, found
<1>5. \A k \in 1..Len(found) : /\ Trim[asked[Place(firsts, k)]] \in DOMAIN table
                               /\ found[k] = RunAt(asked, table, Place(firsts, k))
  BY <1>2, <1>3, <1>4 DEF RunAt
<1> QED
  BY <1>2, <1>4, <1>5 DEF ArePlaced, ids, firsts, found

LEMMA PlacedStep ==
  ASSUME ComparisonInv, PlacedInv, [EndpointNext]_allVars
  PROVE  PlacedInv'
<1>1. CASE UNCHANGED vars
  BY <1>1, PlacedStays DEF vars
<1>2. ASSUME NEW e \in Documents, Ingest(e) PROVE PlacedInv'
  BY <1>2, PlacedStays DEF Ingest, loopVars
<1>3. ASSUME NEW args, Ask(args) PROVE PlacedInv'
  BY <1>3 DEF Ask, Finish, PlacedInv
<1>4. CASE Find
  <2>1. SUFFICES ASSUME stage' = "comparing" PROVE ArePlaced(asked', table', runs')
    BY DEF PlacedInv
  <2>2. /\ stage = "finding" /\ table' = table /\ asked' = asked
        /\ runs' = InRequestedOrder(Normalized(asked))
        /\ Len(InRequestedOrder(Normalized(asked))) = Len(Normalized(asked))
    BY <1>4, <2>1 DEF Find, Refuse, Finish
  <2> QED
    BY <2>2, FindPlaces
<1>5. CASE CompareMetric
  BY <1>5, PlacedStays DEF CompareMetric
<1>6. CASE NextCandidate
  BY <1>6, PlacedStays DEF NextCandidate
<1>7. CASE Conclude
  BY <1>7, PlacedStays DEF Conclude, loopVars
<1>8. CASE FindFails \/ Take
  BY <1>8 DEF FindFails, Finish, Take, PlacedInv
<1> QED
  BY <1>1, <1>2, <1>3, <1>4, <1>5, <1>6, <1>7, <1>8
  DEF EndpointNext, Resolve, Post, Validate, Render, Collect, allVars

\* While the loops run, the runs are those of the arguments, one by one, as
\* they are stored (flatMap over the ids).
THEOREM PlacedInductive == EndpointSpec => []PlacedInv
<1>1. EndpointInit => PlacedInv
  BY DEF EndpointInit, Init, PlacedInv
<1>2. EndpointInv /\ PlacedInv /\ [EndpointNext]_allVars => PlacedInv'
  BY PlacedStep DEF EndpointInv
<1> QED
  BY <1>1, <1>2, ComparisonInductive, PTL DEF EndpointSpec

-----------------------------------------------------------------------------
(* Every step is one of the promise.                                       *)

\* Of what the promise keeps, nothing changes.
LEMMA PromiseStutters ==
  ASSUME UNCHANGED <<table, asked, stage, verdict>>
  PROVE  UNCHANGED Promise!atomicVars
BY DEF Promise!atomicVars, Phase, Settled

LEMMA IngestIsPromised ==
  ASSUME ComparisonInv, PlacedInv, NEW e \in Documents, Ingest(e)
  PROVE  Promise!Ingest(e)
<1>1. UNCHANGED <<asked, stage, verdict>>
      /\ \A id \in DOMAIN table : id \in DOMAIN table' /\ table'[id] = table[id]
  BY DEF Ingest
<1>2. Settled' = Settled
  <2>1. CASE stage # "comparing"
    BY <1>1, <2>1 DEF Settled
  <2>2. CASE stage = "comparing"
    <3>1. asked \in Seq(Arguments) /\ runs \in Seq(Documents) /\ ArePlaced(asked, table, runs)
          /\ Len(runs) \in 2..MaxComparisonRuns /\ TableOK
      BY <2>2, LoopFacts DEF ComparisonInv, ComparisonTypes, PlacedInv
    <3>2. FirstOccurrences(asked) # {}
          /\ \A i \in FirstOccurrences(asked) : Trim[asked[i]] \in DOMAIN table
      BY <3>1, VerdictOfPlaced
    <3>3. \A i \in FirstOccurrences(asked) :
            /\ Trim[asked[i]] \in DOMAIN table /\ Trim[asked[i]] \in DOMAIN table'
            /\ table'[Trim[asked[i]]] = table[Trim[asked[i]]]
            /\ table[Trim[asked[i]]] \in Documents
      BY <1>1, <3>1, <3>2 DEF TableOK
    <3>4. VerdictOf(asked, table') = VerdictOf(asked, table)
      BY <3>1, <3>2, <3>3, VerdictIsStable
    <3> QED
      BY <1>1, <2>2, <3>4 DEF Settled
  <2> QED
    BY <2>1, <2>2
<1>3. Phase' = Phase
  BY <1>1 DEF Phase
<1> QED
  BY <1>1, <1>2, <1>3 DEF Ingest, Promise!Ingest

LEMMA AskIsPromised ==
  ASSUME ComparisonInv, NEW n \in 0..MaxArguments, NEW args \in [1..n -> Arguments], Ask(args)
  PROVE  Promise!Ask
<1>1. args \in Seq(Arguments)
  BY ComparisonAssumption
<1>2. CountOK(Normalized(args)) <=> Cardinality(FirstOccurrences(args)) \in 2..MaxComparisonRuns
  BY <1>1, NormalizedFacts DEF CountOK
<1>3. /\ stage = "idle" /\ asked' = args /\ table' = table
      /\ \/ /\ ~ CountOK(Normalized(args))
            /\ verdict' = "invalid_query" /\ stage' = "done"
         \/ /\ CountOK(Normalized(args))
            /\ verdict' = verdict /\ stage' = "finding"
  BY DEF Ask, Finish
<1>4. Phase = "idle" /\ Settled = verdict
  BY <1>3 DEF Phase, Settled
<1>5. Promise!Cardinality(Promise!FirstOccurrences(args)) = Cardinality(FirstOccurrences(args))
  BY SameVerdict
<1>6. CASE verdict' = "invalid_query" /\ stage' = "done" /\ ~ CountOK(Normalized(args))
  <2>1. Phase' = "answered" /\ Settled' = "invalid_query"
    BY <1>6 DEF Phase, Settled
  <2> QED
    BY <1>2, <1>3, <1>4, <1>5, <1>6, <2>1 DEF Promise!Ask
<1>7. CASE verdict' = verdict /\ stage' = "finding" /\ CountOK(Normalized(args))
  <2>1. Phase' = "asked" /\ Settled' = Settled
    BY <1>4, <1>7 DEF Phase, Settled
  <2> QED
    BY <1>2, <1>3, <1>4, <1>5, <1>7, <2>1 DEF Promise!Ask
<1> QED
  BY <1>3, <1>6, <1>7

\* The moment of the comparison is the one in which the runs are read.
LEMMA FindIsPromised ==
  ASSUME ComparisonInv, Find
  PROVE  Promise!Compare
<1> DEFINE ids == Normalized(asked)
           firsts == FirstOccurrences(asked)
           found == InRequestedOrder(ids)
<1>1. /\ stage = "finding" /\ table' = table /\ asked' = asked
      /\ \/ Len(found) < Len(ids) /\ stage' = "done" /\ verdict' = "missing_runs"
         \/ /\ Len(found) = Len(ids) /\ ~ SameKeys(found)
            /\ stage' = "done" /\ verdict' = "keys_differ"
         \/ Len(found) = Len(ids) /\ stage' = "comparing"
  BY DEF Find, Refuse, Finish
<1>2. TableOK /\ asked \in Seq(Arguments)
  BY DEF ComparisonInv, ComparisonTypes
<1>3. /\ ids \in Seq(RunIds) /\ Len(ids) = Cardinality(firsts)
      /\ \A k \in 1..Len(ids) : Place(firsts, k) \in firsts /\ ids[k] = Trim[asked[Place(firsts, k)]]
      /\ Len(ids) = Cardinality(IdsOf(asked))
  BY <1>2, NormalizedFacts, NormalizedCounts
<1>4. Len(ids) \in 2..MaxComparisonRuns
  BY <1>1, <1>3 DEF ComparisonInv, ComparisonTypes, CountIsTold, AskedIds, IdsOf
<1>5. /\ found \in Seq(Documents)
      /\ Len(found) < Len(ids) => \E i \in 1..Len(ids) : ids[i] \notin DOMAIN table
  BY <1>2, <1>3, FoundFacts
<1>6. Phase = "asked" /\ Phase' = "answered"
  BY <1>1 DEF Phase
<1>7. Settled' = VerdictOf(asked, table)
  <2>1. CASE Len(found) < Len(ids) /\ stage' = "done" /\ verdict' = "missing_runs"
    <3>1. \E i \in firsts : Trim[asked[i]] \notin DOMAIN table
      BY <1>3, <1>5, <2>1
    <3>2. VerdictOf(asked, table) = "missing_runs"
      BY <1>3, <1>4, <3>1 DEF VerdictOf
    <3> QED
      BY <2>1, <3>2 DEF Settled
  <2>2. CASE Len(found) = Len(ids) /\ ~ SameKeys(found) /\ stage' = "done" /\ verdict' = "keys_differ"
    <3>1. ArePlaced(asked, table, found)
      BY <1>1, <2>2, FindPlaces
    <3> HIDE DEF found
    <3>2. Len(found) \in 2..MaxComparisonRuns /\ DOMAIN found = 1..Len(found) /\ Len(found) >= 1
      BY <1>4, <1>5, <2>2, LenProperties
    <3>3. PICK k \in 1..Len(found) : found[k].comparability_key # found[1].comparability_key
      BY <1>5, <2>2, <3>2, SameKeysIs
    <3>4. /\ \A i \in 1..Len(found) : /\ Place(firsts, i) \in firsts
                                      /\ found[i] = RunAt(asked, table, Place(firsts, i))
          /\ \A i \in firsts : Trim[asked[i]] \in DOMAIN table
      BY <1>2, <1>5, <3>1, <3>2, VerdictOfPlaced
    <3>5. 1 \in 1..Len(found)
      BY <3>2
    <3>6. \E i, j \in firsts : RunAt(asked, table, i).comparability_key
                                 # RunAt(asked, table, j).comparability_key
      BY <3>3, <3>4, <3>5
    <3>7. VerdictOf(asked, table) = "keys_differ"
      BY <1>3, <1>4, <3>4, <3>6 DEF VerdictOf
    <3> QED
      BY <2>2, <3>7 DEF Settled
  <2>3. CASE stage' = "comparing"
    BY <1>1, <2>3 DEF Settled
  <2> QED
    BY <1>1, <2>1, <2>2, <2>3
<1> QED
  BY <1>1, <1>6, <1>7, SameVerdict DEF Promise!Compare

LEMMA FindFailsIsPromised ==
  ASSUME FindFails
  PROVE  Promise!Fail
<1>1. /\ stage = "finding" /\ stage' = "done" /\ verdict' = "failed"
      /\ table' = table /\ asked' = asked
  BY DEF FindFails, Finish
<1> QED
  BY <1>1 DEF Promise!Fail, Phase, Settled

\* The loops settle nothing anew.
LEMMA CompareMetricIsSettled ==
  ASSUME ComparisonInv, PlacedInv, CompareMetric
  PROVE  UNCHANGED Promise!atomicVars
<1> DEFINE run == runs[candidate]
           was == runs[1].metrics[metric]
           found == Matching(run, was.name)
<1>1. /\ stage = "comparing" /\ candidate <= Len(runs) /\ metric <= Metrics
      /\ table' = table /\ asked' = asked
      /\ \/ found = {} /\ stage' = "done" /\ verdict' = "metric_missing"
         \/ \E j \in found : /\ ~ Compatible(was, run.metrics[j])
                             /\ stage' = "done" /\ verdict' = "metric_incompatible"
         \/ stage' = "comparing"
  BY DEF CompareMetric, Metrics, Refuse, Finish
<1>2. found = Named(run, was)
  BY DEF Matching, Named
<1>3. run \in Documents
  <2>1. Len(runs) \in Nat /\ candidate \in 2..(Len(runs) + 1)
        /\ \A i \in 1..Len(runs) : runs[i] \in Documents
    BY <1>1, LoopFacts
  <2>2. candidate \in 1..Len(runs)
    BY <1>1, <2>1
  <2> QED
    BY <2>1, <2>2
<1>4. CASE found = {} /\ stage' = "done" /\ verdict' = "metric_missing"
  <2>1. Fitting(run, was) = {}
    BY <1>2, <1>4 DEF Fitting
  <2>2. VerdictOf(asked, table) = "metric_missing"
    BY <1>1, <1>2, <1>4, <2>1, RefusesRightly
  <2> QED
    BY <1>1, <1>4, <2>2 DEF Promise!atomicVars, Phase, Settled
<1>5. ASSUME NEW j \in found, ~ Compatible(was, run.metrics[j]),
             stage' = "done", verdict' = "metric_incompatible"
      PROVE  UNCHANGED Promise!atomicVars
  <2>1. \A k \in found : k = j
    BY <1>3, ComparisonAssumption DEF Matching
  <2>2. Fitting(run, was) = {}
    BY <1>2, <1>5, <2>1 DEF Fitting, Compatible
  <2>3. VerdictOf(asked, table) = "metric_incompatible"
    BY <1>1, <1>2, <1>5, <2>2, RefusesRightly
  <2> QED
    BY <1>1, <1>5, <2>3 DEF Promise!atomicVars, Phase, Settled
<1>6. CASE stage' = "comparing"
  BY <1>1, <1>6 DEF Promise!atomicVars, Phase, Settled, CompareMetric, Refuse, Finish
<1> QED
  BY <1>1, <1>4, <1>5, <1>6

LEMMA NextCandidateIsSettled ==
  ASSUME NextCandidate
  PROVE  UNCHANGED Promise!atomicVars
BY PromiseStutters DEF NextCandidate

LEMMA ConcludeIsSettled ==
  ASSUME ComparisonInv, PlacedInv, Conclude
  PROVE  UNCHANGED Promise!atomicVars
<1>1. /\ stage = "comparing" /\ stage' = "done" /\ verdict' = "comparable"
      /\ table' = table /\ asked' = asked
  BY DEF Conclude, Finish
<1>2. VerdictOf(asked, table) = "comparable"
  BY ConcludesRightly
<1> QED
  BY <1>1, <1>2 DEF Promise!atomicVars, Phase, Settled

LEMMA TakeIsPromised ==
  ASSUME Take
  PROVE  Promise!Take
BY DEF Take, Promise!Take, Phase, Settled

\* The verdict is what the rows of one moment say, the first obstacle being
\* the reason, although the loops take their time and runs are ingested in
\* the meantime (compareBenchmarkRuns).
THEOREM KeepsItsPromise == EndpointSpec => ImplementsPromise
<1>1. EndpointInit => Promise!Init
  BY DEF EndpointInit, Init, Promise!Init, Phase, Settled
<1>2. EndpointInv /\ PlacedInv /\ [EndpointNext]_allVars => [Promise!Next]_(Promise!atomicVars)
  <2> SUFFICES ASSUME ComparisonInv, PlacedInv, [EndpointNext]_allVars
               PROVE  [Promise!Next]_(Promise!atomicVars)
    BY DEF EndpointInv
  <2>1. CASE UNCHANGED vars
    BY <2>1, PromiseStutters DEF vars
  <2>2. ASSUME NEW e \in Documents, Ingest(e) PROVE Promise!Next
    BY <2>2, IngestIsPromised DEF Promise!Next
  <2>3. ASSUME NEW n \in 0..MaxArguments, NEW args \in [1..n -> Arguments], Ask(args)
        PROVE  Promise!Next
    BY <2>3, AskIsPromised DEF Promise!Next
  <2>4. CASE Find \/ FindFails
    BY <2>4, FindIsPromised, FindFailsIsPromised DEF Promise!Next
  <2>5. CASE CompareMetric \/ NextCandidate \/ Conclude
    BY <2>5, CompareMetricIsSettled, NextCandidateIsSettled, ConcludeIsSettled
  <2>6. CASE Take
    BY <2>6, TakeIsPromised DEF Promise!Next
  <2> QED
    BY <2>1, <2>2, <2>3, <2>4, <2>5, <2>6
    DEF EndpointNext, Resolve, Post, Validate, Render, Collect, allVars
<1> QED
  BY <1>1, <1>2, ComparisonInductive, PlacedInductive, PTL
  DEF EndpointSpec, ImplementsPromise, Promise!Spec

=============================================================================

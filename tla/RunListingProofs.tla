-------------------------- MODULE RunListingProofs -------------------------
(***************************************************************************)
(* What a walk over the listing can rely on although the rows and the      *)
(* total of a page are read by two statements, for any number of runs,     *)
(* status changes and pages of any size.                                   *)
(***************************************************************************)
EXTENDS RunListing, RankLemmas

Reading == {"rows", "count", "page"}

\* How far in the listing this walk has come.
Reached == IF stage = "rows" THEN request.offset ELSE request.offset + Cardinality(rows)

Unseen == atStart \ shown

\* The runs the walk has passed without showing them.
Passed == {r \in Unseen : Rank(r, request.status) < Reached}

ListingTypes ==
  /\ IsFiniteSet(Stored)
  /\ Stored \subseteq Runs
  /\ status \in [Stored -> Statuses]
  /\ writes \in 0..MaxWrites
  /\ stage \in Reading \cup {"idle", "refused"}
  /\ request \in Requests
  /\ rows \subseteq Stored
  /\ hasNext \in BOOLEAN
  /\ shown \subseteq Stored
  /\ atStart \subseteq Stored
  /\ departed \in 0..writes
  /\ stage \in Reading => RequestOK(request)

\* A page has no more rows than it was asked for.
PageFits == rows = {} \/ Cardinality(rows) <= request.first

\* Every departure lets one run slip by, and nothing else does.
SlipsAreDepartures ==
  /\ stage # "idle" => atStart \subseteq Matching(request.status)
  /\ stage \in Reading => Cardinality(Passed) <= departed
  /\ OnlyDeparturesHideRuns

\* A listing without a filter never gets shorter.
TotalLasts == stage = "page" /\ hasNext /\ Unfiltered => Reached < Cardinality(Stored)

\* Unless a run was ingested, the runs shown are those the walk has passed.
ShownArePassed ==
  stage \in Reading /\ Unfiltered /\ Stored = atStart =>
    \A r \in shown : Rank(r, NoFilter) < Reached

ListingInv ==
  /\ ListingTypes
  /\ PageFits
  /\ SlipsAreDepartures
  /\ TotalLasts
  /\ ShownArePassed

-----------------------------------------------------------------------------
(* The listing.                                                            *)

LEMMA MatchingType ==
  ASSUME ListingTypes, NEW filter
  PROVE  /\ Stored \in SUBSET Nat
         /\ Matching(filter) \in SUBSET Nat
         /\ IsFiniteSet(Matching(filter))
         /\ Matching(filter) \subseteq Stored
<1>1. Stored \in SUBSET Nat /\ Matching(filter) \in SUBSET Stored
  BY ListingAssumption DEF ListingTypes, Matching
<1> QED
  BY <1>1, FS_Subset DEF ListingTypes

LEMMA RankIsRankIn ==
  ASSUME NEW r, NEW filter
  PROVE  Rank(r, filter) = RankIn(Matching(filter), r)
BY DEF Rank, RankIn, Above

LEMMA ReachedType ==
  ASSUME ListingTypes, stage \in Reading
  PROVE  Reached \in Nat
<1>1. request.offset \in Nat
  BY DEF ListingTypes, RequestOK
<1>2. rows \in SUBSET Stored
  BY DEF ListingTypes
<1>3. Cardinality(rows) \in Nat
  BY <1>2, FS_Subset, FS_CardinalityType DEF ListingTypes
<1> QED
  BY <1>1, <1>3 DEF Reached

LEMMA UnseenFinite ==
  ASSUME ListingTypes
  PROVE  /\ IsFiniteSet(Unseen) /\ Cardinality(Unseen) \in Nat
         /\ IsFiniteSet(Passed) /\ Cardinality(Passed) \in Nat
<1>1. Unseen \in SUBSET Stored /\ Passed \in SUBSET Stored
  BY DEF ListingTypes, Unseen, Passed
<1> QED
  BY <1>1, FS_Subset, FS_CardinalityType DEF ListingTypes

\* The page that a request gets.
LEMMA PageFacts ==
  ASSUME ListingTypes, RequestOK(request)
  PROVE  LET page == PageOf(request)
         IN  /\ page \subseteq Stored
             /\ IsFiniteSet(page)
             /\ Cardinality(page) \in 0..request.first
             /\ \A r \in page : Rank(r, request.status) < request.offset + Cardinality(page)
<1> DEFINE page == PageOf(request)
           set == Matching(request.status)
           from == request.offset
           size == request.first
<1>1. from \in Nat /\ size \in Nat
  BY ListingAssumption DEF RequestOK
<1>2. set \in SUBSET Nat /\ IsFiniteSet(set) /\ set \subseteq Stored
  BY MatchingType
<1>3. page = {r \in set : from <= RankIn(set, r) /\ RankIn(set, r) < from + size}
  BY RankIsRankIn DEF PageOf
<1> HIDE DEF page, set, from, size
<1>4. page \subseteq Stored
  BY <1>2, <1>3
<1>5. IsFiniteSet(page) /\ Cardinality(page) \in Nat /\ Cardinality(page) <= size
  BY <1>1, <1>2, <1>3, PageIsBounded
<1>6. \A r \in page : RankIn(set, r) < from + Cardinality(page)
  BY <1>1, <1>2, <1>3, PageIsDense
<1>7. Cardinality(page) \in 0..size
  BY <1>1, <1>5
<1> QED
  BY <1>4, <1>5, <1>6, <1>7, RankIsRankIn DEF page, set, from, size

-----------------------------------------------------------------------------
(* The writers.                                                            *)

\* What the invariant needs of a write: the runs that are left in the listing
\* keep their place or move down, but for the one run that may have departed.
LEMMA WriteKeeps ==
  ASSUME ListingInv, ListingTypes',
         UNCHANGED <<stage, request, rows, hasNext, shown>>,
         \/ /\ UNCHANGED <<atStart, departed>>
            /\ stage # "idle" => Matching(request.status) \subseteq Matching(request.status)'
         \/ /\ departed' = departed + 1
            /\ ~ Unfiltered
            /\ \E r : /\ atStart' = atStart \ {r}
                     /\ Matching(request.status)' = Matching(request.status) \ {r},
         Unfiltered => Stored \subseteq Stored',
         Unfiltered /\ Stored' = atStart' => Stored' = Stored /\ atStart' = atStart
  PROVE  ListingInv'
<1> DEFINE set == Matching(request.status)
<1>1. /\ set \in SUBSET Nat /\ IsFiniteSet(set)
      /\ set' \in SUBSET Nat /\ IsFiniteSet(set')
  <2>1. \A filter : Matching(filter)' \in SUBSET Nat /\ IsFiniteSet(Matching(filter)')
    <3>1. Stored' \in SUBSET Nat /\ IsFiniteSet(Stored')
      BY ListingAssumption DEF ListingTypes
    <3>2. \A filter : Matching(filter)' \in SUBSET Stored'
      BY DEF Matching
    <3> QED
      BY <3>1, <3>2, FS_Subset
  <2> QED
    BY <2>1, MatchingType DEF ListingInv
<1>2. \A r : /\ Rank(r, request.status) = RankIn(set, r)
            /\ Rank(r, request.status)' = RankIn(set', r)
  BY DEF Rank, RankIn, Above
<1>3. Reached' = Reached /\ Unseen' \subseteq Unseen /\ PageFits'
  BY DEF Reached, Unseen, PageFits, ListingInv
<1>4. /\ IsFiniteSet(Unseen) /\ Cardinality(Unseen) \in Nat
      /\ IsFiniteSet(Unseen') /\ Cardinality(Unseen') \in Nat
      /\ IsFiniteSet(Passed) /\ Cardinality(Passed) \in Nat
      /\ IsFiniteSet(Passed') /\ Cardinality(Passed') \in Nat
      /\ departed \in Nat
  <2>1. Unseen' \in SUBSET Unseen /\ Passed' \in SUBSET Unseen'
    BY <1>3 DEF Passed
  <2> QED
    BY <2>1, UnseenFinite, FS_Subset, FS_CardinalityType DEF ListingInv, ListingTypes
<1>5. Cardinality(Unseen') <= Cardinality(Unseen)
  BY <1>3, <1>4, FS_Subset
<1>6. stage # "idle" => atStart' \subseteq set'
  BY DEF ListingInv, SlipsAreDepartures
<1>7. ASSUME stage \in Reading PROVE Cardinality(Passed') <= departed'
  <2>1. Reached \in Nat /\ stage # "idle"
    BY <1>7, ReachedType DEF ListingInv, Reading
  <2>2. \A x \in Passed' : x \in Unseen' /\ RankIn(set', x) < Reached
    BY <1>2, <1>3 DEF Passed
  <2>3. \A x \in Unseen : RankIn(set, x) < Reached => x \in Passed
    BY <1>2 DEF Passed
  <2>4. \A x : RankIn(set, x) \in Nat /\ RankIn(set', x) \in Nat
    BY <1>1, AboveFinite
  <2>5. Cardinality(Passed) <= departed
    BY <1>7 DEF ListingInv, SlipsAreDepartures
  <2>6. CASE UNCHANGED departed /\ set \subseteq set'
    <3>1. \A x \in Passed' : RankIn(set, x) <= RankIn(set', x)
      BY <1>1, <2>6, RankGrows
    <3>2. Passed' \in SUBSET Passed
      BY <1>3, <2>1, <2>2, <2>3, <2>4, <3>1
    <3> QED
      BY <1>4, <2>5, <2>6, <3>2, FS_Subset
  <2>7. ASSUME departed' = departed + 1, NEW r, set' = set \ {r}
        PROVE  Cardinality(Passed') <= departed'
    <3>1. \A x \in Passed' : RankIn(set, x) <= RankIn(set', x) + 1
      BY <1>1, <2>7, RankDrops
    <3>2. \A x \in Passed' : x \in Passed \/ RankIn(set, x) = Reached
      BY <1>3, <2>1, <2>2, <2>3, <2>4, <3>1
    <3>3. \A x \in Passed' : x \in set
      BY <1>3, <2>1, <2>2 DEF ListingInv, SlipsAreDepartures, Unseen
    <3>4. \E y : Passed' \in SUBSET (Passed \cup {y})
      <4>1. \A x, y \in Passed' :
              RankIn(set, x) = Reached /\ RankIn(set, y) = Reached => x = y
        BY <1>1, <3>3, RankIsInjective
      <4> QED
        BY <3>2, <4>1
    <3>5. PICK y : Passed' \in SUBSET (Passed \cup {y})
      BY <3>4
    <3>6. /\ IsFiniteSet(Passed \cup {y})
          /\ Cardinality(Passed \cup {y}) <= Cardinality(Passed) + 1
          /\ Cardinality(Passed \cup {y}) \in Nat
      BY <1>4, OneMore
    <3>7. Cardinality(Passed') <= Cardinality(Passed \cup {y})
      BY <3>5, <3>6, FS_Subset
    <3> QED
      BY <1>4, <2>5, <2>7, <3>6, <3>7
  <2> QED
    BY <2>1, <2>6, <2>7
<1>8. OnlyDeparturesHideRuns'
  BY <1>4, <1>5 DEF ListingInv, SlipsAreDepartures, OnlyDeparturesHideRuns, Unseen
<1>9. TotalLasts'
  <2> SUFFICES ASSUME stage = "page", hasNext, Unfiltered
               PROVE  Reached < Cardinality(Stored')
    BY <1>3 DEF TotalLasts, Unfiltered
  <2>1. Reached < Cardinality(Stored) /\ Reached \in Nat
    BY ReachedType DEF ListingInv, TotalLasts, Reading
  <2>2. Stored \in SUBSET Stored' /\ IsFiniteSet(Stored') /\ IsFiniteSet(Stored)
    BY DEF ListingInv, ListingTypes
  <2>3. Cardinality(Stored) \in Nat /\ Cardinality(Stored') \in Nat
    BY <2>2, FS_CardinalityType
  <2>4. Cardinality(Stored) <= Cardinality(Stored')
    BY <2>2, FS_Subset
  <2> QED
    BY <2>1, <2>3, <2>4
<1>10. ShownArePassed'
  <2> SUFFICES ASSUME stage \in Reading, Unfiltered, Stored' = atStart'
               PROVE  \A r \in shown : Rank(r, NoFilter)' < Reached
    BY <1>3 DEF ShownArePassed, Unfiltered
  <2>1. Stored' = Stored /\ atStart' = atStart
    OBVIOUS
  <2>2. Matching(NoFilter) = Stored /\ Matching(NoFilter)' = Stored'
    BY DEF Matching
  <2>3. \A r : Rank(r, NoFilter)' = Rank(r, NoFilter)
    BY <2>1, <2>2 DEF Rank
  <2> QED
    BY <2>1, <2>3 DEF ListingInv, ShownArePassed
<1> QED
  BY <1>3, <1>6, <1>7, <1>8, <1>9, <1>10 DEF ListingInv, SlipsAreDepartures

LEMMA IngestKeeps ==
  ASSUME ListingInv, NEW r \in Runs, Ingest(r)
  PROVE  ListingInv'
<1>1. /\ r \notin Stored
      /\ status' = [x \in Stored \cup {r} |-> IF x = r THEN Accepted ELSE status[x]]
      /\ UNCHANGED <<writes, stage, request, rows, hasNext, shown, atStart, departed>>
  BY DEF Ingest, readerVars
<1>2. Stored' = Stored \cup {r} /\ \A x \in Stored : status'[x] = status[x]
  BY <1>1 DEF Stored
<1>3. ListingTypes'
  <2>1. IsFiniteSet(Stored')
    BY <1>2, OneMore DEF ListingInv, ListingTypes
  <2>2. status' \in [Stored' -> Statuses]
    BY <1>1, <1>2, ListingAssumption DEF ListingInv, ListingTypes
  <2> QED
    BY <1>1, <1>2, <2>1, <2>2 DEF ListingInv, ListingTypes, RequestOK
<1>4. Matching(request.status) \subseteq Matching(request.status)'
  BY <1>1, <1>2 DEF Matching
<1>5. Stored' # atStart'
  BY <1>1, <1>2 DEF ListingInv, ListingTypes
<1> QED
  BY <1>1, <1>2, <1>3, <1>4, <1>5, WriteKeeps

LEMMA OperateKeeps ==
  ASSUME ListingInv, NEW r \in Runs, NEW new \in Statuses, Operate(r, new)
  PROVE  ListingInv'
<1>1. /\ r \in Stored
      /\ writes < MaxWrites
      /\ status' = [status EXCEPT ![r] = new]
      /\ writes' = writes + 1
      /\ UNCHANGED <<stage, request, rows, hasNext, shown>>
  BY DEF Operate
<1>2. /\ Stored' = Stored
      /\ status'[r] = new
      /\ \A x \in Stored : x # r => status'[x] = status[x]
  BY <1>1 DEF Stored, ListingInv, ListingTypes
<1>3. /\ atStart' \subseteq atStart
      /\ departed' \in {departed, departed + 1}
  BY DEF Operate
<1>4. ListingTypes'
  <2>1. status' \in [Stored' -> Statuses]
    BY <1>1, <1>2 DEF ListingInv, ListingTypes
  <2>2. writes' \in 0..MaxWrites /\ departed' \in 0..writes'
    BY <1>1, <1>3, ListingAssumption DEF ListingInv, ListingTypes
  <2> QED
    BY <1>1, <1>2, <1>3, <2>1, <2>2 DEF ListingInv, ListingTypes, RequestOK
<1>5. CASE Departs(r, new) /\ atStart' = atStart \ {r} /\ departed' = departed + 1
  <2>1. status[r] = request.status /\ new # status[r] /\ status[r] \in Statuses
    BY <1>1, <1>5 DEF Departs, ListingInv, ListingTypes
  <2>2. request.status # NoFilter /\ ~ Unfiltered
    BY <2>1, ListingAssumption DEF Unfiltered
  <2>3. Matching(request.status)' = Matching(request.status) \ {r}
    BY <1>1, <1>2, <2>1, <2>2 DEF Matching
  <2> QED
    BY <1>1, <1>4, <1>5, <2>2, <2>3, WriteKeeps
<1>6. CASE ~ Departs(r, new) /\ UNCHANGED <<atStart, departed>>
  <2>1. stage # "idle" => Matching(request.status) \subseteq Matching(request.status)'
    BY <1>1, <1>2, <1>6 DEF Matching, Departs
  <2> QED
    BY <1>1, <1>2, <1>4, <1>6, <2>1, WriteKeeps
<1> QED
  BY <1>5, <1>6 DEF Operate

-----------------------------------------------------------------------------
(* The reader.                                                             *)

LEMMA AskKeeps ==
  ASSUME ListingInv,
         NEW offset \in Offsets, NEW first \in Firsts, NEW filter \in Statuses \cup {NoFilter},
         Ask([offset |-> offset, first |-> first, status |-> filter])
  PROVE  ListingInv'
<1> DEFINE q == [offset |-> offset, first |-> first, status |-> filter]
<1>1. /\ request' = q
      /\ stage' = IF RequestOK(q) THEN "rows" ELSE "refused"
      /\ rows' = {}
      /\ hasNext' = FALSE
      /\ shown' = {}
      /\ atStart' = {r \in Matching(q.status) : q.offset <= Rank(r, q.status)}
      /\ departed' = 0
      /\ UNCHANGED <<status, writes>>
  BY DEF Ask, tableVars
<1>2. q \in Requests
  BY ListingAssumption DEF Requests
<1> HIDE DEF q
<1>3. Stored' = Stored /\ Matching(q.status)' = Matching(q.status)
  BY <1>1 DEF Stored, Matching
<1>4. \A r : Rank(r, q.status)' = Rank(r, q.status)
  BY <1>3 DEF Rank
<1>5. ListingTypes'
  <2>1. atStart' \subseteq Stored'
    BY <1>1, <1>3 DEF Matching
  <2>2. 0 \in 0..writes
    BY ListingAssumption DEF ListingInv, ListingTypes
  <2>3. RequestOK(request)' <=> RequestOK(q)
    BY <1>1 DEF RequestOK
  <2> QED
    BY <1>1, <1>2, <1>3, <2>1, <2>2, <2>3 DEF ListingInv, ListingTypes, Reading
<1>6. atStart' \subseteq Matching(request.status)'
  BY <1>1, <1>3
<1>7. stage' \in Reading => Cardinality(Passed') <= departed'
  <2> SUFFICES ASSUME stage' \in Reading PROVE Cardinality(Passed') <= departed'
    OBVIOUS
  <2>1. RequestOK(q) /\ Reached' = q.offset /\ q.offset \in Nat
    BY <1>1 DEF Reading, Reached, RequestOK
  <2>2. \A r \in atStart' : q.offset <= Rank(r, request.status)'
    BY <1>1, <1>4
  <2>3. \A r \in atStart' : Rank(r, request.status)' \in Nat
    BY <1>1, <1>4, RankIsRankIn, MatchingType, AboveFinite DEF ListingInv
  <2>4. Passed' = {}
    BY <2>1, <2>2, <2>3 DEF Passed, Unseen
  <2> QED
    BY <1>1, <2>4, FS_EmptySet
<1>8. stage' \notin {"page", "idle"} /\ PageFits' /\ ShownArePassed'
  BY <1>1 DEF PageFits, ShownArePassed
<1> QED
  BY <1>5, <1>6, <1>7, <1>8 DEF ListingInv, SlipsAreDepartures, OnlyDeparturesHideRuns, TotalLasts

\* A page shows what it has, and passes nothing else.
LEMMA SelectRowsKeeps == ASSUME ListingInv, SelectRows PROVE ListingInv'
<1>1. /\ stage = "rows"
      /\ stage' = "count"
      /\ rows' = PageOf(request)
      /\ shown' = shown \cup PageOf(request)
      /\ UNCHANGED <<status, writes, request, hasNext, atStart, departed>>
  BY DEF SelectRows, tableVars
<1>2. Stored' = Stored /\ \A filter : Matching(filter)' = Matching(filter)
  BY <1>1 DEF Stored, Matching
<1>3. \A r, filter : Rank(r, filter)' = Rank(r, filter)
  BY <1>2 DEF Rank
<1>4. ListingTypes /\ RequestOK(request) /\ stage \in Reading
  BY <1>1 DEF ListingInv, ListingTypes, Reading
<1>5. /\ rows' \subseteq Stored
      /\ Cardinality(rows') \in 0..request.first
      /\ \A r \in rows' : Rank(r, request.status) < request.offset + Cardinality(rows')
  BY <1>1, <1>4, PageFacts
<1>6. ListingTypes'
  BY <1>1, <1>2, <1>5 DEF ListingInv, ListingTypes, Reading, RequestOK
<1>7. /\ request.offset \in Nat /\ request.first \in Nat
      /\ Reached = request.offset /\ Reached' = request.offset + Cardinality(rows')
  BY <1>1, <1>4, ListingAssumption DEF Reached, RequestOK
<1>8. PageFits'
  BY <1>1, <1>5, <1>7 DEF PageFits
<1>9. atStart' \subseteq Matching(request.status)'
  BY <1>1, <1>2 DEF ListingInv, SlipsAreDepartures
<1>10. \A r \in Matching(request.status) : Rank(r, request.status) \in Nat
  BY <1>4, RankIsRankIn, MatchingType, AboveFinite
<1>11. Cardinality(Passed') <= departed'
  <2>1. Passed' \in SUBSET Passed
    <3> SUFFICES ASSUME NEW r \in Passed' PROVE r \in Passed
      OBVIOUS
    <3>1. /\ r \in Unseen
          /\ r \notin PageOf(request)
          /\ Rank(r, request.status) < request.offset + Cardinality(rows')
      BY <1>1, <1>3, <1>7 DEF Passed, Unseen
    <3>2. r \in Matching(request.status)
      BY <1>1, <3>1 DEF ListingInv, SlipsAreDepartures, Unseen
    <3>3. Rank(r, request.status) < request.offset
      BY <1>5, <1>7, <1>10, <3>1, <3>2 DEF PageOf
    <3> QED
      BY <1>7, <3>1, <3>3 DEF Passed
  <2>2. IsFiniteSet(Passed) /\ Cardinality(Passed) \in Nat
    BY <1>4, UnseenFinite
  <2>3. Cardinality(Passed') <= Cardinality(Passed) /\ Cardinality(Passed') \in Nat
    BY <2>1, <2>2, FS_Subset, FS_CardinalityType
  <2>4. Cardinality(Passed) <= departed /\ departed' = departed /\ departed \in Nat
    BY <1>1, <1>4 DEF ListingInv, SlipsAreDepartures, ListingTypes
  <2> QED
    BY <2>2, <2>3, <2>4
<1>12. ShownArePassed'
  <2> SUFFICES ASSUME Unfiltered, Stored = atStart
               PROVE  \A r \in shown' : Rank(r, NoFilter) < request.offset + Cardinality(rows')
    BY <1>1, <1>2, <1>3, <1>7 DEF ShownArePassed, Unfiltered
  <2>1. \A r \in shown : Rank(r, NoFilter) < request.offset
    BY <1>4, <1>7 DEF ListingInv, ShownArePassed
  <2>2. \A r \in shown : Rank(r, NoFilter) \in Nat
    BY <1>10 DEF Unfiltered, Matching, ListingInv, ListingTypes
  <2> QED
    BY <1>1, <1>5, <1>7, <2>1, <2>2 DEF Unfiltered
<1>13. stage' # "page" /\ stage' \in Reading
  BY <1>1 DEF Reading
<1> QED
  BY <1>6, <1>8, <1>9, <1>11, <1>12, <1>13
  DEF ListingInv, SlipsAreDepartures, OnlyDeparturesHideRuns, TotalLasts

\* A reader that keeps the rows it has got, and what it knows of them.
LEMMA ReaderKeeps ==
  ASSUME ListingInv, UNCHANGED <<status, writes, rows, shown, atStart, departed>>,
         request' \in Requests, request'.status = request.status, request'.first = request.first,
         hasNext' \in BOOLEAN, stage # "idle",
         \/ stage \in {"refused", "page"} /\ stage' = "idle"
         \/ stage \in Reading /\ stage' \in Reading /\ Reached' = Reached /\ RequestOK(request')
  PROVE  /\ ListingTypes' /\ PageFits' /\ ShownArePassed'
         /\ stage' # "idle" => atStart' \subseteq Matching(request.status)'
         /\ stage' \in Reading => Cardinality(Passed') <= departed'
<1>1. Stored' = Stored /\ \A filter : Matching(filter)' = Matching(filter)
  BY DEF Stored, Matching
<1>2. \A r, filter : Rank(r, filter)' = Rank(r, filter)
  BY <1>1 DEF Rank
<1>3. ListingTypes'
  <2>1. stage' \in Reading => RequestOK(request)'
    BY DEF RequestOK, Reading
  <2> QED
    BY <1>1, <2>1 DEF ListingInv, ListingTypes, Reading
<1>4. PageFits'
  BY DEF ListingInv, PageFits
<1>5. stage' \in Reading => stage \in Reading /\ Reached' = Reached
  BY DEF Reading
<1>6. stage' \in Reading => Passed' = Passed
  BY <1>2, <1>5 DEF Passed, Unseen
<1>7. stage' \in Reading => Cardinality(Passed') <= departed'
  BY <1>5, <1>6 DEF ListingInv, SlipsAreDepartures
<1>8. ShownArePassed'
  BY <1>1, <1>2, <1>5 DEF ListingInv, ShownArePassed, Unfiltered
<1>9. stage' # "idle" => atStart' \subseteq Matching(request.status)'
  BY <1>1 DEF ListingInv, SlipsAreDepartures
<1> QED
  BY <1>3, <1>4, <1>7, <1>8, <1>9

LEMMA SelectCountKeeps == ASSUME ListingInv, SelectCount PROVE ListingInv'
<1>1. /\ stage = "count"
      /\ stage' = "page"
      /\ hasNext' = (request.offset + Cardinality(rows) < Cardinality(Matching(request.status)))
      /\ UNCHANGED <<status, writes, request, rows, shown, atStart, departed>>
  BY DEF SelectCount, tableVars
<1>2. stage \in Reading /\ Reached = request.offset + Cardinality(rows) /\ Reached' = Reached
  BY <1>1 DEF Reading, Reached
<1>3. /\ request' \in Requests
      /\ request'.status = request.status
      /\ request'.first = request.first
      /\ hasNext' \in BOOLEAN
      /\ stage # "idle"
      /\ stage' \in Reading
      /\ RequestOK(request')
  BY <1>1, <1>2 DEF ListingInv, ListingTypes, Reading
<1>4. /\ ListingTypes' /\ PageFits' /\ ShownArePassed'
      /\ atStart' \subseteq Matching(request.status)'
      /\ Cardinality(Passed') <= departed'
  BY <1>1, <1>2, <1>3, ReaderKeeps
<1> DEFINE set == Matching(request.status)
<1>5. set \in SUBSET Nat /\ IsFiniteSet(set) /\ Cardinality(set) \in Nat /\ Reached \in Nat
  BY <1>2, MatchingType, ReachedType, FS_CardinalityType DEF ListingInv
<1>6. OnlyDeparturesHideRuns'
  <2> SUFFICES ASSUME ~ hasNext'
               PROVE  Cardinality(Unseen) <= departed
    BY <1>1 DEF OnlyDeparturesHideRuns, Unseen
  <2>1. ~ (Reached < Cardinality(set))
    BY <1>1, <1>2
  <2>2. \A r \in Unseen : r \in set
    BY <1>1 DEF Unseen, ListingInv, SlipsAreDepartures
  <2>3. \A r \in set : RankIn(set, r) \in Nat /\ RankIn(set, r) < Cardinality(set)
    BY <1>5, AboveFinite, RankBelowTotal
  <2> HIDE DEF set
  <2>4. ASSUME NEW r \in Unseen PROVE RankIn(set, r) < Reached
    <3>1. RankIn(set, r) \in Nat /\ RankIn(set, r) < Cardinality(set)
      BY <2>2, <2>3
    <3> QED
      BY <1>5, <2>1, <3>1
  <2>5. Unseen = Passed
    BY <2>4, RankIsRankIn DEF Passed, set
  <2> QED
    BY <1>2, <2>5 DEF ListingInv, SlipsAreDepartures
<1>7. TotalLasts'
  <2>1. Unfiltered => set = Stored
    BY DEF Unfiltered, Matching
  <2>2. Stored' = Stored
    BY <1>1 DEF Stored
  <2> QED
    BY <1>1, <1>2, <2>1, <2>2 DEF TotalLasts, Unfiltered
<1> QED
  BY <1>4, <1>6, <1>7 DEF ListingInv, SlipsAreDepartures

LEMMA AskNextKeeps == ASSUME ListingInv, AskNext PROVE ListingInv'
<1>1. /\ stage = "page"
      /\ stage' = "rows"
      /\ request' = [request EXCEPT !.offset = @ + Cardinality(rows)]
      /\ UNCHANGED <<status, writes, rows, hasNext, shown, atStart, departed>>
  BY DEF AskNext, tableVars
<1>2. stage \in Reading /\ stage' \in Reading /\ Reached = request.offset + Cardinality(rows)
  BY <1>1 DEF Reading, Reached
<1>3. Reached \in Nat /\ request \in Requests /\ RequestOK(request) /\ hasNext \in BOOLEAN
  BY <1>2, ReachedType DEF ListingInv, ListingTypes
<1>4. /\ request'.offset = Reached
      /\ request'.first = request.first
      /\ request'.status = request.status
      /\ request' \in Requests
  BY <1>1, <1>2, <1>3 DEF Requests
<1>5. RequestOK(request') /\ Reached' = Reached
  BY <1>1, <1>3, <1>4 DEF RequestOK, Reached
<1>6. stage # "idle" /\ hasNext' \in BOOLEAN /\ stage' \notin {"idle", "page"}
  BY <1>1, <1>3
<1>7. /\ ListingTypes' /\ PageFits' /\ ShownArePassed'
      /\ atStart' \subseteq Matching(request.status)'
      /\ Cardinality(Passed') <= departed'
  BY <1>1, <1>2, <1>4, <1>5, <1>6, ReaderKeeps
<1> QED
  BY <1>6, <1>7 DEF ListingInv, SlipsAreDepartures, OnlyDeparturesHideRuns, TotalLasts

LEMMA StopKeeps == ASSUME ListingInv, Stop PROVE ListingInv'
<1>1. /\ stage \in {"page", "refused"}
      /\ stage' = "idle"
      /\ UNCHANGED <<status, writes, request, rows, hasNext, shown, atStart, departed>>
  BY DEF Stop, tableVars
<1>2. request' \in Requests /\ hasNext' \in BOOLEAN
  BY <1>1 DEF ListingInv, ListingTypes
<1>3. ListingTypes' /\ PageFits' /\ ShownArePassed' /\ stage' \notin Reading \cup {"page"}
  BY <1>1, <1>2, ReaderKeeps DEF Reading
<1> QED
  BY <1>1, <1>3 DEF ListingInv, SlipsAreDepartures, OnlyDeparturesHideRuns, TotalLasts

-----------------------------------------------------------------------------
(* The invariant, and what it says.                                        *)

LEMMA ListingInitially == Init => ListingInv
<1> SUFFICES ASSUME Init PROVE ListingInv
  OBVIOUS
<1> USE DEF Init
<1>1. Stored = {} /\ IsFiniteSet(Stored)
  BY FS_EmptySet DEF Stored
<1>2. NoRequest \in Requests
  BY DEF NoRequest, Requests
<1>3. ListingTypes
  <2>1. status \in [Stored -> Statuses]
    BY <1>1
  <2>2. writes \in 0..MaxWrites /\ departed \in 0..writes
    BY ListingAssumption
  <2>3. rows \subseteq Stored /\ shown \subseteq Stored /\ atStart \subseteq Stored
    OBVIOUS
  <2> QED
    BY <1>1, <1>2, <2>1, <2>2, <2>3 DEF ListingTypes, Reading
<1>4. PageFits /\ SlipsAreDepartures /\ TotalLasts /\ ShownArePassed
  BY DEF PageFits, SlipsAreDepartures, TotalLasts, ShownArePassed, OnlyDeparturesHideRuns, Reading
<1> QED
  BY <1>3, <1>4 DEF ListingInv

LEMMA ListingStep == ASSUME ListingInv, [Next]_vars PROVE ListingInv'
<1>1. CASE Write
  BY <1>1, IngestKeeps, OperateKeeps DEF Write
<1>2. CASE Listing
  BY <1>2, AskKeeps, SelectRowsKeeps, SelectCountKeeps, AskNextKeeps, StopKeeps DEF Listing
<1>3. CASE UNCHANGED vars
  <2> USE <1>3 DEF vars
  <2>1. Stored' = Stored /\ \A filter : Matching(filter)' = Matching(filter)
    BY DEF Stored, Matching
  <2>2. \A r, filter : Rank(r, filter)' = Rank(r, filter)
    BY <2>1 DEF Rank
  <2>3. Reached' = Reached /\ Passed' = Passed
    BY <2>2 DEF Reached, Passed, Unseen
  <2>4. ListingTypes' /\ PageFits'
    BY <2>1 DEF ListingInv, ListingTypes, PageFits, RequestOK
  <2>5. SlipsAreDepartures'
    BY <2>1, <2>3 DEF ListingInv, SlipsAreDepartures, OnlyDeparturesHideRuns
  <2>6. TotalLasts' /\ ShownArePassed'
    BY <2>1, <2>2, <2>3 DEF ListingInv, TotalLasts, ShownArePassed, Unfiltered
  <2> QED
    BY <2>4, <2>5, <2>6 DEF ListingInv
<1> QED
  BY <1>1, <1>2, <1>3 DEF Next

LEMMA ListingInvariant == Spec => []ListingInv
<1>1. ListingInv /\ [Next]_vars => ListingInv'
  BY ListingStep
<1> QED
  BY <1>1, ListingInitially, PTL DEF Spec

\* Every variable keeps its type and no page is longer than it was asked to
\* be, however many runs there are.
THEOREM TypeCorrect == Spec => []TypeOK
<1>1. ListingInv => TypeOK
  BY DEF ListingInv, ListingTypes, PageFits, TypeOK, Reading
<1> QED
  BY <1>1, ListingInvariant, PTL

\* A walk to the end of the listing misses at most one run for each time a run
\* left the listing meanwhile.
THEOREM WalksMissOnlyDepartures == Spec => []OnlyDeparturesHideRuns
<1>1. ListingInv => OnlyDeparturesHideRuns
  BY DEF ListingInv, SlipsAreDepartures
<1> QED
  BY <1>1, ListingInvariant, PTL

\* A page that announces another one keeps its word.
THEOREM AnnouncedPagesExist == Spec => []NextPageHasRows
<1>1. ListingInv => NextPageHasRows
  <2> SUFFICES ASSUME ListingInv, stage = "page", hasNext, Unfiltered
               PROVE  PageOf([request EXCEPT !.offset = @ + Cardinality(rows)]) # {}
    BY DEF NextPageHasRows
  <2> DEFINE q == [request EXCEPT !.offset = @ + Cardinality(rows)]
  <2>1. stage \in Reading /\ Reached = request.offset + Cardinality(rows)
    BY DEF Reading, Reached
  <2>2. Reached \in Nat /\ Reached < Cardinality(Stored)
    BY <2>1, ReachedType DEF ListingInv, TotalLasts
  <2>3. request \in Requests /\ request.first \in Nat \ {0}
    BY <2>1, ListingAssumption DEF ListingInv, ListingTypes, RequestOK
  <2>4. q.offset = Reached /\ q.first = request.first /\ q.status = NoFilter
    BY <2>1, <2>3 DEF Requests, Unfiltered
  <2>5. Matching(NoFilter) = Stored
    BY DEF Matching
  <2>6. PICK r \in Stored : RankIn(Stored, r) = Reached
    BY <2>2, RankIsOnto, MatchingType DEF ListingInv, ListingTypes
  <2>7. Rank(r, NoFilter) = Reached
    BY <2>5, <2>6, RankIsRankIn
  <2> HIDE DEF q
  <2>8. r \in PageOf(q)
    BY <2>2, <2>3, <2>4, <2>5, <2>6, <2>7 DEF PageOf
  <2> QED
    BY <2>8 DEF q
<1> QED
  BY <1>1, ListingInvariant, PTL

\* A walk from the first row on, without a status filter, shows no run a second
\* time unless a run was ingested since it began.
THEOREM RepeatsNeedIngestion == Spec => OnlyIngestionRepeatsRuns
<1>1. ASSUME ListingInv, [Next]_vars, stage = "rows", stage' = "count", Unfiltered, Stored = atStart
      PROVE  rows' \cap shown = {}
  <2>1. rows' = PageOf(request)
    BY <1>1 DEF Next, Write, Ingest, Operate, Listing, Ask, SelectRows, SelectCount, AskNext, Stop,
       vars, readerVars
  <2>2. \A r \in shown : Rank(r, NoFilter) < request.offset
    BY <1>1 DEF ListingInv, ShownArePassed, Reading, Reached
  <2>3. \A r \in rows' : request.offset <= Rank(r, NoFilter)
    BY <1>1, <2>1 DEF PageOf, Unfiltered
  <2>4. request.offset \in Nat /\ \A r : Rank(r, NoFilter) \in Nat
    BY <1>1, RankIsRankIn, MatchingType, AboveFinite
    DEF ListingInv, ListingTypes, RequestOK, Reading
  <2> QED
    BY <2>2, <2>3, <2>4
<1>2. ListingInv /\ [Next]_vars =>
        [stage = "rows" /\ stage' = "count" /\ Unfiltered /\ Stored = atStart
           => rows' \cap shown = {}]_vars
  BY <1>1
<1> QED
  BY <1>2, ListingInvariant, PTL DEF Spec, OnlyIngestionRepeatsRuns

=============================================================================

----------------------- MODULE BenchmarkHarnessProofs ----------------------
(***************************************************************************)
(* The harness shares out every iteration once and publishes only what is  *)
(* clean, for any number of workers, iterations and repeats.               *)
(***************************************************************************)
EXTENDS BenchmarkHarness, FiniteSetTheorems, TLAPS

\* The workers that wait for a response.
Waiters == {w \in Workers : waiting[w] # 0}

\* The stages of a repeat after its measured ingestion.
Measuring == {"queryWarmup", "query", "probe", "report"}

Clean == ~ flawed /\ stored = (1..Repeats) \X (1..Measured)

\* Where the harness is, and what that says of the repeat and the outcome.
StateOK ==
  /\ calibration \in BOOLEAN
  /\ stage \in Loads \cup {"starting", "probe", "report", "closed"}
  /\ repeat \in Nat \ {0}
  /\ repeat <= Repeats \/ repeat = 1
  /\ stage \in Loads \cup {"probe"} => repeat <= Repeats
  /\ stage = "report" => repeat >= Repeats
  /\ stage = "starting" => repeat = 1
  /\ measured \in Nat
  /\ stored \subseteq (1..Repeats) \X (1..Measured)
  /\ flawed \in BOOLEAN
  /\ outcome \in Outcomes
  /\ outcome = "none" <=> stage # "closed"

\* Every iteration taken is a sample or on its way.
CountsOK ==
  /\ cursor \in Nat
  /\ samples \in Nat
  /\ failures \in 0..samples
  /\ nextRun \in 0..Measured
  /\ stage \in Loads => cursor <= TotalOf[stage]
  /\ stage = "ingest" => nextRun = cursor
  /\ cursor = samples + Cardinality(Waiters)

\* Each iteration taken has been answered or is waited for by one worker, and
\* a worker is idle only when there is nothing left to take.  In a measured
\* ingestion the iterations and the run ids go up together.
SharesOK ==
  /\ waiting \in [Workers -> Nat]
  /\ runOf = [w \in Workers |-> IF stage = "ingest" THEN waiting[w] ELSE 0]
  /\ \A w \in Workers : waiting[w] <= cursor
  /\ \A v, w \in Workers : v # w /\ waiting[v] # 0 => waiting[v] # waiting[w]
  /\ answered \subseteq 1..cursor
  /\ \A w \in Workers : waiting[w] \notin answered
  /\ \A i \in 1..cursor : i \in answered \/ \E w \in Workers : waiting[w] = i
  /\ \A w \in Workers : waiting[w] = 0 /\ stage \in Loads => cursor = TotalOf[stage]
  /\ stage \notin Loads => Waiters = {}

\* A request that went wrong is in one of the sums that keep a result from
\* being published, or has ended the benchmark.
FlawIsCounted ==
  flawed => \/ measured > 0
            \/ stage \in Loads /\ failures > 0
            \/ outcome = "failed"

\* While nothing has gone wrong the service holds the runs of the repeats
\* before, and those of this one that have been answered.
StoredIsWhole ==
  ~ flawed /\ stage # "closed" =>
    stored = { p \in (1..Repeats) \X (1..Measured) :
                 \/ p[1] < repeat
                 \/ p[1] = repeat /\ stage \in Measuring
                 \/ p[1] = repeat /\ stage = "ingest" /\ p[2] \in answered }

\* The harness's inductive invariant.
HarnessInv ==
  /\ StateOK
  /\ CountsOK
  /\ SharesOK
  /\ FlawIsCounted
  /\ StoredIsWhole
  /\ outcome = "published" => Clean

-----------------------------------------------------------------------------
(* The loads.                                                              *)

LEMMA TotalType == ASSUME NEW load \in Loads PROVE TotalOf[load] \in Nat
BY HarnessAssumption DEF Loads, TotalOf

LEMMA WorkersFinite ==
  /\ IsFiniteSet(Waiters)
  /\ Cardinality(Waiters) \in Nat
<1>1. IsFiniteSet(Workers)
  BY FS_Interval, HarnessAssumption DEF Workers
<1>2. Waiters \in SUBSET Workers
  BY DEF Waiters
<1>3. IsFiniteSet(Waiters)
  BY <1>1, <1>2, FS_Subset
<1> QED
  BY <1>3, FS_CardinalityType

\* A load that begins gives the first workers the first iterations.
LEMMA LoadBegins ==
  ASSUME NEW load \in Loads, nextRun \in 0..Measured, BeginLoad(load)
  PROVE  CountsOK' /\ SharesOK'
<1> DEFINE first == Lesser(TotalOf[load], Concurrency)
<1>1. /\ first \in Nat
      /\ first <= TotalOf[load]
      /\ first <= Concurrency
      /\ first < Concurrency => first = TotalOf[load]
  BY TotalType, HarnessAssumption DEF Lesser
<1>2. /\ stage' = load
      /\ cursor' = first
      /\ waiting' = [w \in Workers |-> IF w <= first THEN w ELSE 0]
      /\ nextRun' = IF load = "ingest" THEN first ELSE nextRun
      /\ runOf' = [w \in Workers |-> IF load = "ingest" /\ w <= first THEN w ELSE 0]
      /\ failures' = 0
      /\ samples' = 0
      /\ answered' = {}
  BY DEF BeginLoad
<1>3. Workers \subseteq Nat \ {0} /\ 1..first \subseteq Workers
  BY <1>1, HarnessAssumption DEF Workers
<1> HIDE DEF first
<1>4. Waiters' = 1..first
  <2>1. \A w \in Workers : waiting'[w] # 0 <=> w <= first
    BY <1>2, <1>3
  <2>2. \A w : w \in Waiters' <=> w \in Workers /\ waiting'[w] # 0
    BY DEF Waiters
  <2>3. \A w : w \in 1..first <=> w \in Workers /\ w <= first
    BY <1>1, <1>3, HarnessAssumption DEF Workers
  <2> QED
    BY <2>1, <2>2, <2>3
<1>5. Cardinality(Waiters') = first
  BY <1>1, <1>4, FS_Interval
<1>6. load = "ingest" => TotalOf[load] = Measured
  BY DEF TotalOf
<1>7. CountsOK'
  BY <1>1, <1>2, <1>5, <1>6, HarnessAssumption DEF CountsOK
<1>8. SharesOK'
  <2>1. waiting' \in [Workers -> Nat]
    BY <1>2, <1>3
  <2>2. runOf' = [w \in Workers |-> IF stage' = "ingest" THEN waiting'[w] ELSE 0]
    BY <1>2
  <2>3. \A w \in Workers : waiting'[w] <= cursor'
    BY <1>1, <1>2, <1>3
  <2>4. \A v, w \in Workers : v # w /\ waiting'[v] # 0 => waiting'[v] # waiting'[w]
    BY <1>2, <1>3
  <2>5. \A i \in 1..cursor' : \E w \in Workers : waiting'[w] = i
    BY <1>1, <1>2, <1>3
  <2>6. \A w \in Workers : waiting'[w] = 0 => cursor' = TotalOf[stage']
    BY <1>1, <1>2, <1>3, HarnessAssumption DEF Workers
  <2> QED
    BY <1>2, <2>1, <2>2, <2>3, <2>4, <2>5, <2>6 DEF SharesOK
<1> QED
  BY <1>7, <1>8

\* Between the loads nobody waits, and the counters stay as they are.
LEMMA LoadStays ==
  ASSUME CountsOK, SharesOK, UNCHANGED loadVars, Waiters = {}, stage' \notin Loads
  PROVE  CountsOK' /\ SharesOK'
<1>1. UNCHANGED <<cursor, nextRun, waiting, runOf, failures, samples, answered>>
  BY DEF loadVars
<1>2. Waiters' = Waiters
  BY <1>1 DEF Waiters
<1>3. \A w \in Workers : waiting[w] = 0
  BY DEF Waiters
<1>4. runOf' = [w \in Workers |-> IF stage' = "ingest" THEN waiting'[w] ELSE 0]
  BY <1>1, <1>3 DEF SharesOK, Loads
<1>5. CountsOK'
  BY <1>1, <1>2 DEF CountsOK, Loads
<1>6. SharesOK'
  BY <1>1, <1>2, <1>4 DEF SharesOK
<1> QED
  BY <1>5, <1>6

\* When the last worker has ended, every iteration has been answered.
LEMMA LoadIsAnswered ==
  ASSUME SharesOK, CountsOK, NEW load \in Loads, LoadEnds(load)
  PROVE  /\ stage = load
         /\ Waiters = {}
         /\ cursor = TotalOf[load]
         /\ answered = 1..TotalOf[load]
<1>1. stage = load /\ \A w \in Workers : waiting[w] = 0
  BY DEF LoadEnds
<1>2. 1 \in Workers
  BY HarnessAssumption DEF Workers
<1>3. cursor = TotalOf[load]
  BY <1>1, <1>2 DEF SharesOK
<1>4. answered = 1..cursor
  <2>1. \A i \in 1..cursor : i # 0
    BY DEF CountsOK
  <2>2. \A i \in 1..cursor : i \in answered
    BY <1>1, <2>1 DEF SharesOK
  <2> QED
    BY <2>2 DEF SharesOK
<1> QED
  BY <1>1, <1>3, <1>4 DEF Waiters

-----------------------------------------------------------------------------
(* A response.                                                             *)

\* The worker that was answered takes another iteration, or waits no more.
LEMMA RespondCounts ==
  ASSUME HarnessInv, NEW w \in Workers, Respond(w)
  PROVE  CountsOK'
<1>1. /\ stage \in Loads
      /\ stage' = stage
      /\ waiting[w] # 0
      /\ samples' = samples + 1
      /\ failures' \in {failures, failures + 1}
      /\ Take(w)
  BY DEF Respond, HarnessInv, CountsOK
<1>2. TotalOf[stage] \in Nat
  BY <1>1, TotalType
<1>3. stage = "ingest" => TotalOf[stage] = Measured
  BY DEF TotalOf
<1>4. CountsOK /\ waiting \in [Workers -> Nat] /\ w \in Waiters
  BY <1>1 DEF HarnessInv, SharesOK, Waiters
<1>5. failures' \in 0..samples' /\ samples' \in Nat
  BY <1>1, <1>4 DEF CountsOK
<1>6. CASE cursor < TotalOf[stage]
  <2>1. cursor' = cursor + 1 /\ waiting' = [waiting EXCEPT ![w] = cursor + 1]
    BY <1>1, <1>6 DEF Take
  <2>2. Waiters' = Waiters
    BY <1>4, <2>1 DEF Waiters, CountsOK
  <2>3. nextRun' \in 0..Measured /\ (stage' = "ingest" => nextRun' = cursor')
    BY <1>1, <1>3, <1>4, <1>6, HarnessAssumption DEF Take, CountsOK
  <2> QED
    BY <1>1, <1>2, <1>4, <1>5, <1>6, <2>1, <2>2, <2>3, WorkersFinite DEF CountsOK
<1>7. CASE ~ (cursor < TotalOf[stage])
  <2>1. /\ cursor' = cursor
        /\ nextRun' = nextRun
        /\ waiting' = [waiting EXCEPT ![w] = 0]
    BY <1>1, <1>7 DEF Take
  <2>2. Waiters' = Waiters \ {w}
    BY <1>4, <2>1 DEF Waiters
  <2>3. Cardinality(Waiters') = Cardinality(Waiters) - 1
    BY <1>4, <2>2, WorkersFinite, FS_RemoveElement
  <2> QED
    BY <1>1, <1>2, <1>4, <1>5, <2>1, <2>3, WorkersFinite DEF CountsOK
<1> QED
  BY <1>6, <1>7

LEMMA RespondShares ==
  ASSUME HarnessInv, NEW w \in Workers, Respond(w)
  PROVE  SharesOK'
<1>1. /\ stage \in Loads
      /\ stage' = stage
      /\ waiting[w] # 0
      /\ answered' = answered \cup {waiting[w]}
      /\ Take(w)
  BY DEF Respond
<1>2. TotalOf[stage] \in Nat /\ cursor \in Nat /\ cursor <= TotalOf[stage]
  BY <1>1, TotalType DEF HarnessInv, CountsOK
<1>3. SharesOK
  BY DEF HarnessInv
<1>4. CASE cursor < TotalOf[stage]
  <2>1. cursor' = cursor + 1 /\ waiting' = [waiting EXCEPT ![w] = cursor + 1]
    BY <1>1, <1>4 DEF Take
  <2>2. runOf' = IF stage = "ingest" THEN [runOf EXCEPT ![w] = cursor + 1] ELSE runOf
    BY <1>1, <1>4 DEF Take, HarnessInv, CountsOK
  <2>3. waiting' \in [Workers -> Nat] /\ \A v \in Workers : waiting'[v] <= cursor'
    BY <1>2, <1>3, <2>1 DEF SharesOK
  <2>4. runOf' = [v \in Workers |-> IF stage' = "ingest" THEN waiting'[v] ELSE 0]
    BY <1>1, <1>3, <2>1, <2>2 DEF SharesOK
  <2>5. \A u, v \in Workers : u # v /\ waiting'[u] # 0 => waiting'[u] # waiting'[v]
    BY <1>2, <1>3, <2>1 DEF SharesOK
  <2>6. answered' \subseteq 1..cursor' /\ \A v \in Workers : waiting'[v] \notin answered'
    <3>1. waiting[w] \in 1..cursor /\ answered \subseteq 1..cursor
      BY <1>1, <1>2, <1>3 DEF SharesOK
    <3>2. \A i \in 1..cursor : i \in 1..cursor' /\ i # cursor + 1
      BY <1>2, <2>1
    <3>3. \A v \in Workers : v # w => waiting'[v] = waiting[v] /\ waiting[v] # waiting[w]
      BY <1>1, <1>3, <2>1 DEF SharesOK
    <3>4. waiting'[w] = cursor + 1
      BY <1>3, <2>1 DEF SharesOK
    <3>5. \A v \in Workers : waiting[v] \notin answered
      BY <1>3 DEF SharesOK
    <3> QED
      BY <1>1, <3>1, <3>2, <3>3, <3>4, <3>5
  <2>7. \A i \in 1..cursor' : i \in answered' \/ \E v \in Workers : waiting'[v] = i
    <3> SUFFICES ASSUME NEW i \in 1..cursor', i \notin answered'
                 PROVE  \E v \in Workers : waiting'[v] = i
      OBVIOUS
    <3>1. CASE i = cursor + 1
      BY <1>3, <2>1, <3>1 DEF SharesOK
    <3>2. CASE i # cursor + 1
      <4>1. i \in 1..cursor
        BY <1>2, <2>1, <3>2
      <4>2. PICK v \in Workers : waiting[v] = i
        BY <1>1, <1>3, <4>1 DEF SharesOK
      <4>3. v # w
        BY <1>1, <4>2
      <4> QED
        BY <1>3, <2>1, <4>2, <4>3 DEF SharesOK
    <3> QED
      BY <3>1, <3>2
  <2>8. \A v \in Workers : waiting'[v] = 0 => cursor' = TotalOf[stage']
    BY <1>1, <1>2, <1>3, <1>4, <2>1 DEF SharesOK
  <2> QED
    BY <1>1, <2>3, <2>4, <2>5, <2>6, <2>7, <2>8 DEF SharesOK
<1>5. CASE ~ (cursor < TotalOf[stage])
  <2>1. /\ cursor' = cursor
        /\ waiting' = [waiting EXCEPT ![w] = 0]
        /\ runOf' = [runOf EXCEPT ![w] = 0]
    BY <1>1, <1>5 DEF Take
  <2>2. waiting' \in [Workers -> Nat] /\ \A v \in Workers : waiting'[v] <= cursor'
    BY <1>2, <1>3, <2>1 DEF SharesOK
  <2>3. runOf' = [v \in Workers |-> IF stage' = "ingest" THEN waiting'[v] ELSE 0]
    BY <1>1, <1>3, <2>1 DEF SharesOK
  <2>4. \A u, v \in Workers : u # v /\ waiting'[u] # 0 => waiting'[u] # waiting'[v]
    BY <1>2, <1>3, <2>1 DEF SharesOK
  <2>5. answered' \subseteq 1..cursor'
    <3>1. waiting[w] \in 1..cursor /\ answered \subseteq 1..cursor
      BY <1>1, <1>2, <1>3 DEF SharesOK
    <3> QED
      BY <1>1, <2>1, <3>1
  <2>6. \A v \in Workers : waiting'[v] \notin answered'
    BY <1>1, <1>2, <1>3, <2>1 DEF SharesOK
  <2>7. \A i \in 1..cursor' : i \in answered' \/ \E v \in Workers : waiting'[v] = i
    <3> SUFFICES ASSUME NEW i \in 1..cursor', i \notin answered'
                 PROVE  \E v \in Workers : waiting'[v] = i
      OBVIOUS
    <3>1. PICK v \in Workers : waiting[v] = i
      BY <1>1, <1>3, <2>1 DEF SharesOK
    <3>2. v # w
      BY <1>1, <3>1
    <3> QED
      BY <1>3, <2>1, <3>1, <3>2 DEF SharesOK
  <2>8. cursor' = TotalOf[stage']
    BY <1>1, <1>2, <1>5, <2>1
  <2> QED
    BY <1>1, <2>2, <2>3, <2>4, <2>5, <2>6, <2>7, <2>8 DEF SharesOK
<1> QED
  BY <1>4, <1>5

\* A response keeps what is stored and what is known to have failed together.
LEMMA RespondStores ==
  ASSUME HarnessInv, NEW w \in Workers, Respond(w)
  PROVE  /\ stored' \subseteq (1..Repeats) \X (1..Measured)
         /\ FlawIsCounted'
         /\ StoredIsWhole'
<1>1. PICK ok \in BOOLEAN :
        /\ Serve(w, ok)
        /\ failures' = failures + (IF ok THEN 0 ELSE 1)
        /\ flawed' = (flawed \/ ~ ok)
  BY DEF Respond
<1>2. /\ stage \in Loads
      /\ waiting[w] # 0
      /\ answered' = answered \cup {waiting[w]}
      /\ UNCHANGED <<stage, repeat, measured, outcome>>
  BY DEF Respond
<1>3. StateOK /\ CountsOK /\ SharesOK /\ FlawIsCounted /\ StoredIsWhole
  BY DEF HarnessInv
<1>4. failures' \in Nat /\ (~ ok => failures' > 0) /\ (failures > 0 => failures' > 0)
  BY <1>1, <1>3 DEF CountsOK
<1>5. FlawIsCounted'
  BY <1>1, <1>2, <1>3, <1>4 DEF FlawIsCounted
<1>6. CASE stage = "ingest"
  <2> DEFINE run == <<repeat, runOf[w]>>
  <2>1. runOf[w] = waiting[w]
    BY <1>3, <1>6 DEF SharesOK
  <2>2. waiting[w] \in 1..Measured
    BY <1>2, <1>3, <1>6, HarnessAssumption DEF SharesOK, CountsOK
  <2>3. repeat \in 1..Repeats
    BY <1>2, <1>3, HarnessAssumption DEF StateOK
  <2>4. run = <<repeat, waiting[w]>> /\ run \in (1..Repeats) \X (1..Measured)
    BY <2>1, <2>2, <2>3
  <2>5. stored' \in {stored, stored \cup {run}} /\ (ok => stored' = stored \cup {run})
    BY <1>1, <1>6 DEF Serve
  <2> HIDE DEF run
  <2>6. stored' \subseteq (1..Repeats) \X (1..Measured)
    BY <1>3, <2>4, <2>5 DEF StateOK
  <2>7. StoredIsWhole'
    <3> SUFFICES ASSUME ~ flawed'
                 PROVE  stored' = { p \in (1..Repeats) \X (1..Measured) :
                                      \/ p[1] < repeat
                                      \/ p[1] = repeat /\ p[2] \in answered' }
      BY <1>2, <1>6 DEF StoredIsWhole, Measuring
    <3>1. stored = { p \in (1..Repeats) \X (1..Measured) :
                       p[1] < repeat \/ (p[1] = repeat /\ p[2] \in answered) }
      BY <1>1, <1>3, <1>6 DEF StoredIsWhole, Measuring
    <3>2. stored' = stored \cup {run}
      BY <1>1, <2>5
    <3>3. \A p \in (1..Repeats) \X (1..Measured) :
            p = run <=> p[1] = repeat /\ p[2] = waiting[w]
      BY <2>4
    <3> QED
      BY <1>2, <2>3, <2>4, <3>1, <3>2, <3>3
  <2> QED
    BY <1>5, <2>6, <2>7
<1>7. CASE stage # "ingest"
  <2>1. stored' = stored
    BY <1>1, <1>2, <1>7 DEF Serve, Loads
  <2>2. StoredIsWhole'
    BY <1>1, <1>2, <1>3, <1>7, <2>1 DEF StoredIsWhole
  <2> QED
    BY <1>3, <1>5, <2>1, <2>2 DEF StateOK
<1> QED
  BY <1>6, <1>7

LEMMA RespondKeeps ==
  ASSUME HarnessInv, NEW w \in Workers, Respond(w)
  PROVE  HarnessInv'
<1>1. UNCHANGED <<calibration, stage, repeat, measured, outcome>> /\ stage \in Loads
  BY DEF Respond
<1>2. flawed' \in BOOLEAN
  BY DEF Respond, HarnessInv, StateOK
<1>3. StateOK'
  BY <1>1, <1>2, RespondStores DEF HarnessInv, StateOK
<1>4. outcome' # "published"
  BY <1>1 DEF HarnessInv, StateOK, Loads
<1> QED
  BY <1>3, <1>4, RespondCounts, RespondShares, RespondStores DEF HarnessInv

-----------------------------------------------------------------------------
(* The steps between the loads.                                            *)

\* A benchmark that fails or prints has nothing more to keep.
LEMMA EndKeeps ==
  ASSUME HarnessInv, Waiters = {}, stage # "closed", NEW what \in {"failed", "printed"}, End(what),
         calibration' = calibration, measured' \in Nat, stored' = stored,
         flawed' \in BOOLEAN, flawed' => measured' > 0 \/ what = "failed"
  PROVE  HarnessInv'
<1>1. stage' = "closed" /\ outcome' = what /\ UNCHANGED <<loadVars, repeat>>
  BY DEF End
<1>2. CountsOK' /\ SharesOK'
  BY <1>1, LoadStays DEF HarnessInv, Loads
<1>3. StateOK'
  BY <1>1 DEF HarnessInv, StateOK, Loads, Outcomes
<1>4. FlawIsCounted' /\ StoredIsWhole' /\ outcome' # "published"
  BY <1>1 DEF FlawIsCounted, StoredIsWhole
<1> QED
  BY <1>2, <1>3, <1>4 DEF HarnessInv

LEMMA StartKeeps == ASSUME HarnessInv, Start PROVE HarnessInv'
<1>1. stage = "starting" /\ UNCHANGED <<calibration, measured, stored, flawed>>
  BY DEF Start
<1>2. repeat = 1 /\ Waiters = {} /\ nextRun \in 0..Measured /\ outcome # "published"
  BY <1>1 DEF HarnessInv, StateOK, SharesOK, CountsOK, Loads
<1>3. flawed => measured > 0
  BY <1>1 DEF HarnessInv, FlawIsCounted, StateOK, Loads
<1>4. CASE UNCHANGED <<repeat, outcome>> /\ Repeats > 0 /\ BeginLoad("ingestWarmup")
  <2>1. stage' = "ingestWarmup"
    BY <1>4 DEF BeginLoad
  <2>2. CountsOK' /\ SharesOK'
    BY <1>2, <1>4, LoadBegins DEF Loads
  <2>3. StateOK'
    BY <1>1, <1>2, <1>4, <2>1, HarnessAssumption DEF HarnessInv, StateOK, Loads
  <2>4. FlawIsCounted' /\ StoredIsWhole'
    BY <1>1, <1>2, <1>3, <1>4, <2>1 DEF HarnessInv, FlawIsCounted, StoredIsWhole, Measuring
  <2> QED
    BY <1>2, <1>4, <2>2, <2>3, <2>4 DEF HarnessInv
<1>5. CASE UNCHANGED <<repeat, outcome>> /\ ~ (Repeats > 0) /\ stage' = "report" /\ UNCHANGED loadVars
  <2>1. CountsOK' /\ SharesOK'
    BY <1>2, <1>5, LoadStays DEF HarnessInv, Loads
  <2>2. Repeats = 0 /\ 1..Repeats = {}
    BY <1>5, HarnessAssumption
  <2>3. StateOK'
    BY <1>1, <1>2, <1>5, <2>2 DEF HarnessInv, StateOK, Loads
  <2>4. FlawIsCounted'
    BY <1>1, <1>3, <1>5 DEF FlawIsCounted
  <2>5. stored' = {} /\ (1..Repeats) \X (1..Measured) = {}
    BY <1>1, <2>2 DEF HarnessInv, StateOK
  <2>6. StoredIsWhole'
    BY <2>5 DEF StoredIsWhole
  <2> QED
    BY <1>2, <1>5, <2>1, <2>3, <2>4, <2>6 DEF HarnessInv
<1>6. CASE End("failed")
  BY <1>1, <1>2, <1>3, <1>6, EndKeeps DEF HarnessInv, StateOK
<1> QED
  BY <1>4, <1>5, <1>6 DEF Start

LEMMA EndWarmupKeeps ==
  ASSUME HarnessInv,
         NEW load, NEW next,
         <<load, next>> \in {<<"ingestWarmup", "ingest">>, <<"queryWarmup", "query">>},
         EndWarmup(load, next)
  PROVE  HarnessInv'
<1>1. LoadEnds(load) /\ load \in Loads /\ next \in Loads
      /\ UNCHANGED <<calibration, measured, stored, flawed>>
  BY DEF EndWarmup, Loads
<1>2. stage = load /\ Waiters = {}
  BY <1>1, LoadIsAnswered DEF HarnessInv
<1>3. nextRun \in 0..Measured /\ outcome # "published"
  BY <1>1, <1>2 DEF HarnessInv, CountsOK, StateOK, Loads
<1>4. CASE failures > 0 /\ End("failed")
  BY <1>1, <1>2, <1>4, EndKeeps DEF HarnessInv, StateOK, Loads
<1>5. CASE ~ (failures > 0) /\ BeginLoad(next) /\ UNCHANGED <<repeat, outcome>>
  <2>1. stage' = next /\ answered' = {}
    BY <1>5 DEF BeginLoad
  <2>2. CountsOK' /\ SharesOK'
    BY <1>1, <1>3, <1>5, LoadBegins
  <2>3. StateOK'
    BY <1>1, <1>2, <1>5, <2>1 DEF HarnessInv, StateOK, Loads
  <2>4. FlawIsCounted'
    BY <1>1, <1>5 DEF HarnessInv, FlawIsCounted
  <2>5. StoredIsWhole'
    BY <1>1, <1>2, <1>5, <2>1 DEF HarnessInv, StoredIsWhole, Measuring
  <2> QED
    BY <1>3, <1>5, <2>2, <2>3, <2>4, <2>5 DEF HarnessInv
<1> QED
  BY <1>4, <1>5 DEF EndWarmup

LEMMA EndIngestKeeps == ASSUME HarnessInv, EndIngest PROVE HarnessInv'
<1>1. /\ LoadEnds("ingest")
      /\ measured' = measured + failures
      /\ UNCHANGED <<calibration, stored, flawed>>
  BY DEF EndIngest
<1>2. stage = "ingest" /\ Waiters = {} /\ answered = 1..Measured
  BY <1>1, LoadIsAnswered DEF HarnessInv, Loads, TotalOf
<1>3. nextRun \in 0..Measured /\ outcome = "none"
  BY <1>1, <1>2 DEF HarnessInv, CountsOK, StateOK, Loads
<1>4. /\ measured' \in Nat
      /\ measured > 0 \/ failures > 0 => measured' > 0
  BY <1>1 DEF HarnessInv, StateOK, CountsOK
<1>5. flawed' => measured' > 0
  BY <1>1, <1>2, <1>3, <1>4 DEF HarnessInv, FlawIsCounted
<1>6. CASE End("failed")
  BY <1>1, <1>2, <1>4, <1>5, <1>6, EndKeeps DEF HarnessInv, StateOK
<1>7. CASE BeginLoad("queryWarmup") /\ UNCHANGED <<repeat, outcome>>
  <2>1. stage' = "queryWarmup"
    BY <1>7 DEF BeginLoad
  <2>2. CountsOK' /\ SharesOK'
    BY <1>3, <1>7, LoadBegins DEF Loads
  <2>3. StateOK'
    BY <1>1, <1>2, <1>4, <1>7, <2>1 DEF HarnessInv, StateOK, Loads
  <2>4. FlawIsCounted'
    BY <1>5 DEF FlawIsCounted
  <2>5. StoredIsWhole'
    <3> SUFFICES ASSUME ~ flawed
                 PROVE  stored = { p \in (1..Repeats) \X (1..Measured) :
                                     p[1] < repeat \/ p[1] = repeat }
      BY <1>1, <1>7, <2>1 DEF StoredIsWhole, Measuring
    <3>1. stored = { p \in (1..Repeats) \X (1..Measured) :
                       p[1] < repeat \/ (p[1] = repeat /\ p[2] \in 1..Measured) }
      BY <1>2 DEF HarnessInv, StoredIsWhole, Measuring
    <3>2. \A p \in (1..Repeats) \X (1..Measured) : p[2] \in 1..Measured
      OBVIOUS
    <3> QED
      BY <3>1, <3>2
  <2> QED
    BY <1>3, <1>7, <2>2, <2>3, <2>4, <2>5 DEF HarnessInv
<1> QED
  BY <1>6, <1>7 DEF EndIngest

LEMMA EndQueryKeeps == ASSUME HarnessInv, EndQuery PROVE HarnessInv'
<1>1. /\ LoadEnds("query")
      /\ measured' = measured + failures
      /\ stage' = "probe"
      /\ UNCHANGED <<calibration, repeat, loadVars, stored, outcome, flawed>>
  BY DEF EndQuery
<1>2. stage = "query" /\ Waiters = {}
  BY <1>1, LoadIsAnswered DEF HarnessInv, Loads
<1>3. CountsOK' /\ SharesOK'
  BY <1>1, <1>2, LoadStays DEF HarnessInv, Loads
<1>4. /\ measured' \in Nat
      /\ measured > 0 \/ failures > 0 => measured' > 0
  BY <1>1 DEF HarnessInv, StateOK, CountsOK
<1>5. StateOK'
  BY <1>1, <1>2, <1>4 DEF HarnessInv, StateOK, Loads
<1>6. FlawIsCounted'
  BY <1>1, <1>2, <1>4 DEF HarnessInv, FlawIsCounted
<1>7. StoredIsWhole' /\ outcome' # "published"
  BY <1>1, <1>2 DEF HarnessInv, StoredIsWhole, Measuring, StateOK, Loads
<1> QED
  BY <1>3, <1>5, <1>6, <1>7 DEF HarnessInv

LEMMA ProbeKeeps == ASSUME HarnessInv, Probe PROVE HarnessInv'
<1>1. stage = "probe" /\ UNCHANGED <<calibration, measured, stored>>
  BY DEF Probe
<1>2. Waiters = {} /\ nextRun \in 0..Measured /\ outcome = "none"
  BY <1>1 DEF HarnessInv, SharesOK, CountsOK, StateOK, Loads
<1>3. /\ repeat \in Nat \ {0}
      /\ repeat <= Repeats
      /\ \A p \in (1..Repeats) \X (1..Measured) : p[1] \in 1..Repeats
  BY <1>1 DEF HarnessInv, StateOK
<1>4. flawed => measured > 0
  BY <1>1, <1>2 DEF HarnessInv, FlawIsCounted, Loads
<1>5. ~ flawed => stored = { p \in (1..Repeats) \X (1..Measured) :
                               p[1] < repeat \/ p[1] = repeat }
  BY <1>1 DEF HarnessInv, StoredIsWhole, Measuring
<1>6. CASE /\ repeat < Repeats
           /\ repeat' = repeat + 1
           /\ BeginLoad("ingestWarmup")
           /\ UNCHANGED <<outcome, flawed>>
  <2>1. stage' = "ingestWarmup"
    BY <1>6 DEF BeginLoad
  <2>2. CountsOK' /\ SharesOK'
    BY <1>2, <1>6, LoadBegins DEF Loads
  <2>3. StateOK'
    BY <1>1, <1>2, <1>3, <1>6, <2>1, HarnessAssumption DEF HarnessInv, StateOK, Loads
  <2>4. FlawIsCounted'
    BY <1>1, <1>4, <1>6 DEF FlawIsCounted
  <2>5. \A p \in (1..Repeats) \X (1..Measured) :
          p[1] < repeat' <=> p[1] < repeat \/ p[1] = repeat
    BY <1>3, <1>6, HarnessAssumption
  <2>6. StoredIsWhole'
    BY <1>1, <1>5, <1>6, <2>1, <2>5 DEF StoredIsWhole, Measuring
  <2> QED
    BY <1>2, <1>6, <2>2, <2>3, <2>4, <2>6 DEF HarnessInv
<1>7. CASE repeat >= Repeats /\ stage' = "report" /\ UNCHANGED <<repeat, loadVars, outcome, flawed>>
  <2>1. CountsOK' /\ SharesOK'
    BY <1>2, <1>7, LoadStays DEF HarnessInv, Loads
  <2>2. StateOK'
    BY <1>1, <1>2, <1>7 DEF HarnessInv, StateOK, Loads
  <2>3. FlawIsCounted' /\ StoredIsWhole'
    BY <1>1, <1>4, <1>5, <1>7 DEF FlawIsCounted, StoredIsWhole, Measuring
  <2> QED
    BY <1>2, <1>7, <2>1, <2>2, <2>3 DEF HarnessInv
<1>8. CASE End("failed") /\ flawed' = TRUE
  BY <1>1, <1>2, <1>8, EndKeeps DEF HarnessInv, StateOK
<1> QED
  BY <1>6, <1>7, <1>8 DEF Probe

LEMMA ReportKeeps == ASSUME HarnessInv, Report PROVE HarnessInv'
<1>1. stage = "report" /\ UNCHANGED <<calibration, measured, stored, flawed>>
  BY DEF Report
<1>2. Waiters = {} /\ outcome = "none"
  BY <1>1 DEF HarnessInv, SharesOK, StateOK, Loads
<1>3. flawed => measured > 0
  BY <1>1, <1>2 DEF HarnessInv, FlawIsCounted, Loads
<1>4. CASE \E what \in {"failed", "printed"} : End(what)
  BY <1>1, <1>2, <1>3, <1>4, EndKeeps DEF HarnessInv, StateOK
<1>5. CASE Reportable /\ End("published")
  <2>1. stage' = "closed" /\ outcome' = "published" /\ UNCHANGED <<loadVars, repeat>>
    BY <1>5 DEF End
  <2>2. ~ flawed
    BY <1>3, <1>5 DEF Reportable
  <2>3. \A p \in (1..Repeats) \X (1..Measured) : p[1] < repeat \/ p[1] = repeat
    <3>1. repeat \in Nat /\ repeat >= Repeats
      BY <1>1 DEF HarnessInv, StateOK
    <3>2. \A p \in (1..Repeats) \X (1..Measured) : p[1] \in 1..Repeats
      OBVIOUS
    <3> QED
      BY <3>1, <3>2, HarnessAssumption
  <2>4. Clean
    BY <1>1, <2>2, <2>3 DEF HarnessInv, StoredIsWhole, Measuring, Clean
  <2>5. CountsOK' /\ SharesOK'
    BY <1>2, <2>1, LoadStays DEF HarnessInv, Loads
  <2>6. StateOK'
    BY <1>1, <2>1 DEF HarnessInv, StateOK, Loads, Outcomes
  <2>7. FlawIsCounted' /\ StoredIsWhole' /\ Clean'
    BY <1>1, <2>1, <2>4 DEF FlawIsCounted, StoredIsWhole, Clean
  <2> QED
    BY <2>5, <2>6, <2>7 DEF HarnessInv
<1> QED
  BY <1>4, <1>5 DEF Report, EvidenceOutcomes

-----------------------------------------------------------------------------
(* The invariant, and what it says.                                        *)

LEMMA HarnessInitially == Init => HarnessInv
<1> SUFFICES ASSUME Init PROVE HarnessInv
  OBVIOUS
<1> USE DEF Init
<1>1. Waiters = {} /\ Cardinality({}) = 0
  BY FS_EmptySet DEF Waiters
<1>2. StateOK
  <2>1. stage = "starting" /\ stage \notin Loads
    BY DEF Loads
  <2>2. repeat \in Nat \ {0} /\ measured \in Nat /\ calibration \in BOOLEAN
    OBVIOUS
  <2>3. stored \subseteq (1..Repeats) \X (1..Measured) /\ flawed \in BOOLEAN
    OBVIOUS
  <2>4. outcome \in Outcomes /\ (outcome = "none" <=> stage # "closed")
    BY DEF Outcomes
  <2> QED
    BY <2>1, <2>2, <2>3, <2>4 DEF StateOK
<1>3. CountsOK
  BY <1>1, HarnessAssumption DEF CountsOK, Loads
<1>4. SharesOK
  BY <1>1 DEF SharesOK, Loads
<1>5. FlawIsCounted /\ StoredIsWhole
  <2>1. \A p \in (1..Repeats) \X (1..Measured) : p[1] \in 1..Repeats
    OBVIOUS
  <2>2. \A p \in (1..Repeats) \X (1..Measured) : ~ (p[1] < 1) /\ stage # "ingest"
    BY <2>1, HarnessAssumption
  <2> QED
    BY <2>2 DEF FlawIsCounted, StoredIsWhole, Measuring
<1> QED
  BY <1>2, <1>3, <1>4, <1>5 DEF HarnessInv

LEMMA HarnessStep ==
  ASSUME HarnessInv, [Next]_vars
  PROVE  HarnessInv'
<1>1. CASE \E w \in Workers : Respond(w)
  BY <1>1, RespondKeeps
<1>2. CASE EndWarmup("ingestWarmup", "ingest")
  BY <1>2, EndWarmupKeeps
<1>3. CASE EndWarmup("queryWarmup", "query")
  BY <1>3, EndWarmupKeeps
<1>4. CASE UNCHANGED vars
  <2> USE <1>4 DEF vars, loadVars, HarnessInv
  <2>1. Waiters' = Waiters
    BY DEF Waiters
  <2>2. StateOK' /\ CountsOK'
    BY <2>1 DEF StateOK, CountsOK
  <2>3. SharesOK'
    BY <2>1 DEF SharesOK
  <2>4. FlawIsCounted' /\ StoredIsWhole' /\ (outcome' = "published" => Clean')
    BY DEF FlawIsCounted, StoredIsWhole, Clean
  <2> QED
    BY <2>2, <2>3, <2>4
<1> QED
  BY <1>1, <1>2, <1>3, <1>4, StartKeeps, EndIngestKeeps, EndQueryKeeps, ProbeKeeps, ReportKeeps
  DEF Next

LEMMA HarnessTypes == HarnessInv => TypeOK
<1> SUFFICES ASSUME HarnessInv PROVE TypeOK
  OBVIOUS
<1>1. repeat \in 1..Repeats \cup {1}
  BY HarnessAssumption DEF HarnessInv, StateOK
<1>2. waiting \in [Workers -> Nat] /\ runOf \in [Workers -> 0..Measured]
  <2>1. stage = "ingest" => \A w \in Workers : waiting[w] \in 0..Measured
    BY HarnessAssumption DEF HarnessInv, SharesOK, CountsOK, Loads, TotalOf
  <2> QED
    BY <2>1, HarnessAssumption DEF HarnessInv, SharesOK
<1>3. cursor = samples + Cardinality({w \in Workers : waiting[w] # 0})
  BY DEF HarnessInv, CountsOK, Waiters
<1>4. stage \in Loads => cursor \in 0..TotalOf[stage]
  BY TotalType DEF HarnessInv, CountsOK
<1> QED
  BY <1>1, <1>2, <1>3, <1>4 DEF TypeOK, HarnessInv, StateOK, CountsOK

LEMMA HarnessShares == HarnessInv => IterationsAreShared
<1> SUFFICES ASSUME HarnessInv PROVE IterationsAreShared
  OBVIOUS
<1>1. SharesOK /\ CountsOK
  BY DEF HarnessInv
<1>2. \A v, w \in Workers :
        v # w /\ waiting[v] # 0 /\ waiting[w] # 0 =>
          /\ waiting[v] # waiting[w]
          /\ runOf[v] # 0 => runOf[v] # runOf[w]
  BY <1>1 DEF SharesOK
<1>3. ASSUME stage \in Loads
      PROVE  /\ answered \cup {waiting[w] : w \in Workers} = 1..cursor \cup
                   (IF \E w \in Workers : waiting[w] = 0 THEN {0} ELSE {})
             /\ answered \cap {waiting[w] : w \in Workers} = {}
             /\ LoadEnds(stage) => answered = 1..TotalOf[stage]
  <2> DEFINE waited == {waiting[w] : w \in Workers}
  <2>1. \A i : i \in waited <=> \E w \in Workers : waiting[w] = i
    OBVIOUS
  <2>2. \A w \in Workers : waiting[w] = 0 \/ waiting[w] \in 1..cursor
    BY <1>1 DEF SharesOK, CountsOK
  <2> HIDE DEF waited
  <2>3. answered \cup waited = 1..cursor \cup
          (IF \E w \in Workers : waiting[w] = 0 THEN {0} ELSE {})
    <3>1. \A i : i \in waited => i = 0 \/ i \in 1..cursor
      BY <2>1, <2>2
    <3>2. 0 \in waited <=> \E w \in Workers : waiting[w] = 0
      BY <2>1
    <3>3. answered \subseteq 1..cursor /\ \A i \in 1..cursor : i \in answered \/ i \in waited
      BY <1>1, <2>1 DEF SharesOK
    <3> QED
      BY <3>1, <3>2, <3>3
  <2>4. answered \cap waited = {}
    BY <1>1, <2>1 DEF SharesOK
  <2>5. LoadEnds(stage) => answered = 1..TotalOf[stage]
    BY <1>1, <1>3, LoadIsAnswered
  <2> QED
    BY <2>3, <2>4, <2>5 DEF waited
<1> QED
  BY <1>2, <1>3 DEF IterationsAreShared

\* The harness keeps its invariant, however many workers share a load and
\* however many iterations and repeats there are.
THEOREM HarnessInductive == Spec => []HarnessInv
<1>1. HarnessInv /\ [Next]_vars => HarnessInv'
  BY HarnessStep
<1> QED
  BY <1>1, HarnessInitially, PTL DEF Spec

=============================================================================

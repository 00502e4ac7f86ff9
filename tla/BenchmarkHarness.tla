-------------------------- MODULE BenchmarkHarness -------------------------
(***************************************************************************)
(* benchmarks/run.ts: workers that share a cursor put a load of requests   *)
(* on the service, load after load and repeat after repeat, and the        *)
(* harness publishes a result only if it finds nothing wrong.  A request   *)
(* may fail before or after it took effect; a handler switches to another  *)
(* worker only while it waits for the response.                            *)
(***************************************************************************)
EXTENDS Integers, FiniteSets

CONSTANTS
  Concurrency,  \* mode.concurrency
  Warmups,      \* mode.warmupIterations
  Measured,     \* mode.measuredIterations
  Repeats       \* mode.repeat

ASSUME HarnessAssumption ==
  /\ Concurrency \in Nat \ {0}
  /\ Warmups \in Nat
  /\ Measured \in Nat
  /\ Repeats \in Nat

Workers == 1..Concurrency

Loads == {"ingestWarmup", "ingest", "queryWarmup", "query"}

TotalOf ==
  [ingestWarmup |-> Warmups, ingest |-> Measured, queryWarmup |-> Warmups, query |-> Measured]

Outcomes == {"none", "published", "printed", "failed"}

VARIABLES
  calibration,  \* whether the harness was started with --calibrate
  stage,        \* the load under way, or what comes before and after the loads
  repeat,       \* the repeat under way
  cursor,       \* runLoad: iterations taken
  nextRun,      \* executeRepeat: run ids taken by the measured ingestion
  waiting,      \* the iteration whose response each worker waits for, or 0
  runOf,        \* index of the run that iteration posts, in a measured ingestion
  failures,     \* runLoad: failed iterations
  samples,      \* runLoad: latencies recorded
  measured,     \* the failures of the measured loads of all repeats
  stored,       \* the service: the measured runs it has stored, by repeat
  outcome,      \* what the harness has come to
  answered,     \* history: iterations of this load that have been answered
  flawed        \* history: whether any request was not answered as it should

loadVars == <<cursor, nextRun, waiting, runOf, failures, samples, answered>>
vars == <<calibration, stage, repeat, loadVars, measured, stored, outcome, flawed>>

Lesser(a, b) == IF a < b THEN a ELSE b

-----------------------------------------------------------------------------
Init ==
  /\ calibration \in BOOLEAN
  /\ stage = "starting"
  /\ repeat = 1
  /\ cursor = 0
  /\ nextRun = 0
  /\ waiting = [w \in Workers |-> 0]
  /\ runOf = [w \in Workers |-> 0]
  /\ failures = 0
  /\ samples = 0
  /\ measured = 0
  /\ stored = {}
  /\ outcome = "none"
  /\ answered = {}
  /\ flawed = FALSE

\* The workers run up to their first await as they are created, in order.
BeginLoad(load) ==
  LET first == Lesser(TotalOf[load], Concurrency)
  IN  /\ stage' = load
      /\ cursor' = first
      /\ waiting' = [w \in Workers |-> IF w <= first THEN w ELSE 0]
      /\ nextRun' = IF load = "ingest" THEN first ELSE nextRun
      /\ runOf' = [w \in Workers |-> IF load = "ingest" /\ w <= first THEN w ELSE 0]
      /\ failures' = 0
      /\ samples' = 0
      /\ answered' = {}

End(what) ==
  /\ stage' = "closed"
  /\ outcome' = what
  /\ UNCHANGED <<loadVars, repeat>>

\* A full run needs a publishable environment before it starts.
Start ==
  /\ stage = "starting"
  /\ \/ /\ IF Repeats > 0
             THEN BeginLoad("ingestWarmup")
             ELSE stage' = "report" /\ UNCHANGED loadVars
        /\ UNCHANGED <<repeat, outcome>>
     \/ ~ calibration /\ End("failed")
  /\ UNCHANGED <<calibration, measured, stored, flawed>>

-----------------------------------------------------------------------------
(* One response, and the worker up to its next await.                      *)

\* Mutant: the loop test admits one iteration too many.
TakeOneMore(w) ==
  IF cursor <= TotalOf[stage]
    THEN /\ cursor' = cursor + 1
         /\ waiting' = [waiting EXCEPT ![w] = cursor + 1]
         /\ IF stage = "ingest"
              THEN nextRun' = nextRun + 1 /\ runOf' = [runOf EXCEPT ![w] = nextRun + 1]
              ELSE UNCHANGED <<nextRun, runOf>>
    ELSE /\ waiting' = [waiting EXCEPT ![w] = 0]
         /\ runOf' = [runOf EXCEPT ![w] = 0]
         /\ UNCHANGED <<cursor, nextRun>>

\* Mutant: the next run id is taken without advancing it.
TakeSameRun(w) ==
  IF cursor < TotalOf[stage]
    THEN /\ cursor' = cursor + 1
         /\ waiting' = [waiting EXCEPT ![w] = cursor + 1]
         /\ IF stage = "ingest"
              THEN nextRun' = nextRun /\ runOf' = [runOf EXCEPT ![w] = nextRun]
              ELSE UNCHANGED <<nextRun, runOf>>
    ELSE /\ waiting' = [waiting EXCEPT ![w] = 0]
         /\ runOf' = [runOf EXCEPT ![w] = 0]
         /\ UNCHANGED <<cursor, nextRun>>

\* The loop test, and the next iteration up to the call of fetch.
Take(w) ==
  IF cursor < TotalOf[stage]
    THEN /\ cursor' = cursor + 1
         /\ waiting' = [waiting EXCEPT ![w] = cursor + 1]
         /\ IF stage = "ingest"
              THEN nextRun' = nextRun + 1 /\ runOf' = [runOf EXCEPT ![w] = nextRun + 1]
              ELSE UNCHANGED <<nextRun, runOf>>
    ELSE /\ waiting' = [waiting EXCEPT ![w] = 0]
         /\ runOf' = [runOf EXCEPT ![w] = 0]
         /\ UNCHANGED <<cursor, nextRun>>

\* What the service may have done and answered: a 201 is a stored run, and a
\* second posting of a run is a 409; a query finds the first run if it is
\* stored; any request may go wrong on its way.
Serve(w, ok) ==
  LET run == <<repeat, runOf[w]>>
  IN  CASE stage = "ingest" ->
             /\ ok => run \notin stored
             /\ stored' \in {stored \cup {run}} \cup (IF ok THEN {} ELSE {stored})
        [] stage \in {"queryWarmup", "query"} ->
             /\ ok => <<repeat, 1>> \in stored
             /\ UNCHANGED stored
        [] stage = "ingestWarmup" -> UNCHANGED stored

Respond(w) ==
  /\ stage \in Loads
  /\ waiting[w] # 0
  /\ \E ok \in BOOLEAN :
       /\ Serve(w, ok)
       /\ failures' = failures + (IF ok THEN 0 ELSE 1)
       /\ flawed' = (flawed \/ ~ ok)
  /\ samples' = samples + 1
  /\ answered' = answered \cup {waiting[w]}
  /\ Take(w)
  /\ UNCHANGED <<calibration, stage, repeat, measured, outcome>>

-----------------------------------------------------------------------------
(* executeRepeat and the top level, between the loads.                     *)

LoadEnds(load) == stage = load /\ \A w \in Workers : waiting[w] = 0

\* A warmup with failures throws.
EndWarmup(load, next) ==
  /\ LoadEnds(load)
  /\ IF failures > 0 THEN End("failed") ELSE BeginLoad(next) /\ UNCHANGED <<repeat, outcome>>
  /\ UNCHANGED <<calibration, measured, stored, flawed>>

\* Without a first run id there is nothing to query.
EndIngest ==
  /\ LoadEnds("ingest")
  /\ measured' = measured + failures
  /\ IF Measured = 0 THEN End("failed") ELSE BeginLoad("queryWarmup") /\ UNCHANGED <<repeat, outcome>>
  /\ UNCHANGED <<calibration, stored, flawed>>

\* Mutant: the failures of the queries are left out of the repeat's sum.
EndQueryUncounted ==
  /\ LoadEnds("query")
  /\ stage' = "probe"
  /\ UNCHANGED <<calibration, repeat, loadVars, measured, stored, outcome, flawed>>

EndQuery ==
  /\ LoadEnds("query")
  /\ measured' = measured + failures
  /\ stage' = "probe"
  /\ UNCHANGED <<calibration, repeat, loadVars, stored, outcome, flawed>>

\* assertFailureSemantics: the second probe is a 409 only for a stored run.
Probe ==
  /\ stage = "probe"
  /\ \/ /\ <<repeat, 1>> \in stored
        /\ \/ /\ repeat < Repeats
              /\ repeat' = repeat + 1
              /\ BeginLoad("ingestWarmup")
           \/ /\ repeat >= Repeats
              /\ stage' = "report"
              /\ UNCHANGED <<repeat, loadVars>>
        /\ UNCHANGED <<outcome, flawed>>
     \/ /\ End("failed")
        /\ flawed' = TRUE
  /\ UNCHANGED <<calibration, measured, stored>>

\* createEvidenceResult and the writing of its result, which may each throw.
EvidenceOutcomes == {"published", "failed"}

\* No request of the measured loads has failed, and there are figures.
Reportable == measured = 0 /\ Repeats > 0

\* Anything else throws; a calibration is printed, a full run is written.
Report ==
  /\ stage = "report"
  /\ \/ ~ Reportable /\ End("failed")
     \/ Reportable /\ calibration /\ End("printed")
     \/ Reportable /\ ~ calibration /\ \E what \in EvidenceOutcomes : End(what)
  /\ UNCHANGED <<calibration, measured, stored, flawed>>

Next ==
  \/ Start
  \/ \E w \in Workers : Respond(w)
  \/ EndWarmup("ingestWarmup", "ingest")
  \/ EndIngest
  \/ EndWarmup("queryWarmup", "query")
  \/ EndQuery
  \/ Probe
  \/ Report

Spec == Init /\ [][Next]_vars

-----------------------------------------------------------------------------
(* Properties.                                                             *)

\* Every variable keeps its type, and no load takes more iterations than it
\* was given: those it took are the samples recorded and the requests on
\* their way.
TypeOK ==
  /\ calibration \in BOOLEAN
  /\ stage \in Loads \cup {"starting", "probe", "report", "closed"}
  /\ repeat \in 1..Repeats \cup {1}
  /\ nextRun \in 0..Measured
  /\ waiting \in [Workers -> Nat]
  /\ runOf \in [Workers -> 0..Measured]
  /\ failures \in 0..samples
  /\ measured \in Nat
  /\ stored \subseteq (1..Repeats) \X (1..Measured)
  /\ outcome \in Outcomes
  /\ flawed \in BOOLEAN
  /\ cursor = samples + Cardinality({w \in Workers : waiting[w] # 0})
  /\ stage \in Loads => cursor \in 0..TotalOf[stage]

\* A published result had no failed request at all, in any load or repeat
\* and through whichever worker, and the service holds every run that was
\* measured (runLoad, executeRepeat and the check of the failures).
PublishedIsClean ==
  outcome = "published" =>
    /\ ~ flawed
    /\ stored = (1..Repeats) \X (1..Measured)

\* Workers share the iterations of a load out among themselves: none is
\* taken twice or skipped, each measured ingestion posts a run id of its
\* own among those on their way, and when the last worker ends all of them
\* have been answered.
IterationsAreShared ==
  /\ \A v, w \in Workers :
       v # w /\ waiting[v] # 0 /\ waiting[w] # 0 =>
         /\ waiting[v] # waiting[w]
         /\ runOf[v] # 0 => runOf[v] # runOf[w]
  /\ stage \in Loads =>
       /\ answered \cup {waiting[w] : w \in Workers} = 1..cursor \cup
            (IF \E w \in Workers : waiting[w] = 0 THEN {0} ELSE {})
       /\ answered \cap {waiting[w] : w \in Workers} = {}
       /\ LoadEnds(stage) => answered = 1..TotalOf[stage]

=============================================================================

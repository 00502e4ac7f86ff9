-------------------------- MODULE QueryComparison --------------------------
(***************************************************************************)
(* compareBenchmarkRuns: which runs may be compared with each other, and   *)
(* the differences it reports.  The runs are read in one statement; what   *)
(* follows is a pair of nested loops over the candidates and the metrics   *)
(* of the baseline that returns at the first obstacle.  Runs may be        *)
(* ingested while a comparison waits for its statement.                    *)
(***************************************************************************)
EXTENDS ComparisonDomain, SequencesExt

VARIABLES
  table,      \* benchmark_runs
  asked,      \* the arguments of the comparison under way
  stage,      \* where it is
  runs,       \* the runs found, as compared
  candidate,  \* index in runs of the candidate, in the outer loop
  metric,     \* index of the baseline's metric, in the inner loop
  deltas,     \* metricDeltas
  verdict     \* the reason to refuse, comparable, failed, or pending

vars == <<table, asked, stage, runs, candidate, metric, deltas, verdict>>

loopVars == <<runs, candidate, metric, deltas>>

-----------------------------------------------------------------------------
(* The helpers.                                                            *)

\* The k-th of some positions, and the elements of a sequence at them.
Place(positions, k) == CHOOSE i \in positions : Cardinality({j \in positions : j <= i}) = k

At(seq, positions) == [k \in 1..Cardinality(positions) |-> seq[Place(positions, k)]]

\* The ids asked for, each once.
Normalized(args) == At([i \in DOMAIN args |-> Trim[args[i]]], FirstOccurrences(args))

\* Mutant: the rows in whatever order the statement returned them.
InRowOrder(ids) == SetToSeq({table[id] : id \in ToSet(ids) \cap DOMAIN table})

\* The runs found, in the order they were requested.
InRequestedOrder(ids) ==
  LET found == At(ids, {i \in DOMAIN ids : ids[i] \in DOMAIN table})
  IN  [i \in DOMAIN found |-> table[found[i]]]

\* Mutant: metrics are paired by position.
MatchingAt(run, name) == IF run.metrics # <<>> /\ run.metrics[1].name = name THEN {1} ELSE {}

\* metrics.find by name: the index of the metric, if there is one.
Matching(run, name) == {j \in DOMAIN run.metrics : run.metrics[j].name = name}

\* Mutant: units and directions are not compared.
AlwaysCompatible(a, b) == TRUE

Compatible(a, b) == a.unit = b.unit

\* Doubles are integers here, of which one more than the greatest stands for
\* Infinity.
Infinity == MaxFloat + 1

IsFinite(x) == -MaxFloat <= x /\ x <= MaxFloat

Double(x) == IF IsFinite(x) THEN x ELSE IF x > 0 THEN Infinity ELSE -Infinity

\* A zero baseline has no percentage; the ratio stands for it otherwise.
Percent(absolute, base) ==
  IF base = 0 THEN <<>> ELSE <<absolute, base>>

Delta(base, run, m, n) ==
  LET absolute == Double(n.value - m.value)
  IN  [ metricName     |-> m.name,
        unit           |-> m.unit,
        baselineRunId  |-> base.run_id,
        candidateRunId |-> run.run_id,
        absoluteDelta  |-> absolute,
        percentDelta   |-> Percent(absolute, m.value) ]

\* The refusals that stand before the loops.
CountOK(ids) == Len(ids) \in 2..MaxComparisonRuns

SameKeys(found) == Cardinality({found[i].comparability_key : i \in DOMAIN found}) = 1

-----------------------------------------------------------------------------
Init ==
  /\ table = [id \in {} |-> Blank]
  /\ asked = <<>>
  /\ stage = "idle"
  /\ runs = <<>>
  /\ candidate = 2
  /\ metric = 1
  /\ deltas = <<>>
  /\ verdict = "pending"

Ingest(e) ==
  /\ e.run_id \notin DOMAIN table
  /\ table' = [id \in DOMAIN table \cup {e.run_id} |-> IF id = e.run_id THEN e ELSE table[id]]
  /\ UNCHANGED <<asked, stage, loopVars, verdict>>

Finish(reason) ==
  /\ verdict' = reason
  /\ stage' = "done"

\* Every refusal but the first two carries the runs and no differences.
Refuse(reason) ==
  /\ Finish(reason)
  /\ deltas' = <<>>

Ask(args) ==
  /\ stage = "idle"
  /\ asked' = args
  /\ \/ /\ ~ CountOK(Normalized(args))
        /\ Finish("invalid_query")
     \/ /\ CountOK(Normalized(args))
        /\ stage' = "finding"
        /\ UNCHANGED verdict
  /\ UNCHANGED <<table, loopVars>>

\* Mutant: keys are compared before missing runs are noticed.
FindKeysFirst ==
  /\ stage = "finding"
  /\ LET ids   == Normalized(asked)
         found == InRequestedOrder(ids)
     IN  /\ runs' = found
         /\ \/ /\ ~ SameKeys(found)
               /\ Refuse("keys_differ")
            \/ /\ SameKeys(found)
               /\ Len(found) < Len(ids)
               /\ Refuse("missing_runs")
            \/ /\ SameKeys(found)
               /\ Len(found) = Len(ids)
               /\ stage' = "comparing"
               /\ UNCHANGED <<deltas, verdict>>
  /\ UNCHANGED <<table, asked, candidate, metric>>

Find ==
  /\ stage = "finding"
  /\ LET ids   == Normalized(asked)
         found == InRequestedOrder(ids)
     IN  /\ runs' = found
         /\ \/ /\ Len(found) < Len(ids)
               /\ Refuse("missing_runs")
            \/ /\ Len(found) = Len(ids)
               /\ ~ SameKeys(found)
               /\ Refuse("keys_differ")
            \/ /\ Len(found) = Len(ids)
               /\ SameKeys(found)
               /\ stage' = "comparing"
               /\ UNCHANGED <<deltas, verdict>>
  /\ UNCHANGED <<table, asked, candidate, metric>>

\* The statement fails, and with it the comparison.
FindFails ==
  /\ stage = "finding"
  /\ Finish("failed")
  /\ UNCHANGED <<table, asked, loopVars>>

\* The body of the inner loop.
CompareMetric ==
  /\ stage = "comparing"
  /\ candidate <= Len(runs)
  /\ metric <= Len(runs[1].metrics)
  /\ LET m     == runs[1].metrics[metric]
         found == Matching(runs[candidate], m.name)
     IN  \/ /\ found = {}
            /\ Refuse("metric_missing")
            /\ UNCHANGED metric
         \/ \E j \in found :
              LET n == runs[candidate].metrics[j]
              IN  \/ /\ ~ Compatible(m, n)
                     /\ Refuse("metric_incompatible")
                     /\ UNCHANGED metric
                  \/ /\ Compatible(m, n)
                     /\ deltas' = Append(deltas, Delta(runs[1], runs[candidate], m, n))
                     /\ metric' = metric + 1
                     /\ UNCHANGED <<stage, verdict>>
  /\ UNCHANGED <<table, asked, runs, candidate>>

\* Mutant: the inner loop is not started afresh.
NextCandidateKeepMetric ==
  /\ stage = "comparing"
  /\ candidate <= Len(runs)
  /\ metric > Len(runs[1].metrics)
  /\ candidate' = candidate + 1
  /\ UNCHANGED <<table, asked, stage, runs, metric, deltas, verdict>>

NextCandidate ==
  /\ stage = "comparing"
  /\ candidate <= Len(runs)
  /\ metric > Len(runs[1].metrics)
  /\ candidate' = candidate + 1
  /\ metric' = 1
  /\ UNCHANGED <<table, asked, stage, runs, deltas, verdict>>

Conclude ==
  /\ stage = "comparing"
  /\ candidate > Len(runs)
  /\ Finish("comparable")
  /\ UNCHANGED <<table, asked, loopVars>>

\* The client takes the verdict.
Take ==
  /\ stage = "done"
  /\ asked' = <<>>
  /\ stage' = "idle"
  /\ runs' = <<>>
  /\ candidate' = 2
  /\ metric' = 1
  /\ deltas' = <<>>
  /\ verdict' = "pending"
  /\ UNCHANGED table

Next ==
  \/ \E e \in Documents : Ingest(e)
  \/ \E n \in 0..MaxArguments : \E args \in [1..n -> Arguments] : Ask(args)
  \/ Find
  \/ FindFails
  \/ CompareMetric
  \/ NextCandidate
  \/ Conclude
  \/ Take

Spec == Init /\ [][Next]_vars

-----------------------------------------------------------------------------
(* Properties.                                                             *)

Verdicts == {"pending", "comparable", "invalid_query", "missing_runs", "keys_differ",
             "metric_missing", "metric_incompatible", "failed"}

\* Every variable keeps its type, and the differences gathered so far are
\* those of the pairs the loops have passed.
TypeOK ==
  /\ DOMAIN table \subseteq RunIds
  /\ \A id \in DOMAIN table : table[id] \in Documents /\ table[id].run_id = id
  /\ asked \in Seq(Arguments)
  /\ stage \in {"idle", "finding", "comparing", "done"}
  /\ runs \in Seq(Documents)
  /\ candidate \in 2..Len(runs) + 2
  /\ verdict \in Verdicts
  /\ verdict = "pending" <=> stage # "done"
  /\ stage = "comparing" \/ verdict = "comparable" =>
       Len(deltas) = (candidate - 2) * Len(runs[1].metrics) + metric - 1

\* The position of metric m of candidate c among the differences.
DeltaOf(c, m) == deltas[(c - 2) * Len(runs[1].metrics) + m]

\* Runs are called comparable only if all of them are stored, no run is
\* compared with itself, their keys agree, and every metric of the baseline
\* is in every candidate with its unit and direction; and then there is one
\* difference for each of these pairs, in their order, with a percentage
\* exactly when the baseline's value is not zero (compareBenchmarkRuns).
ComparableIsEarned ==
  verdict = "comparable" =>
    /\ Len(runs) \in 2..MaxComparisonRuns
    /\ \A i \in DOMAIN runs :
         /\ runs[i].run_id \in DOMAIN table
         /\ runs[i].comparability_key = runs[1].comparability_key
         /\ \A j \in DOMAIN runs : runs[i].run_id = runs[j].run_id => i = j
    /\ Len(deltas) = (Len(runs) - 1) * Len(runs[1].metrics)
    /\ \A c \in 2..Len(runs), m \in DOMAIN runs[1].metrics :
         LET base == runs[1].metrics[m]
         IN  \E n \in DOMAIN runs[c].metrics :
               /\ runs[c].metrics[n].name = base.name
               /\ runs[c].metrics[n].unit = base.unit
               /\ DeltaOf(c, m).metricName = base.name
               /\ DeltaOf(c, m).candidateRunId = runs[c].run_id
               /\ IF IsFinite(runs[c].metrics[n].value - base.value)
                    THEN base.value + DeltaOf(c, m).absoluteDelta = runs[c].metrics[n].value
                    ELSE ~ IsFinite(DeltaOf(c, m).absoluteDelta)
               /\ DeltaOf(c, m).percentDelta = <<>> <=> base.value = 0

AskedIds == {Trim[asked[i]] : i \in DOMAIN asked} \ {Blank}

\* A refusal is never wrong: whatever the reason it gives, the runs asked
\* for have that obstacle, and none of the differences gathered before the
\* loops came to it is told (the early returns of compareBenchmarkRuns).
RefusalIsTrue ==
  /\ verdict \notin {"pending", "comparable"} => deltas = <<>>
  /\ verdict = "invalid_query" => Cardinality(AskedIds) \notin 2..MaxComparisonRuns
  /\ verdict = "missing_runs" => {runs[i].run_id : i \in DOMAIN runs} # AskedIds
  /\ verdict = "keys_differ" =>
       \E i, j \in DOMAIN runs : runs[i].comparability_key # runs[j].comparability_key
  /\ verdict = "metric_missing" =>
       \E c \in DOMAIN runs, m \in DOMAIN runs[1].metrics :
         \A n \in DOMAIN runs[c].metrics : runs[c].metrics[n].name # runs[1].metrics[m].name
  /\ verdict = "metric_incompatible" =>
       \E c \in DOMAIN runs, m \in DOMAIN runs[1].metrics : \E n \in DOMAIN runs[c].metrics :
         /\ runs[c].metrics[n].name = runs[1].metrics[m].name
         /\ runs[c].metrics[n].unit # runs[1].metrics[m].unit

FirstAsked(id) ==
  CHOOSE i \in DOMAIN asked :
    Trim[asked[i]] = id /\ \A j \in DOMAIN asked : Trim[asked[j]] = id => i <= j

\* The runs come back in the order they were asked for, also those of a
\* refusal: the first one asked for is the baseline (flatMap over the ids).
RequestedOrderIsKept ==
  \A i, j \in DOMAIN runs :
    i < j => FirstAsked(runs[i].run_id) < FirstAsked(runs[j].run_id)

\* The comparison as its client sees it: once the runs are found the verdict
\* is settled, although the loops have yet to come to it.
Phase ==
  CASE stage = "idle"    -> "idle"
    [] stage = "finding" -> "asked"
    [] OTHER             -> "answered"

Settled == IF stage = "comparing" THEN VerdictOf(asked, table) ELSE verdict

Promise == INSTANCE AtomicComparison WITH phase <- Phase, reply <- Settled

\* The runs are read in one statement, the refusals are made in their order
\* and the loops return at the first obstacle, so that the verdict is what
\* the rows of one moment say, if they can be read (compareBenchmarkRuns).
ImplementsPromise == Promise!Spec

\* Runs whose metrics do not match are not comparable.
MismatchedMetricsAreRejected ==
  verdict = "comparable" =>
    \A i, j \in DOMAIN runs :
      {runs[i].metrics[m].name : m \in DOMAIN runs[i].metrics}
        = {runs[j].metrics[m].name : m \in DOMAIN runs[j].metrics}

=============================================================================

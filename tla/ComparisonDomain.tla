-------------------------- MODULE ComparisonDomain -------------------------
(***************************************************************************)
(* The documents that are compared, and what the verdict on a request for  *)
(* a comparison should be, as one function of the arguments and the rows.  *)
(***************************************************************************)
EXTENDS Integers, FiniteSets, Sequences

CONSTANTS
  RunIds,       \* run ids
  Arguments,    \* the strings a client may pass as run ids
  Trim,         \* what trim() makes of each: a run id, or Blank
  Blank,        \* the empty string
  MetricNames,  \* names of metrics
  Units,        \* a metric's unit and direction, which are only compared
  Keys,         \* comparability keys
  Documents,    \* the evidence that may be ingested
  MaxArguments, \* bound: arguments of one comparison
  MaxComparisonRuns, \* MAX_COMPARISON_RUNS
  MaxFloat      \* the greatest finite double

\* What is measured is finite, or the contract would not admit it.
Metric == [name : MetricNames, value : -MaxFloat..MaxFloat, unit : Units]

\* The measured iterations stand for every count of a document.  Some of the
\* times the contract admits cannot be read by Date: leap seconds.
Evidence ==
  [ run_id            : RunIds,
    comparability_key : Keys,
    metrics           : Seq(Metric),
    iterations        : Nat,
    started_at        : {"time", "leap_second"} ]

\* Ingestion lets no metric name occur twice in a document.
ASSUME ComparisonAssumption ==
  /\ Blank \notin RunIds
  /\ Trim \in [Arguments -> RunIds \cup {Blank}]
  /\ Documents \subseteq Evidence
  /\ \A e \in Documents : \A i, j \in DOMAIN e.metrics :
       e.metrics[i].name = e.metrics[j].name => i = j
  /\ MaxArguments \in Nat
  /\ MaxComparisonRuns \in Nat
  /\ MaxFloat \in Nat

\* The arguments that are not blank, each where it occurs first.
FirstOccurrences(args) ==
  {i \in DOMAIN args :
     Trim[args[i]] # Blank /\ \A j \in 1..(i - 1) : Trim[args[j]] # Trim[args[i]]}

-----------------------------------------------------------------------------
(* The verdict.                                                            *)

Baseline(args) ==
  CHOOSE b \in FirstOccurrences(args) : \A i \in FirstOccurrences(args) : b <= i

\* The run an argument stands for.
RunAt(args, rows, i) == rows[Trim[args[i]]]

Named(run, m) == {n \in DOMAIN run.metrics : run.metrics[n].name = m.name}

Fitting(run, m) == {n \in Named(run, m) : run.metrics[n].unit = m.unit}

BaselineMetrics(args, rows) == RunAt(args, rows, Baseline(args)).metrics

\* The candidates and metrics of the baseline that cannot be compared.
Obstacles(args, rows) ==
  {p \in (FirstOccurrences(args) \ {Baseline(args)}) \X DOMAIN BaselineMetrics(args, rows) :
     Fitting(RunAt(args, rows, p[1]), BaselineMetrics(args, rows)[p[2]]) = {}}

\* The first of them in the order of the candidates, then of the metrics.
FirstOf(pairs) ==
  CHOOSE p \in pairs : \A q \in pairs : p[1] < q[1] \/ (p[1] = q[1] /\ p[2] <= q[2])

\* The reason for which the pair p cannot be compared.
ReasonAt(args, rows, p) ==
  IF Named(RunAt(args, rows, p[1]), BaselineMetrics(args, rows)[p[2]]) = {}
    THEN "metric_missing"
    ELSE "metric_incompatible"

VerdictOf(args, rows) ==
  IF Cardinality(FirstOccurrences(args)) \notin 2..MaxComparisonRuns
    THEN "invalid_query"
  ELSE IF \E i \in FirstOccurrences(args) : Trim[args[i]] \notin DOMAIN rows
    THEN "missing_runs"
  ELSE IF \E i, j \in FirstOccurrences(args) :
            RunAt(args, rows, i).comparability_key # RunAt(args, rows, j).comparability_key
    THEN "keys_differ"
  ELSE IF Obstacles(args, rows) = {}
    THEN "comparable"
  ELSE ReasonAt(args, rows, FirstOf(Obstacles(args, rows)))

=============================================================================

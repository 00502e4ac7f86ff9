\* The same comparisons, and the metrics the runs have.
SPECIFICATION EndpointSpec
CONSTANTS
  RunIds <- MCRunIds
  Arguments <- MCArguments
  Trim <- MCTrim
  Blank = ""
  MetricNames <- MCMetricNames
  Units <- MCUnits
  Keys <- MCKeys
  Documents <- MCDocuments
  MaxArguments = 2
  MaxComparisonRuns = 3
  MaxFloat = 200
  Queries <- MCQueries
  NoQuery = NoQuery
  Leaf = "leaf"
  MaxDepth = 2
  MaxInt = 3
INVARIANTS
  MismatchedMetricsAreRejected

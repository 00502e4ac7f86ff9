\* Up to four arguments, of which two or three distinct runs are accepted.
SPECIFICATION EndpointSpec
CONSTANTS
  RunIds <- MCRunIds
  Arguments <- MCArguments
  Trim <- MCTrim
  Blank = ""
  MetricNames <- MCMetricNames
  Units <- MCUnits
  Keys <- MCKeys
  Documents <- MCDocuments
  MaxArguments = 4
  MaxComparisonRuns = 3
  MaxFloat = 200
  Queries <- MCQueries
  NoQuery = NoQuery
  Leaf = "leaf"
  MaxDepth = 2
  MaxInt = 3
INVARIANTS
  EndpointTypeOK
  ComparableIsEarned
  RefusalIsTrue
  RequestedOrderIsKept
  RepliesAreTrue
PROPERTIES
  ImplementsPromise
  DepthGateIsExact

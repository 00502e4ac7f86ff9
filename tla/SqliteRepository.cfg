\* Two calls at a time, with the fairness of the mutex and the driver.
SPECIFICATION FairSpec
CONSTANTS
  c1 = c1
  c2 = c2
  Callers = {c1, c2}
  Calls <- MCCalls
  None = None
  RunIds <- MCRunIds
  OperableIds <- MCRunIds
  MetricNames <- MCMetricNames
  Documents <- MCDocuments
  Keys <- MCKeys
  Reasons <- MCReasons
INVARIANTS
  TypeOK
  RunsComplete
  HolderWritesAlone
PROPERTIES
  ImplementsPort
  EveryCallReturns

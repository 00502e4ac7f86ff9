\* Commands that the first checks refuse.
SPECIFICATION Spec
CONSTANTS
  s1 = s1
  Slots = {s1}
  None = None
  RunIds <- MCRunIds
  OperableIds <- MCOperableIds
  MetricNames <- MCMetricNames
  Documents <- OneRun
  Keys <- MCKeys
  Reasons <- MCReasons
  Offered <- Malformed
  Contracts <- OneContract
  MaxIngests = 1
INVARIANTS
  MalformedIsBadRequest

\* A revalidation and a quarantine of one run at a time.
SPECIFICATION Spec
CONSTANTS
  s1 = s1
  s2 = s2
  Slots = {s1, s2}
  None = None
  RunIds <- MCRunIds
  OperableIds <- MCOperableIds
  MetricNames <- MCMetricNames
  Documents <- OneRun
  Keys <- MCKeys
  Reasons <- MCReasons
  Offered <- OnOneRun
  Contracts <- OneContract
  MaxIngests = 1
PROPERTIES
  RevalidationKeepsStatus

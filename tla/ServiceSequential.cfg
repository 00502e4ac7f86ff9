\* One request at a time, every input, and a contract that may change at a restart.
SPECIFICATION Spec
CONSTANTS
  s1 = s1
  Slots = {s1}
  None = None
  RunIds <- MCRunIds
  OperableIds <- MCOperableIds
  MetricNames <- MCMetricNames
  Documents <- MCDocuments
  Keys <- MoreKeys
  Reasons <- MCReasons
  Offered <- EveryInput
  Contracts <- MCContracts
  MaxIngests = 1
PROPERTIES
  RevalidationKeepsStatus
  QuarantineBlocksApproval

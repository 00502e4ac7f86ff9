\* One client that replays its commands.
SPECIFICATION Spec
CONSTANTS
  s1 = s1
  Slots = {s1}
  None = None
  RunIds <- MCRunIds
  OperableIds <- MCOperableIds
  MetricNames <- MCMetricNames
  Documents <- OneRun
  Keys <- MCKeys
  Reasons <- MCReasons
  Offered <- OnOneRun
  Contracts <- OneContract
  MaxIngests = 1
PROPERTIES
  ReplayReturnsReceipt

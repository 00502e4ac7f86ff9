\* Two requests at a time, on two runs that contend for two keys.
SPECIFICATION Spec
CONSTANTS
  s1 = s1
  s2 = s2
  Slots = {s1, s2}
  None = None
  RunIds <- MCRunIds
  OperableIds <- MCOperableIds
  MetricNames <- MCMetricNames
  Documents <- TwoRuns
  Keys <- MCKeys
  Reasons <- MCReasons
  Offered <- OnTwoRuns
  Contracts <- OneContract
  MaxIngests = 2
SYMMETRY SlotSymmetry
INVARIANTS
  TypeOK
  IInv
  StatusFollowsAudit
  KeyAppliedOnce
  RevalidationInventsNoStatus
  ApprovalIsEarned
  AnswersAreTrue
  IngestionTally
PROPERTIES
  AuditIsAppendOnly
  UnguardedReplayReturnsReceipt

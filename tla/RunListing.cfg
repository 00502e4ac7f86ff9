\* A client walks the listing while runs are ingested and change their status.
SPECIFICATION Spec
CONSTANTS
  Runs <- MCRuns
  Statuses <- MCStatuses
  Accepted = "ACCEPTED"
  NoFilter = "any"
  Offsets <- MCOffsets
  Firsts <- MCFirsts
  MaxFirst = 2
  MaxWrites = 2
INVARIANTS
  TypeOK
  OnlyDeparturesHideRuns
  NextPageHasRows
PROPERTIES
  OnlyIngestionRepeatsRuns

\* New and older files, and boots that stop up to three times at any statement.
SPECIFICATION Spec
CONSTANTS
  RunIds <- MCRunIds
  NoStatus = "none"
  MaxStops = 3
INVARIANTS
  TypeOK
  ReadyMeansComplete
  IndexesCanBeCreated
PROPERTIES
  BootKeepsStatuses
  BootCompletes

\* Two repeats of loads of up to four iterations, shared by three workers;
\* audits of five lockfiles with up to three advisories.
SPECIFICATION ScriptsSpec
CONSTANTS
  Concurrency = 3
  Warmups = 2
  Measured = 4
  Repeats = 2
  Packages = {"a", "b"}
  Versions = {"1", "2"}
  Lockfiles <- MCLockfiles
  Levels = {"low", "high", "severe"}
  Advisories <- MCAdvisories
  Attempts = 3
  Absent = "absent"
INVARIANTS
  ScriptsTypeOK
  PublishedIsClean
  IterationsAreShared
  ValidatedIsClean
  PassMeansNoAdvisory
  FailureIsJustified
PROPERTIES
  ScriptsEnd
CHECK_DEADLOCK FALSE

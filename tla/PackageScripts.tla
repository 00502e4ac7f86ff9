--------------------------- MODULE PackageScripts ---------------------------
(***************************************************************************)
(* The scripts of package.json that decide what is released: benchmark,    *)
(* which writes benchmarks/results/latest.json, validate:benchmark, which  *)
(* reads it, and audit:dependencies, which shares nothing with them.  A    *)
(* benchmark may be killed at any moment, also while it writes.            *)
(***************************************************************************)
EXTENDS BenchmarkHarness, DependencyAudit

VARIABLES
  script,   \* the script that was started
  killed,   \* whether the benchmark was killed
  latest,   \* benchmarks/results/latest.json
  checked   \* how validate:benchmark ended

scriptVars == <<script, killed, latest, checked>>

allVars == <<vars, auditVars, scriptVars>>

Scripts == {"benchmark", "audit:dependencies"}

\* No file, a result from before, a file cut short, or this benchmark's result.
Files == {"absent", "earlier", "torn", "result"}

ScriptsInit ==
  /\ Init
  /\ AuditInit
  /\ script \in Scripts
  /\ killed = FALSE
  /\ latest \in {"absent", "earlier"}
  /\ checked = "none"

-----------------------------------------------------------------------------
\* The benchmark is about to write its result.
Writing == stage = "report" /\ Reportable /\ ~ calibration

\* writeFileSync empties the file before it writes, and may fail in between.
Benchmark ==
  /\ script = "benchmark"
  /\ ~ killed
  /\ Next
  /\ \/ outcome' = "published" /\ latest' = "result"
     \/ outcome' = "failed" /\ Writing /\ latest' = "torn"
     \/ outcome' # "published" /\ UNCHANGED latest
  /\ UNCHANGED <<auditVars, script, killed, checked>>

Kill ==
  /\ script = "benchmark"
  /\ ~ killed
  /\ stage # "closed"
  /\ killed' = TRUE
  /\ latest' \in {latest} \cup (IF Writing THEN {"torn", "result"} ELSE {})
  /\ UNCHANGED <<vars, auditVars, script, checked>>

\* Mutant: what does not parse is taken for an empty report.
Exists(file) == file # "absent"

\* The file is there and parses.  A benchmark writes no result that has
\* failures in its metrics, so the schema and the failures are in order.
Readable(file) == file \notin {"absent", "torn"}

ValidateBenchmark ==
  /\ script = "benchmark"
  /\ stage = "closed" \/ killed
  /\ checked = "none"
  /\ checked' = IF Readable(latest) THEN "accepted" ELSE "rejected"
  /\ UNCHANGED <<vars, auditVars, script, killed, latest>>

AuditDependencies ==
  /\ script = "audit:dependencies"
  /\ AuditNext
  /\ UNCHANGED <<vars, scriptVars>>

ScriptsNext == Benchmark \/ Kill \/ ValidateBenchmark \/ AuditDependencies

\* fetch rejects after a while if nobody answers, timers fire, and a script
\* that can go on does.
ScriptsSpec ==
  ScriptsInit /\ [][ScriptsNext]_allVars /\ WF_allVars(Benchmark) /\ WF_allVars(AuditDependencies)

-----------------------------------------------------------------------------
(* Properties.                                                             *)

\* Every variable of the scripts keeps its type.
ScriptsTypeOK ==
  /\ TypeOK
  /\ AuditTypeOK
  /\ script \in Scripts
  /\ killed \in BOOLEAN
  /\ latest \in Files
  /\ checked \in {"none", "accepted", "rejected"}

\* A file that validate:benchmark accepts is a whole result: one from before,
\* or one whose benchmark had no failed request and measured every run, also
\* if that benchmark was killed or could not finish writing.
ValidatedIsClean ==
  checked = "accepted" =>
    \/ latest = "earlier"
    \/ latest = "result" /\ ~ flawed /\ stored = (1..Repeats) \X (1..Measured)

\* A script that is not killed ends: no load waits for ever for its last
\* worker, and the audit does not retry for ever.
ScriptsEnd ==
  <>(CASE script = "benchmark" -> stage = "closed" \/ killed
       [] script = "audit:dependencies" -> auditStage = "ended")

=============================================================================

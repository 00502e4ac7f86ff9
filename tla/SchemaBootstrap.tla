-------------------------- MODULE SchemaBootstrap --------------------------
(***************************************************************************)
(* initialize(): how a process brings the database file up to the schema   *)
(* of its version before it serves requests.  Its statements commit one by *)
(* one, each may fail, and the process may die after any of them, so the   *)
(* next process starts from whatever schema they left; the file may also   *)
(* come from a version whose runs had no status.                           *)
(***************************************************************************)
EXTENDS FiniteSets, Integers

CONSTANTS
  RunIds,     \* runs that may be stored
  NoStatus,   \* the status of a row of a table without that column
  MaxStops    \* bound: failures and crashes of one behaviour

ASSUME BootstrapAssumption ==
  /\ NoStatus \notin {"ACCEPTED", "QUARANTINED"}
  /\ MaxStops \in Nat

Tables == {"benchmark_runs", "benchmark_metrics", "evidence_operations"}

Indexes ==
  {"benchmark_runs_project_started_idx", "benchmark_runs_query_idx",
   "benchmark_metrics_name_idx", "evidence_operations_run_idx"}

TableOf ==
  [ index \in Indexes |->
      CASE index = "benchmark_metrics_name_idx"  -> "benchmark_metrics"
        [] index = "evidence_operations_run_idx" -> "evidence_operations"
        [] OTHER                                 -> "benchmark_runs" ]

\* The one index that has a column an older table may lack.
NeedsStatus(index) == index = "benchmark_runs_query_idx"

VARIABLES
  tables,     \* the tables of the file
  hasStatus,  \* whether benchmark_runs has the status column
  indexes,    \* the indexes of the file
  rows,       \* benchmark_runs: the status of every stored run
  stage,      \* the statement initialize runs next, or what the process does
  stops       \* failures and crashes so far

fileVars == <<tables, hasStatus, indexes, rows>>
vars == <<tables, hasStatus, indexes, rows, stage, stops>>

Stages == {"down", "runs", "status", "metrics", "operations", "indexes", "ready"}

NoRows == [id \in {} |-> NoStatus]

\* A new file, or one of the version before the status column with the
\* tables and indexes that do not need it.
Init ==
  /\ \/ /\ tables = {}
        /\ hasStatus = FALSE
        /\ indexes = {}
        /\ rows = NoRows
     \/ /\ tables = {"benchmark_runs", "benchmark_metrics"}
        /\ hasStatus = FALSE
        /\ indexes \in SUBSET {"benchmark_runs_project_started_idx", "benchmark_metrics_name_idx"}
        /\ \E ids \in SUBSET RunIds : rows = [id \in ids |-> NoStatus]
  /\ stage = "down"
  /\ stops = 0

-----------------------------------------------------------------------------
(* initialize.                                                             *)

Start ==
  /\ stage = "down"
  /\ stage' = "runs"
  /\ UNCHANGED <<fileVars, stops>>

\* CREATE TABLE IF NOT EXISTS leaves an older table as it is.
CreateRuns ==
  /\ stage = "runs"
  /\ tables' = tables \cup {"benchmark_runs"}
  /\ hasStatus' = (hasStatus \/ "benchmark_runs" \notin tables)
  /\ stage' = "status"
  /\ UNCHANGED <<indexes, rows, stops>>

\* Mutant: the column is taken to be there whenever the table is.
AddNoStatus ==
  /\ stage = "status"
  /\ stage' = "metrics"
  /\ UNCHANGED <<fileVars, stops>>

\* Mutant: the default is written over the status of every run.
AddStatusAndReset ==
  /\ stage = "status"
  /\ hasStatus' = TRUE
  /\ rows' = [id \in DOMAIN rows |-> "ACCEPTED"]
  /\ stage' = "metrics"
  /\ UNCHANGED <<tables, indexes, stops>>

\* Mutant: the rows of an older table are left without a status.
AddStatusWithoutDefault ==
  /\ stage = "status"
  /\ hasStatus' = TRUE
  /\ stage' = "metrics"
  /\ UNCHANGED <<tables, indexes, rows, stops>>

\* PRAGMA table_info and ALTER TABLE, with no await between them.
AddStatus ==
  /\ stage = "status"
  /\ hasStatus' = TRUE
  /\ rows' = IF hasStatus THEN rows ELSE [id \in DOMAIN rows |-> "ACCEPTED"]
  /\ stage' = "metrics"
  /\ UNCHANGED <<tables, indexes, stops>>

CreateTable(now, table, next) ==
  /\ stage = now
  /\ tables' = tables \cup {table}
  /\ stage' = next
  /\ UNCHANGED <<hasStatus, indexes, rows, stops>>

CreateMetrics == CreateTable("metrics", "benchmark_metrics", "operations")

CreateOperations == CreateTable("operations", "evidence_operations", "indexes")

\* CREATE INDEX throws unless the table and the column are there.
CreateIndex(index) ==
  /\ stage = "indexes"
  /\ index \notin indexes
  /\ TableOf[index] \in tables
  /\ NeedsStatus(index) => hasStatus
  /\ indexes' = indexes \cup {index}
  /\ UNCHANGED <<tables, hasStatus, rows, stage, stops>>

\* Mutant: the promises of the indexes are not awaited.
FinishAtOnce ==
  /\ stage = "indexes"
  /\ stage' = "ready"
  /\ UNCHANGED <<fileVars, stops>>

\* Promise.all waits for the four indexes, whatever their order.
Finish ==
  /\ stage = "indexes"
  /\ indexes = Indexes
  /\ stage' = "ready"
  /\ UNCHANGED <<fileVars, stops>>

Initialize ==
  \/ CreateRuns \/ AddStatus \/ CreateMetrics \/ CreateOperations
  \/ \E index \in Indexes : CreateIndex(index)
  \/ Finish

-----------------------------------------------------------------------------
(* The rest of the process's life.                                         *)

\* A statement fails, the process dies or is stopped; the file stays.
Stop ==
  /\ stage # "down"
  /\ stops < MaxStops
  /\ stops' = stops + 1
  /\ stage' = "down"
  /\ UNCHANGED fileVars

\* What requests do to the file: store a run, and quarantine one.
Serve ==
  /\ stage = "ready"
  /\ \/ \E id \in RunIds \ DOMAIN rows :
          rows' = [x \in DOMAIN rows \cup {id} |-> IF x = id THEN "ACCEPTED" ELSE rows[x]]
     \/ \E id \in DOMAIN rows : rows' = [rows EXCEPT ![id] = "QUARANTINED"]
  /\ UNCHANGED <<tables, hasStatus, indexes, stage, stops>>

Next == Start \/ Initialize \/ Stop \/ Serve

\* A boot that is not stopped goes on to its next statement.  One that can
\* only throw is a statement that cannot succeed: the boot is stuck there.
Fairness == WF_vars(Initialize)

Spec == Init /\ [][Next]_vars /\ Fairness

-----------------------------------------------------------------------------
(* Properties.                                                             *)

\* Every variable keeps its type; rows have a status exactly when their
\* table has the column.
TypeOK ==
  /\ tables \subseteq Tables
  /\ hasStatus \in BOOLEAN
  /\ hasStatus => "benchmark_runs" \in tables
  /\ indexes \subseteq Indexes
  /\ DOMAIN rows \subseteq RunIds
  /\ \A id \in DOMAIN rows :
       IF hasStatus THEN rows[id] \in {"ACCEPTED", "QUARANTINED"} ELSE rows[id] = NoStatus
  /\ stage \in Stages
  /\ stops \in 0..MaxStops

\* A process that serves requests has the whole schema under it, whatever
\* version and whatever interrupted boots the file has been through.
ReadyMeansComplete ==
  stage = "ready" => tables = Tables /\ hasStatus /\ indexes = Indexes

\* A boot that has come to the indexes can create each of them, whatever
\* version the file is of and whatever the earlier boots left of it.
IndexesCanBeCreated ==
  stage = "indexes" =>
    \A index \in Indexes : TableOf[index] \in tables /\ (NeedsStatus(index) => hasStatus)

\* No boot drops a run or changes the status of one that has a status; a
\* run of an older version becomes ACCEPTED (the ALTER TABLE of initialize).
BootKeepsStatuses ==
  [][ stage # "ready" =>
        /\ DOMAIN rows' = DOMAIN rows
        /\ \A id \in DOMAIN rows :
             \/ rows'[id] = rows[id]
             \/ rows[id] = NoStatus /\ rows'[id] = "ACCEPTED" ]_vars

\* A boot that is not stopped comes to serve: no interrupted boot, and no
\* older version, leaves a file that a later boot cannot finish.
BootCompletes == stage = "runs" ~> stage \in {"ready", "down"}

=============================================================================

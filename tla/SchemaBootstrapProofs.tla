------------------------ MODULE SchemaBootstrapProofs -----------------------
(***************************************************************************)
(* Proofs of the safety of SchemaBootstrap, for any runs and any number of *)
(* interrupted boots.  The argument: a boot adds to the file and takes     *)
(* nothing from it, so what a statement of initialize() has established is *)
(* still there for the later ones, and again for the next boot.            *)
(***************************************************************************)
EXTENDS SchemaBootstrap, TLAPS

\* What the statements of this boot have established so far.
BootIsInOrder ==
  /\ stage \in {"status", "metrics", "operations", "indexes", "ready"} =>
       "benchmark_runs" \in tables
  /\ stage \in {"metrics", "operations", "indexes", "ready"} => hasStatus
  /\ stage \in {"operations", "indexes", "ready"} => "benchmark_metrics" \in tables
  /\ stage \in {"indexes", "ready"} => "evidence_operations" \in tables
  /\ stage = "ready" => indexes = Indexes

\* A run is stored only in a table.
RowsHaveTheirTable == "benchmark_runs" \notin tables => DOMAIN rows = {}

IInv == TypeOK /\ BootIsInOrder /\ RowsHaveTheirTable

-----------------------------------------------------------------------------
(* The inductive step.                                                     *)

LEMMA InitIInv == Init => IInv
<1> SUFFICES ASSUME Init
             PROVE  IInv
  OBVIOUS
<1>1. /\ tables \subseteq Tables /\ hasStatus = FALSE /\ indexes \subseteq Indexes
      /\ DOMAIN rows \subseteq RunIds
      /\ \A id \in DOMAIN rows : rows[id] = NoStatus
      /\ "benchmark_runs" \notin tables => DOMAIN rows = {}
  BY DEF Init, NoRows, Tables, Indexes
<1>2. stage = "down" /\ stops = 0 /\ stops \in 0..MaxStops
  BY BootstrapAssumption DEF Init
<1> QED
  BY <1>1, <1>2 DEF IInv, TypeOK, BootIsInOrder, RowsHaveTheirTable, Stages

LEMMA StartOrStop ==
  ASSUME IInv, Start \/ Stop
  PROVE  IInv'
<1>1. stops' \in 0..MaxStops
  BY BootstrapAssumption DEF Start, Stop, IInv, TypeOK
<1>2. stage' \in {"runs", "down"} /\ UNCHANGED <<tables, hasStatus, indexes, rows>>
  BY DEF Start, Stop, fileVars
<1> QED
  BY <1>1, <1>2 DEF IInv, TypeOK, BootIsInOrder, RowsHaveTheirTable, Stages

\* A table that is missing is created with the column, and has no rows.
LEMMA CreateRunsStep ==
  ASSUME IInv, CreateRuns
  PROVE  IInv'
<1>1. /\ tables' = tables \cup {"benchmark_runs"}
      /\ hasStatus' = (hasStatus \/ "benchmark_runs" \notin tables)
      /\ stage' = "status" /\ UNCHANGED <<indexes, rows, stops>>
  BY DEF CreateRuns
<1>2. tables' \subseteq Tables
  BY <1>1 DEF IInv, TypeOK, Tables
<1>3. hasStatus' \in BOOLEAN
  BY <1>1
<1>4. CASE "benchmark_runs" \in tables
  <2>1. hasStatus' = hasStatus
    BY <1>1, <1>4 DEF IInv, TypeOK
  <2> QED
    BY <1>1, <1>2, <2>1 DEF IInv, TypeOK, BootIsInOrder, RowsHaveTheirTable, Stages
<1>5. CASE "benchmark_runs" \notin tables
  <2>1. DOMAIN rows' = {}
    BY <1>1, <1>5 DEF IInv, RowsHaveTheirTable
  <2> QED
    BY <1>1, <1>2, <1>3, <2>1 DEF IInv, TypeOK, BootIsInOrder, RowsHaveTheirTable, Stages
<1> QED
  BY <1>4, <1>5

\* The column comes with a status for the rows that had none.
LEMMA AddStatusStep ==
  ASSUME IInv, AddStatus
  PROVE  IInv'
<1>1. /\ stage = "status" /\ hasStatus' = TRUE /\ stage' = "metrics"
      /\ UNCHANGED <<tables, indexes, stops>>
  BY DEF AddStatus
<1>2. "benchmark_runs" \in tables
  BY <1>1 DEF IInv, BootIsInOrder
<1>3. /\ DOMAIN rows' = DOMAIN rows
      /\ \A id \in DOMAIN rows : rows'[id] \in {"ACCEPTED", "QUARANTINED"}
  BY DEF AddStatus, IInv, TypeOK
<1> QED
  BY <1>1, <1>2, <1>3 DEF IInv, TypeOK, BootIsInOrder, RowsHaveTheirTable, Stages

LEMMA CreateTableStep ==
  ASSUME IInv, CreateMetrics \/ CreateOperations
  PROVE  IInv'
<1>1. CASE CreateMetrics
  <2>1. /\ stage = "metrics" /\ stage' = "operations"
        /\ tables' = tables \cup {"benchmark_metrics"}
        /\ UNCHANGED <<hasStatus, indexes, rows, stops>>
    BY <1>1 DEF CreateMetrics, CreateTable
  <2>2. "benchmark_runs" \in tables /\ hasStatus
    BY <2>1 DEF IInv, BootIsInOrder
  <2> QED
    BY <2>1, <2>2 DEF IInv, TypeOK, BootIsInOrder, RowsHaveTheirTable, Stages, Tables
<1>2. CASE CreateOperations
  <2>1. /\ stage = "operations" /\ stage' = "indexes"
        /\ tables' = tables \cup {"evidence_operations"}
        /\ UNCHANGED <<hasStatus, indexes, rows, stops>>
    BY <1>2 DEF CreateOperations, CreateTable
  <2>2. "benchmark_runs" \in tables /\ hasStatus /\ "benchmark_metrics" \in tables
    BY <2>1 DEF IInv, BootIsInOrder
  <2> QED
    BY <2>1, <2>2 DEF IInv, TypeOK, BootIsInOrder, RowsHaveTheirTable, Stages, Tables
<1> QED
  BY <1>1, <1>2

LEMMA CreateIndexStep ==
  ASSUME IInv, NEW index \in Indexes, CreateIndex(index)
  PROVE  IInv'
<1>1. /\ stage = "indexes" /\ indexes' = indexes \cup {index}
      /\ UNCHANGED <<tables, hasStatus, rows, stage, stops>>
  BY DEF CreateIndex
<1> QED
  BY <1>1 DEF IInv, TypeOK, BootIsInOrder, RowsHaveTheirTable

LEMMA FinishStep ==
  ASSUME IInv, Finish
  PROVE  IInv'
BY DEF Finish, fileVars, IInv, TypeOK, BootIsInOrder, RowsHaveTheirTable, Stages

\* Requests meet a table with the column, and write a status into it.
LEMMA ServeStep ==
  ASSUME IInv, Serve
  PROVE  IInv'
<1>1. stage = "ready" /\ UNCHANGED <<tables, hasStatus, indexes, stage, stops>>
  BY DEF Serve
<1>2. "benchmark_runs" \in tables /\ hasStatus
  BY <1>1 DEF IInv, BootIsInOrder
<1>3. DOMAIN rows' \subseteq RunIds
  BY DEF Serve, IInv, TypeOK
<1>4. \A id \in DOMAIN rows' : rows'[id] \in {"ACCEPTED", "QUARANTINED"}
  BY <1>2 DEF Serve, IInv, TypeOK
<1> QED
  BY <1>1, <1>2, <1>3, <1>4 DEF IInv, TypeOK, BootIsInOrder, RowsHaveTheirTable

LEMMA NextIInv == IInv /\ [Next]_vars => IInv'
<1> SUFFICES ASSUME IInv, [Next]_vars
             PROVE  IInv'
  OBVIOUS
<1>1. CASE Initialize
  BY <1>1, CreateRunsStep, AddStatusStep, CreateTableStep, CreateIndexStep, FinishStep
     DEF Initialize
<1>2. CASE Start \/ Stop
  BY <1>2, StartOrStop
<1>3. CASE Serve
  BY <1>3, ServeStep
<1>4. CASE UNCHANGED vars
  BY <1>4 DEF vars, IInv, TypeOK, BootIsInOrder, RowsHaveTheirTable
<1> QED
  BY <1>1, <1>2, <1>3, <1>4 DEF Next

-----------------------------------------------------------------------------
(* The theorems.                                                           *)

\* Every statement of a boot finds what the earlier ones have established.
THEOREM Inductive == Spec => []IInv
<1> QED
  BY InitIInv, NextIInv, PTL DEF Spec

\* Every variable keeps its type; rows have a status exactly when their
\* table has the column.
THEOREM TypeCorrect == Spec => []TypeOK
<1>1. IInv => TypeOK
  BY DEF IInv
<1> QED
  BY <1>1, Inductive, PTL

\* A process that serves requests has the whole schema under it, however
\* many boots were interrupted and wherever (initialize).
THEOREM ServesOnWholeSchema == Spec => []ReadyMeansComplete
<1>1. IInv => ReadyMeansComplete
  BY DEF IInv, TypeOK, BootIsInOrder, ReadyMeansComplete, Tables
<1> QED
  BY <1>1, Inductive, PTL

\* No boot meets an index that it cannot create, whatever the earlier ones
\* left: what BootCompletes needs of the file (CREATE INDEX of initialize).
THEOREM NoBootIsStuck == Spec => []IndexesCanBeCreated
<1>1. IInv => IndexesCanBeCreated
  BY DEF IInv, BootIsInOrder, IndexesCanBeCreated, Indexes, TableOf, NeedsStatus
<1> QED
  BY <1>1, Inductive, PTL

\* No boot drops a run or changes the status of one that has a status; a
\* run of an older version becomes ACCEPTED (ALTER TABLE of initialize).
THEOREM BootsAreHarmless == Spec => BootKeepsStatuses
<1> DEFINE P == stage # "ready" =>
                  /\ DOMAIN rows' = DOMAIN rows
                  /\ \A id \in DOMAIN rows :
                       \/ rows'[id] = rows[id]
                       \/ rows[id] = NoStatus /\ rows'[id] = "ACCEPTED"
<1>1. ASSUME IInv, [Next]_vars
      PROVE  P
  <2>1. CASE AddStatus
    BY <1>1, <2>1 DEF AddStatus, IInv, TypeOK
  <2>2. CASE Serve
    BY <2>2 DEF Serve
  <2>3. CASE rows' = rows
    BY <2>3
  <2>4. AddStatus \/ Serve \/ rows' = rows
    BY <1>1 DEF Next, Start, Stop, Initialize, CreateRuns, CreateMetrics, CreateOperations,
       CreateTable, CreateIndex, Finish, vars, fileVars
  <2> QED
    BY <2>1, <2>2, <2>3, <2>4
<1> QED
  BY <1>1, Inductive, PTL DEF Spec, BootKeepsStatuses

=============================================================================

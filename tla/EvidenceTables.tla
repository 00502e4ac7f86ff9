--------------------------- MODULE EvidenceTables ---------------------------
(***************************************************************************)
(* The rows of the two tables the service decides on, benchmark_runs and   *)
(* evidence_operations, and what the statements of the SQLite repository   *)
(* select from them and write to them.  benchmark_runs is a function from  *)
(* the stored run ids to rows; evidence_operations is the sequence of its  *)
(* rows in the order they were inserted.                                   *)
(***************************************************************************)
EXTENDS EvidenceDomain

RunRow == [evidence : Evidence, status : EvidenceStatus]

NoRuns == [id \in {} |-> None]

\* INSERT of a run whose id is not taken; status ACCEPTED.
WithRun(table, e) ==
  [ id \in DOMAIN table \cup {e.run_id} |->
      IF id = e.run_id THEN [evidence |-> e, status |-> "ACCEPTED"] ELSE table[id] ]

\* Mutant: the UPDATE is limited to runs that are not quarantined.
WithStatusUnlessQuarantined(table, id, status) ==
  IF table[id].status = "QUARANTINED" THEN table ELSE [table EXCEPT ![id].status = status]

\* UPDATE benchmark_runs SET status, which has no condition on the old one.
WithStatus(table, id, status) == [table EXCEPT ![id].status = status]

\* SELECT from evidence_operations WHERE idempotency_key; the column is UNIQUE.
KeyUsed(log, key) == \E i \in DOMAIN log : log[i].key = key

OperationOf(log, key) == CHOOSE i \in DOMAIN log : log[i].key = key

\* Mutant: only the command is compared.
SameCommand(row, t) == row.command = t.command

SamePayload(row, t) ==
  /\ row.runId = t.runId
  /\ row.command = t.command
  /\ row.digest = t.digest

\* A receipt; randomUUID is fresh, so the position of the row stands for it.
Receipt(i, row) == [operationId |-> i, runId |-> row.runId, status |-> row.receipt]

Receipts == [operationId : Nat \ {0}, runId : RunIds, status : ReceiptStatuses]

=============================================================================

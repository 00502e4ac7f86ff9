--------------------------- MODULE EvidenceStore ----------------------------
(***************************************************************************)
(* The store port of the application (EvidenceWriter, EvidenceReader and   *)
(* EvidenceOperator): its two tables, and what one call does to them when  *)
(* it runs alone.  AtomicRepository adds the callers; SqliteRepository is  *)
(* the adapter, with its statements and its connection mutex, and does no  *)
(* more and no less; the handlers of EvidenceService call the port.        *)
(***************************************************************************)
EXTENDS EvidenceTables

VARIABLES
  runs,        \* benchmark_runs
  operations   \* evidence_operations

storeVars == <<runs, operations>>

StoreTypeOK ==
  /\ DOMAIN runs \subseteq RunIds
  /\ IsFiniteSet(DOMAIN runs)
  /\ runs \in [DOMAIN runs -> RunRow]
  /\ operations \in Seq(TransitionRequest)

StoreInit ==
  /\ runs = NoRuns
  /\ operations = <<>>

Stored(id) == id \in DOMAIN runs

\* Mutant: ON CONFLICT(run_id) DO UPDATE.
UpsertRun(e) ==
  /\ runs' = WithRun(runs, e)
  /\ UNCHANGED operations

\* insert: ON CONFLICT(run_id) DO NOTHING, then the metric rows.
InsertRun(e) ==
  /\ ~ Stored(e.run_id)
  /\ runs' = WithRun(runs, e)
  /\ UNCHANGED operations

-----------------------------------------------------------------------------
(* transition: the four results of OperationTransitionResult.              *)

IsReplay(t) ==
  KeyUsed(operations, t.key) /\ SamePayload(operations[OperationOf(operations, t.key)], t)

\* Mutant: every reuse of a key is a conflict.
IsReuse(t) == KeyUsed(operations, t.key)

IsConflict(t) ==
  KeyUsed(operations, t.key) /\ ~ SamePayload(operations[OperationOf(operations, t.key)], t)

IsMissing(t) == ~ KeyUsed(operations, t.key) /\ ~ Stored(t.runId)

\* Mutant: a key is unique for its run only.
IsFreshForRun(t) ==
  /\ \A i \in DOMAIN operations : operations[i].key # t.key \/ operations[i].runId # t.runId
  /\ Stored(t.runId)

IsFresh(t) == ~ KeyUsed(operations, t.key) /\ Stored(t.runId)

ApplyTransition(t) ==
  /\ IsFresh(t)
  /\ runs' = WithStatus(runs, t.runId, t.target)
  /\ operations' = Append(operations, t)

=============================================================================

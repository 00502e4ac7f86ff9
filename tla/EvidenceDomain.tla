--------------------------- MODULE EvidenceDomain ---------------------------
(***************************************************************************)
(* The vocabulary of the evidence service: the benchmark documents it      *)
(* stores, the operational commands it accepts, and the rules of           *)
(* operate-evidence.ts that turn a command into a status transition.  No   *)
(* state lives here; the store and the request handlers do.                *)
(***************************************************************************)
EXTENDS Integers, Sequences, FiniteSets

LOCAL INSTANCE Functions

CONSTANTS
  RunIds,       \* run ids that satisfy the contract's "format": "uuid"
  OperableIds,  \* those of them that UUID_PATTERN of operate-evidence.ts matches
  MetricNames,  \* names a metric may carry
  Documents,    \* ingestion bodies that may be posted
  Keys,         \* Idempotency-Key values of 8 to 128 characters
  Reasons,      \* trimmed reasons of 3 to 1000 characters
  None          \* an absent or unacceptable input

Metric == [name : MetricNames, failures : Nat]

Evidence == [run_id : RunIds, metrics : Seq(Metric)]

ASSUME DomainAssumption ==
  /\ OperableIds \subseteq RunIds
  /\ Documents \subseteq Evidence
  /\ None \notin RunIds \cup Keys \cup Reasons

EvidenceStatus ==
  {"ACCEPTED", "QUARANTINED", "PUBLICATION_APPROVED", "PUBLICATION_REJECTED"}

ReceiptStatuses ==
  {"validated", "quarantined", "publication_approved", "publication_rejected"}

-----------------------------------------------------------------------------
(* Rules about one document.                                               *)

\* The reduce over metric.failures in decidePublication.
TotalFailures(e) ==
  SumFunction([i \in DOMAIN e.metrics |-> e.metrics[i].failures])

HasFailures(e) == TotalFailures(e) > 0

MetricNamesOf(e) == {e.metrics[i].name : i \in DOMAIN e.metrics}

\* new Set(metricNames).size === metricNames.length
MetricNamesUnique(e) == Cardinality(MetricNamesOf(e)) = Len(e.metrics)

-----------------------------------------------------------------------------
(* Operational commands as the client sends them.  A decision that is      *)
(* neither 'approve' nor 'reject', a reason that is missing or has the     *)
(* wrong length, and a missing or misfitting key are None.                 *)

Commands == {"revalidate", "quarantine", "publication_decision"}

OperationRequest ==
  [ command  : Commands,
    runId    : RunIds,
    key      : Keys \cup {None},
    decision : {"approve", "reject", None},
    reason   : Reasons \cup {None} ]

\* readDecision runs outside mapErrors, before every other check.
DecisionReadable(q) ==
  q.command = "publication_decision" => q.decision # None

\* requireIdempotencyKey, readReason, validateIdentifiers, validateReason.
InputsValid(q) ==
  /\ q.runId \in OperableIds
  /\ q.key # None
  /\ q.command # "revalidate" => q.reason # None

IsApproval(q) == q.command = "publication_decision" /\ q.decision = "approve"

\* sha256 of the command payload, taken to be collision free: the payload itself.
DigestOf(q) ==
  [command |-> q.command, runId |-> q.runId, decision |-> q.decision, reason |-> q.reason]

\* Mutant: decidePublication forgets the measured failures.
BlockedByQuarantineOnly(q, e, status) == IsApproval(q) /\ status = "QUARANTINED"

\* Mutant: decidePublication forgets the quarantine.
BlockedByFailuresOnly(q, e, status) == IsApproval(q) /\ HasFailures(e)

\* The blockers of decidePublication, for a stored run and the status read.
Blocked(q, e, status) ==
  IsApproval(q) /\ (HasFailures(e) \/ status = "QUARANTINED")

\* Mutant: a revalidation resets its run to the status of a new one.
TargetStatusReset(q, statusRead) ==
  CASE q.command = "revalidate"  -> "ACCEPTED"
    [] q.command = "quarantine"  -> "QUARANTINED"
    [] IsApproval(q)             -> "PUBLICATION_APPROVED"
    [] OTHER                     -> "PUBLICATION_REJECTED"

\* Mutant: a revalidation is taken for a rejection.
TargetStatusFallThrough(q, statusRead) ==
  CASE q.command = "quarantine"  -> "QUARANTINED"
    [] IsApproval(q)             -> "PUBLICATION_APPROVED"
    [] OTHER                     -> "PUBLICATION_REJECTED"

\* Mutant: targetStatus and receiptStatus of a revalidation are swapped.
TargetStatusSwapped(q, statusRead) ==
  CASE q.command = "revalidate"  -> "validated"
    [] q.command = "quarantine"  -> "QUARANTINED"
    [] IsApproval(q)             -> "PUBLICATION_APPROVED"
    [] OTHER                     -> "PUBLICATION_REJECTED"

\* A revalidation writes back the status it read.
TargetStatus(q, statusRead) ==
  CASE q.command = "revalidate"  -> statusRead
    [] q.command = "quarantine"  -> "QUARANTINED"
    [] IsApproval(q)             -> "PUBLICATION_APPROVED"
    [] OTHER                     -> "PUBLICATION_REJECTED"

ReceiptStatusOf(q) ==
  CASE q.command = "revalidate"  -> "validated"
    [] q.command = "quarantine"  -> "quarantined"
    [] IsApproval(q)             -> "publication_approved"
    [] OTHER                     -> "publication_rejected"

\* OperationTransitionRequest: what apply() hands to the store.
Digests ==
  [ command : Commands, runId : RunIds,
    decision : {"approve", "reject", None}, reason : Reasons \cup {None} ]

TransitionRequest ==
  [ runId : RunIds, command : Commands, key : Keys, digest : Digests,
    target : EvidenceStatus, receipt : ReceiptStatuses ]

TransitionFor(q, statusRead) ==
  [ runId   |-> q.runId,
    command |-> q.command,
    key     |-> q.key,
    digest  |-> DigestOf(q),
    target  |-> TargetStatus(q, statusRead),
    receipt |-> ReceiptStatusOf(q) ]

=============================================================================

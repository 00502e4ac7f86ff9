-------------------------- MODULE EvidenceService ---------------------------
(***************************************************************************)
(* The request handlers of the service over the evidence store.  Node runs *)
(* one handler at a time but switches at every await, so a request is a    *)
(* sequence of steps and the requests of different clients interleave      *)
(* between them:                                                           *)
(*                                                                         *)
(*   ingestion     Post -> Insert -> Finish -> Consume                     *)
(*   revalidation, Post -> Read -> Transition -> Consume                   *)
(*   decision                                                              *)
(*   quarantine    Post -> Transition -> Consume                           *)
(*                                                                         *)
(* A revalidation and a decision read the run in one store call and write  *)
(* its status in another.  The process may crash between any two steps;    *)
(* the tables survive, everything else starts afresh.                      *)
(***************************************************************************)
EXTENDS EvidenceStore

CONSTANTS
  Slots,      \* the requests the process may be serving at a time
  Offered,    \* the operational commands clients may send
  Contracts,  \* the benchmark contracts the service may boot with,
              \* each the set of documents its JSON schema accepts
  MaxIngests  \* bound: ingestion attempts served by one process

ASSUME ServiceAssumption ==
  /\ Offered \subseteq OperationRequest
  /\ Contracts \subseteq SUBSET Documents
  /\ Contracts # {}
  /\ MaxIngests \in Nat
  /\ IsFiniteSet(Slots)

VARIABLES
  pc,        \* where the handler of each slot is
  request,   \* the operational command or ingestion it serves
  pending,   \* the transition handed to apply(), until the store answers
  answer,    \* the response it will send or has sent
  ingested,  \* portfolio_evidence_ingestion_total, by outcome
  contract,  \* the documents the validator built at boot accepts
  baseline   \* history: the number of runs stored when the process booted

handlerVars == <<pc, request, pending, answer>>
processVars == <<ingested, contract, baseline>>
vars == <<storeVars, handlerVars, processVars>>

-----------------------------------------------------------------------------
(* Requests and responses.                                                 *)

IngestRequest == [command : {"ingest"}, document : Documents]

Requests == OperationRequest \cup IngestRequest

\* The body of every response is its error code, or a receipt.
HttpStatus ==
  [ created              |-> 201,
    ok                   |-> 200,
    invalid_evidence     |-> 400,
    invalid_operation    |-> 400,
    run_not_found        |-> 404,
    duplicate_run_id     |-> 409,
    idempotency_conflict |-> 409,
    publication_blocked  |-> 409,
    revalidation_failed  |-> 409,
    internal_error       |-> 500 ]

Outcomes == DOMAIN HttpStatus

Answers == [outcome : Outcomes, receipt : Receipts \cup {None}]

ASSUME NoneAssumption == None \notin Requests \cup TransitionRequest \cup Answers

Says(outcome) == [outcome |-> outcome, receipt |-> None]

Succeeds(i, row) == [outcome |-> "ok", receipt |-> Receipt(i, row)]

\* The label observeIngestion is given, for the outcomes of an ingestion.
IngestLabel ==
  [ created          |-> "accepted",
    invalid_evidence |-> "invalid",
    duplicate_run_id |-> "duplicate",
    internal_error   |-> "error" ]

IngestLabels == {"accepted", "invalid", "duplicate", "error"}

Observe(outcome) == [ingested EXCEPT ![IngestLabel[outcome]] = @ + 1]

NoIngests == [label \in IngestLabels |-> 0]

\* The ingestions the process has counted or is still serving.
IngestsServed ==
  ingested["accepted"] + ingested["invalid"] + ingested["duplicate"] + ingested["error"]
    + Cardinality({s \in Slots : pc[s] \in {"inserting", "finishing"}})

-----------------------------------------------------------------------------
(* Init: a process on an empty database.                                   *)

Phases == {"idle", "inserting", "finishing", "reading", "applying", "answered"}

Idle ==
  /\ pc = [s \in Slots |-> "idle"]
  /\ request = [s \in Slots |-> None]
  /\ pending = [s \in Slots |-> None]
  /\ answer = [s \in Slots |-> None]

Init ==
  /\ StoreInit
  /\ Idle
  /\ ingested = NoIngests
  /\ contract \in Contracts
  /\ baseline = 0

\* The handler of slot s stops and responds.
Respond(s, response) ==
  /\ pc' = [pc EXCEPT ![s] = "answered"]
  /\ pending' = [pending EXCEPT ![s] = None]
  /\ answer' = [answer EXCEPT ![s] = response]

\* The handler of slot s awaits transition(t).
Apply(s, t) ==
  /\ pc' = [pc EXCEPT ![s] = "applying"]
  /\ pending' = [pending EXCEPT ![s] = t]
  /\ UNCHANGED answer

-----------------------------------------------------------------------------
(* Ingestion: EvidenceController.create and IngestBenchmarkRun.execute.    *)

\* A valid body reaches the store; an invalid one is counted and refused.
PostEvidence(s, document) ==
  /\ pc[s] = "idle"
  /\ IngestsServed < MaxIngests
  /\ request' = [request EXCEPT ![s] = [command |-> "ingest", document |-> document]]
  /\ \/ /\ document \in contract
        /\ MetricNamesUnique(document)
        /\ pc' = [pc EXCEPT ![s] = "inserting"]
        /\ UNCHANGED <<pending, answer, ingested>>
     \/ /\ ~ (document \in contract /\ MetricNamesUnique(document))
        /\ Respond(s, Says("invalid_evidence"))
        /\ ingested' = Observe("invalid_evidence")
  /\ UNCHANGED <<storeVars, contract, baseline>>

\* insert resolves to true or to false.
Insert(s) ==
  /\ pc[s] = "inserting"
  /\ \/ /\ InsertRun(request[s].document)
        /\ answer' = [answer EXCEPT ![s] = Says("created")]
     \/ /\ Stored(request[s].document.run_id)
        /\ answer' = [answer EXCEPT ![s] = Says("duplicate_run_id")]
        /\ UNCHANGED storeVars
  /\ pc' = [pc EXCEPT ![s] = "finishing"]
  /\ UNCHANGED <<request, pending, processVars>>

\* The finally block counts the outcome the try and catch blocks left.
Finish(s) ==
  /\ pc[s] = "finishing"
  /\ Respond(s, answer[s])
  /\ ingested' = Observe(answer[s].outcome)
  /\ UNCHANGED <<storeVars, request, contract, baseline>>

-----------------------------------------------------------------------------
(* Operations: OperationsController and OperateEvidence.                   *)

\* The checks made before the first await; a decision that cannot be read
\* is thrown outside mapErrors and becomes an internal error.
PostOperation(s, q) ==
  /\ pc[s] = "idle"
  /\ request' = [request EXCEPT ![s] = q]
  /\ \/ /\ ~ DecisionReadable(q)
        /\ Respond(s, Says("internal_error"))
     \/ /\ DecisionReadable(q)
        /\ ~ InputsValid(q)
        /\ Respond(s, Says("invalid_operation"))
     \/ /\ DecisionReadable(q)
        /\ InputsValid(q)
        /\ q.command = "quarantine"
        /\ Apply(s, TransitionFor(q, "QUARANTINED"))
     \/ /\ DecisionReadable(q)
        /\ InputsValid(q)
        /\ q.command # "quarantine"
        /\ pc' = [pc EXCEPT ![s] = "reading"]
        /\ UNCHANGED <<pending, answer>>
  /\ UNCHANGED <<storeVars, processVars>>

\* findRun, and what revalidate and decidePublication do with the run it
\* returned, up to the call of apply().
Read(s) ==
  /\ pc[s] = "reading"
  /\ LET q   == request[s]
         run == runs[q.runId]
     IN  \/ /\ ~ Stored(q.runId)
            /\ Respond(s, Says("run_not_found"))
         \/ /\ Stored(q.runId)
            /\ q.command = "revalidate"
            /\ run.evidence \notin contract
            /\ Respond(s, Says("revalidation_failed"))
         \/ /\ Stored(q.runId)
            /\ Blocked(q, run.evidence, run.status)
            /\ Respond(s, Says("publication_blocked"))
         \/ /\ Stored(q.runId)
            /\ q.command = "revalidate" => run.evidence \in contract
            /\ ~ Blocked(q, run.evidence, run.status)
            /\ Apply(s, TransitionFor(q, run.status))
  /\ UNCHANGED <<storeVars, request, processVars>>

\* transition resolves to applied, replayed, conflict or not_found.
Transition(s) ==
  /\ pc[s] = "applying"
  /\ LET t == pending[s]
         i == OperationOf(operations, t.key)
     IN  \/ /\ ApplyTransition(t)
            /\ Respond(s, Succeeds(Len(operations) + 1, t))
         \/ /\ IsReplay(t)
            /\ Respond(s, Succeeds(i, operations[i]))
            /\ UNCHANGED storeVars
         \/ /\ IsConflict(t)
            /\ Respond(s, Says("idempotency_conflict"))
            /\ UNCHANGED storeVars
         \/ /\ IsMissing(t)
            /\ Respond(s, Says("run_not_found"))
            /\ UNCHANGED storeVars
  /\ UNCHANGED <<request, processVars>>

\* A store call rejects and its transaction is rolled back.  An ingestion
\* still goes through its finally block.
StoreError(s) ==
  /\ \/ /\ pc[s] \in {"reading", "applying"}
        /\ Respond(s, Says("internal_error"))
     \/ /\ pc[s] = "inserting"
        /\ pc' = [pc EXCEPT ![s] = "finishing"]
        /\ answer' = [answer EXCEPT ![s] = Says("internal_error")]
        /\ UNCHANGED pending
  /\ UNCHANGED <<storeVars, request, processVars>>

-----------------------------------------------------------------------------
\* The client takes its response, or the network loses it; a client that
\* lost a response may send the same request again.
Consume(s) ==
  /\ pc[s] = "answered"
  /\ pc' = [pc EXCEPT ![s] = "idle"]
  /\ request' = [request EXCEPT ![s] = None]
  /\ answer' = [answer EXCEPT ![s] = None]
  /\ UNCHANGED <<storeVars, pending, processVars>>

\* The process stops and another one boots on the same database file,
\* possibly with another BENCHMARK_SCHEMA_PATH.
Restart ==
  /\ pc' = [s \in Slots |-> "idle"]
  /\ request' = [s \in Slots |-> None]
  /\ pending' = [s \in Slots |-> None]
  /\ answer' = [s \in Slots |-> None]
  /\ ingested' = NoIngests
  /\ contract' \in Contracts
  /\ baseline' = Cardinality(DOMAIN runs)
  /\ UNCHANGED storeVars

Step(s) ==
  \/ \E document \in Documents : PostEvidence(s, document)
  \/ Insert(s)
  \/ Finish(s)
  \/ \E q \in Offered : PostOperation(s, q)
  \/ Read(s)
  \/ Transition(s)
  \/ StoreError(s)
  \/ Consume(s)

Next == Restart \/ \E s \in Slots : Step(s)

Spec == Init /\ [][Next]_vars

-----------------------------------------------------------------------------
(* Type invariant.                                                         *)

\* Every variable keeps its type, and a handler holds exactly what its
\* phase needs: a request while it serves one, a transition while the store
\* works on it, a response once it has one.
TypeOK ==
  /\ StoreTypeOK
  /\ pc \in [Slots -> Phases]
  /\ request \in [Slots -> Requests \cup {None}]
  /\ pending \in [Slots -> TransitionRequest \cup {None}]
  /\ answer \in [Slots -> Answers \cup {None}]
  /\ ingested \in [IngestLabels -> Nat]
  /\ contract \in Contracts
  /\ baseline \in Nat
  /\ \A s \in Slots :
       /\ pc[s] \in {"inserting", "finishing"} => request[s] \in IngestRequest
       /\ pc[s] \in {"reading", "applying"} => request[s] \in OperationRequest
       /\ pc[s] = "applying" <=> pending[s] # None
       /\ pc[s] \in {"finishing", "answered"} <=> answer[s] # None
       /\ pc[s] = "finishing" => answer[s].outcome \in DOMAIN IngestLabel

-----------------------------------------------------------------------------
(* Safety.                                                                 *)

OperationsOn(id) == {i \in DOMAIN operations : operations[i].runId = id}

\* The status a run has is the one its latest audited operation gave it, or
\* ACCEPTED when there is none: the audit log explains every status, in
\* whatever order the handlers' transitions reach the store (transition).
StatusFollowsAudit ==
  \A id \in DOMAIN runs :
    \/ OperationsOn(id) = {} /\ runs[id].status = "ACCEPTED"
    \/ \E i \in OperationsOn(id) :
         /\ \A j \in OperationsOn(id) : j <= i
         /\ runs[id].status = operations[i].target

\* An idempotency key takes effect once, for one run, however many clients
\* send it at a time, retry it or reuse it (the lookup of transition).
KeyAppliedOnce ==
  \A i, j \in DOMAIN operations :
    operations[i].key = operations[j].key => i = j

\* A revalidation can only write back a status its run has had before: what
\* it read before its await may be out of date, but it is never invented.
StatusesHad(id, before) ==
  {"ACCEPTED"} \cup {operations[i].target : i \in {j \in OperationsOn(id) : j < before}}

RevalidationInventsNoStatus ==
  \A i \in DOMAIN operations :
    operations[i].command = "revalidate" =>
      operations[i].target \in StatusesHad(operations[i].runId, i)

\* A run is PUBLICATION_APPROVED only if its evidence has no measured
\* failures and an approval of it was audited, even when a revalidation is
\* what wrote the status last (decidePublication, revalidate).
ApprovalIsEarned ==
  \A id \in DOMAIN runs :
    runs[id].status = "PUBLICATION_APPROVED" =>
      /\ ~ HasFailures(runs[id].evidence)
      /\ \E i \in OperationsOn(id) : operations[i].receipt = "publication_approved"

\* What a response says is true of the database, and stays true for as long
\* as the response is on its way: a receipt is a row of the log that carries
\* the key and the payload of this request, a 201 or a duplicate 409 is a
\* stored run, and a key conflict is a key held by another payload.
AnswerIsTrue(s) ==
  LET q == request[s]
      a == answer[s]
  IN  CASE a.outcome = "ok" ->
             \E i \in DOMAIN operations :
               /\ operations[i].key = q.key
               /\ operations[i].digest = DigestOf(q)
               /\ a.receipt = Receipt(i, operations[i])
        [] a.outcome \in {"created", "duplicate_run_id"} -> Stored(q.document.run_id)
        [] a.outcome = "idempotency_conflict" ->
             \E i \in DOMAIN operations :
               operations[i].key = q.key /\ operations[i].digest # DigestOf(q)
        [] OTHER -> TRUE

AnswersAreTrue == \A s \in Slots : answer[s] # None => AnswerIsTrue(s)

\* The ingestion counter agrees with the database: the accepted ingestions
\* of this process are the runs stored since it booted, less those whose
\* handler has not reached its finally block (EvidenceController.create).
IngestionTally ==
  ingested["accepted"]
    + Cardinality({s \in Slots : pc[s] = "finishing" /\ answer[s].outcome = "created"})
    = Cardinality(DOMAIN runs) - baseline

-----------------------------------------------------------------------------
(* The inductive invariant behind these (EvidenceServiceProofs).           *)

\* What every committed operation keeps true: its run is stored, its digest
\* is of its own command, and a target of PUBLICATION_APPROVED, also that of
\* a revalidation, goes back to an approval of a run without failures.
LogIsSound ==
  \A i \in DOMAIN operations :
    /\ operations[i].runId \in DOMAIN runs
    /\ operations[i].digest.runId = operations[i].runId
    /\ operations[i].digest.command = operations[i].command
    /\ operations[i].target = "PUBLICATION_APPROVED" =>
         /\ ~ HasFailures(runs[operations[i].runId].evidence)
         /\ \E j \in OperationsOn(operations[i].runId) :
              operations[j].receipt = "publication_approved"

\* What a transition on its way to the store can rely on, however long it
\* waits: what its handler read is out of date at worst.
Admissible(t) ==
  /\ t.digest.runId = t.runId
  /\ t.digest.command = t.command
  /\ t.command = "revalidate" =>
       Stored(t.runId) /\ t.target \in StatusesHad(t.runId, Len(operations) + 1)
  /\ t.command # "revalidate" /\ t.target = "PUBLICATION_APPROVED" =>
       /\ Stored(t.runId)
       /\ ~ HasFailures(runs[t.runId].evidence)
       /\ t.receipt = "publication_approved"

HandlersAreSound ==
  \A s \in Slots :
    /\ pc[s] = "reading" => InputsValid(request[s])
    /\ pc[s] = "applying" =>
         /\ Admissible(pending[s])
         /\ pending[s].key = request[s].key
         /\ pending[s].digest = DigestOf(request[s])

StoreInv ==
  /\ StoreTypeOK
  /\ StatusFollowsAudit
  /\ KeyAppliedOnce
  /\ RevalidationInventsNoStatus
  /\ LogIsSound

\* The invariants above, strengthened until a step preserves them.
IInv ==
  /\ TypeOK
  /\ StoreInv
  /\ HandlersAreSound
  /\ AnswersAreTrue

-----------------------------------------------------------------------------
(* Action properties.                                                      *)

IsPrefixOf(log, longer) ==
  /\ Len(log) <= Len(longer)
  /\ \A i \in DOMAIN log : longer[i] = log[i]

\* The audit log only grows, a stored run never goes away or changes its
\* evidence, and its status changes only in the step that appends an
\* operation on it.
AuditIsAppendOnly ==
  [][ /\ IsPrefixOf(operations, operations')
      /\ \A id \in DOMAIN runs :
           /\ id \in DOMAIN runs'
           /\ runs'[id].evidence = runs[id].evidence
           /\ runs'[id].status # runs[id].status =>
                /\ Len(operations') = Len(operations) + 1
                /\ operations'[Len(operations')].runId = id
    ]_vars

Responds(s) == pc[s] # "answered" /\ pc'[s] = "answered"

\* Replaying a committed operation whose handler has no precondition on the
\* run's state (a quarantine or a rejection) returns its receipt, unless the
\* store fails: a retry can never be told anything else.
HasCommitted(q) ==
  \E i \in DOMAIN operations : operations[i].key = q.key /\ operations[i].digest = DigestOf(q)

Unguarded(q) ==
  \/ q.command = "quarantine"
  \/ q.command = "publication_decision" /\ q.decision = "reject"

UnguardedReplayReturnsReceipt ==
  [][ \A s \in Slots :
        Responds(s) /\ Unguarded(request'[s]) /\ HasCommitted(request'[s])
          => answer'[s].outcome \in {"ok", "internal_error"} ]_vars

\* The steps that add an operation to the log.
Commits(q, id) ==
  /\ Len(operations') = Len(operations) + 1
  /\ operations'[Len(operations')].runId = id
  /\ operations'[Len(operations')].command = q

\* Revalidation preserves the current status of its run.
RevalidationKeepsStatus ==
  [][ \A id \in DOMAIN runs :
        Commits("revalidate", id) => runs'[id].status = runs[id].status ]_vars

\* No run goes from quarantined to approved in one step.
QuarantineBlocksApproval ==
  [][ \A id \in DOMAIN runs :
        Commits("publication_decision", id) /\ runs[id].status = "QUARANTINED"
          => runs'[id].status # "PUBLICATION_APPROVED" ]_vars

\* Replaying any committed operation returns its receipt.
ReplayReturnsReceipt ==
  [][ \A s \in Slots :
        /\ Responds(s)
        /\ request[s] \in OperationRequest
        /\ HasCommitted(request[s])
        => answer'[s].outcome \in {"ok", "internal_error"} ]_vars

\* A command that fails its validation is answered with a 400.
MalformedIsBadRequest ==
  \A s \in Slots :
    /\ pc[s] = "answered"
    /\ request[s] \in OperationRequest
    /\ ~ (DecisionReadable(request[s]) /\ InputsValid(request[s]))
    => HttpStatus[answer[s].outcome] = 400

=============================================================================

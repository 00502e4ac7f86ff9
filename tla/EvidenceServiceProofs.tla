----------------------- MODULE EvidenceServiceProofs ------------------------
(***************************************************************************)
(* Proofs of the safety of EvidenceService for any number of requests,     *)
(* runs, keys and contracts.  The argument: only two steps change the      *)
(* tables, a fresh insert and a fresh transition.  Each preserves StoreInv *)
(* when the transition is Admissible, and Admissible is stable: what a     *)
(* handler established about a run before its await is about its evidence  *)
(* and its past, and neither can be taken back by the other handlers.      *)
(***************************************************************************)
EXTENDS EvidenceService, FiniteSetTheorems, TLAPS

-----------------------------------------------------------------------------
(* The vocabulary.                                                         *)

\* The payload of an acceptable command is a transition of its type.
LEMMA TransitionForType ==
  ASSUME NEW q \in OperationRequest, NEW status \in EvidenceStatus, q.key # None
  PROVE  TransitionFor(q, status) \in TransitionRequest
<1>1. DigestOf(q) \in Digests
  BY DEF DigestOf, Digests, OperationRequest
<1>2. TargetStatus(q, status) \in EvidenceStatus
  BY DEF TargetStatus, EvidenceStatus
<1>3. ReceiptStatusOf(q) \in ReceiptStatuses
  BY DEF ReceiptStatusOf, ReceiptStatuses
<1> QED
  BY <1>1, <1>2, <1>3 DEF TransitionFor, TransitionRequest, OperationRequest

\* The one way other than a revalidation to reach PUBLICATION_APPROVED.
LEMMA TargetOfCommand ==
  ASSUME NEW q \in OperationRequest, NEW status
  PROVE  /\ q.command = "revalidate" => TargetStatus(q, status) = status
         /\ q.command # "revalidate" /\ TargetStatus(q, status) = "PUBLICATION_APPROVED"
              => IsApproval(q)
         /\ IsApproval(q) => ReceiptStatusOf(q) = "publication_approved"
<1>1. q.command = "revalidate" => TargetStatus(q, status) = status
  BY DEF TargetStatus, IsApproval
<1>2. /\ q.command # "revalidate"
      /\ TargetStatus(q, status) = "PUBLICATION_APPROVED"
      => IsApproval(q)
  BY DEF TargetStatus
<1>3. IsApproval(q) => q.command # "revalidate" /\ q.command # "quarantine"
  BY DEF IsApproval
<1>4. IsApproval(q) => ReceiptStatusOf(q) = "publication_approved"
  BY <1>3 DEF ReceiptStatusOf
<1> QED
  BY <1>1, <1>2, <1>4

\* The row an idempotency key is bound to carries it.
LEMMA OperationOfKey ==
  ASSUME NEW key, KeyUsed(operations, key)
  PROVE  /\ OperationOf(operations, key) \in DOMAIN operations
         /\ operations[OperationOf(operations, key)].key = key
BY DEF KeyUsed, OperationOf

-----------------------------------------------------------------------------
(* The two steps of the store that write.                                  *)

\* What a fresh insert does to the tables.
LEMMA InsertEffect ==
  ASSUME StoreTypeOK, NEW e \in Evidence, InsertRun(e)
  PROVE  /\ StoreTypeOK'
         /\ e.run_id \notin DOMAIN runs
         /\ DOMAIN runs' = DOMAIN runs \cup {e.run_id}
         /\ \A id \in DOMAIN runs : runs'[id] = runs[id]
         /\ runs'[e.run_id] = [evidence |-> e, status |-> "ACCEPTED"]
         /\ operations' = operations
<1>1. e.run_id \in RunIds
  BY DEF Evidence
<1>2. /\ e.run_id \notin DOMAIN runs
      /\ DOMAIN runs' = DOMAIN runs \cup {e.run_id}
      /\ \A id \in DOMAIN runs : runs'[id] = runs[id]
      /\ runs'[e.run_id] = [evidence |-> e, status |-> "ACCEPTED"]
      /\ operations' = operations
  BY DEF InsertRun, Stored, WithRun
<1>3. [evidence |-> e, status |-> "ACCEPTED"] \in RunRow
  BY DEF RunRow, EvidenceStatus
<1>4. \A id \in DOMAIN runs' : runs'[id] \in RunRow
  BY <1>2, <1>3 DEF StoreTypeOK
<1>5. runs' = [id \in DOMAIN runs' |-> runs'[id]]
  BY <1>2 DEF InsertRun, WithRun
<1>6. IsFiniteSet(DOMAIN runs')
  BY <1>2, FS_AddElement DEF StoreTypeOK
<1> QED
  BY <1>1, <1>2, <1>4, <1>5, <1>6 DEF StoreTypeOK

\* What a fresh transition does to the tables.
LEMMA TransitionEffect ==
  ASSUME StoreTypeOK, NEW t \in TransitionRequest, ApplyTransition(t)
  PROVE  /\ StoreTypeOK'
         /\ t.runId \in DOMAIN runs
         /\ \A i \in DOMAIN operations : operations[i].key # t.key
         /\ DOMAIN runs' = DOMAIN runs
         /\ \A id \in DOMAIN runs : runs'[id].evidence = runs[id].evidence
         /\ \A id \in DOMAIN runs \ {t.runId} : runs'[id] = runs[id]
         /\ runs'[t.runId].status = t.target
         /\ DOMAIN operations' = DOMAIN operations \cup {Len(operations) + 1}
         /\ Len(operations') = Len(operations) + 1
         /\ Len(operations) + 1 \notin DOMAIN operations
         /\ \A i \in DOMAIN operations : operations'[i] = operations[i]
         /\ operations'[Len(operations) + 1] = t
<1>1. /\ t.runId \in DOMAIN runs
      /\ \A i \in DOMAIN operations : operations[i].key # t.key
  BY DEF ApplyTransition, IsFresh, KeyUsed, Stored
<1>2. runs' = [runs EXCEPT ![t.runId].status = t.target]
  BY DEF ApplyTransition, WithStatus
<1>3. runs[t.runId] \in RunRow
  BY <1>1 DEF StoreTypeOK
<1>4. /\ DOMAIN runs' = DOMAIN runs
      /\ \A id \in DOMAIN runs \ {t.runId} : runs'[id] = runs[id]
      /\ runs'[t.runId] = [runs[t.runId] EXCEPT !.status = t.target]
  BY <1>1, <1>2 DEF StoreTypeOK
<1>5. /\ runs'[t.runId].evidence = runs[t.runId].evidence
      /\ runs'[t.runId].status = t.target
      /\ runs'[t.runId] \in RunRow
  BY <1>3, <1>4 DEF RunRow, TransitionRequest
<1>6. runs' \in [DOMAIN runs' -> RunRow]
  BY <1>1, <1>2, <1>4, <1>5 DEF StoreTypeOK
<1>7. /\ operations' \in Seq(TransitionRequest)
      /\ DOMAIN operations' = DOMAIN operations \cup {Len(operations) + 1}
      /\ Len(operations') = Len(operations) + 1
      /\ Len(operations) + 1 \notin DOMAIN operations
      /\ \A i \in DOMAIN operations : operations'[i] = operations[i]
      /\ operations'[Len(operations) + 1] = t
  BY DEF ApplyTransition, StoreTypeOK
<1> QED
  BY <1>1, <1>4, <1>5, <1>6, <1>7 DEF StoreTypeOK

-----------------------------------------------------------------------------
(* The tables grow: what the two steps above have in common, and what      *)
(* stays true of a table that does.                                        *)

Grows ==
  /\ DOMAIN runs \subseteq DOMAIN runs'
  /\ \A id \in DOMAIN runs : runs'[id].evidence = runs[id].evidence
  /\ DOMAIN operations \subseteq DOMAIN operations'
  /\ Len(operations) <= Len(operations')
  /\ \A i \in DOMAIN operations : operations'[i] = operations[i]

LEMMA InsertGrows ==
  ASSUME StoreTypeOK, NEW e \in Evidence, InsertRun(e)
  PROVE  Grows
<1>1. Len(operations) \in Nat
  BY DEF StoreTypeOK
<1>2. /\ DOMAIN runs' = DOMAIN runs \cup {e.run_id}
      /\ \A id \in DOMAIN runs : runs'[id] = runs[id]
      /\ operations' = operations
  BY InsertEffect
<1> QED
  BY <1>1, <1>2 DEF Grows

LEMMA TransitionGrows ==
  ASSUME StoreTypeOK, NEW t \in TransitionRequest, ApplyTransition(t)
  PROVE  Grows
<1>1. Len(operations) \in Nat
  BY DEF StoreTypeOK
<1> QED
  BY <1>1, TransitionEffect DEF Grows

LEMMA StutterGrows ==
  ASSUME StoreTypeOK, UNCHANGED storeVars
  PROVE  Grows
<1>1. Len(operations) \in Nat
  BY DEF StoreTypeOK
<1> QED
  BY <1>1 DEF Grows, storeVars

\* The past of a run is never taken back.
LEMMA StatusesHadGrow ==
  ASSUME StoreTypeOK, StoreTypeOK', Grows, NEW id, NEW n \in Nat, NEW m \in Nat, n <= m
  PROVE  StatusesHad(id, n) \subseteq StatusesHad(id, m)'
<1>1. DOMAIN operations \subseteq Nat
  BY DEF StoreTypeOK
<1>2. SUFFICES ASSUME NEW i \in OperationsOn(id), i < n
               PROVE  /\ i \in OperationsOn(id)'
                      /\ i < m
                      /\ operations'[i].target = operations[i].target
  BY DEF StatusesHad
<1>3. i \in DOMAIN operations /\ operations[i].runId = id
  BY <1>2 DEF OperationsOn
<1>4. i \in OperationsOn(id)'
  BY <1>3 DEF OperationsOn, Grows
<1> QED
  BY <1>1, <1>2, <1>3, <1>4 DEF Grows

\* A transition that was admissible when its handler called apply() is
\* admissible when the store gets to it.
LEMMA AdmissibleIsStable ==
  ASSUME StoreTypeOK, StoreTypeOK', Grows, NEW t, Admissible(t)
  PROVE  Admissible(t)'
<1>1. Len(operations) \in Nat /\ Len(operations') \in Nat /\ Len(operations) <= Len(operations')
  BY DEF StoreTypeOK, Grows
<1>2. StatusesHad(t.runId, Len(operations) + 1) \subseteq StatusesHad(t.runId, Len(operations) + 1)'
  BY <1>1, StatusesHadGrow
<1> QED
  BY <1>2 DEF Admissible, Stored, Grows

\* So is what a response says.
LEMMA AnswerStaysTrue ==
  ASSUME Grows, NEW s \in Slots, AnswerIsTrue(s),
         request'[s] = request[s], answer'[s] = answer[s]
  PROVE  AnswerIsTrue(s)'
BY DEF AnswerIsTrue, Grows, Stored, Receipt, DigestOf

-----------------------------------------------------------------------------
(* StoreInv is preserved.                                                  *)

LEMMA InsertPreservesStoreInv ==
  ASSUME StoreInv, NEW e \in Evidence, InsertRun(e)
  PROVE  StoreInv'
<1> DEFINE id == e.run_id
<1>0. StoreTypeOK
  BY DEF StoreInv
<1>1. /\ StoreTypeOK'
      /\ id \notin DOMAIN runs
      /\ DOMAIN runs' = DOMAIN runs \cup {id}
      /\ \A other \in DOMAIN runs : runs'[other] = runs[other]
      /\ runs'[id] = [evidence |-> e, status |-> "ACCEPTED"]
      /\ operations' = operations
  BY <1>0, InsertEffect, Zenon
<1>2. \A other : OperationsOn(other)' = OperationsOn(other)
  BY <1>1 DEF OperationsOn
<1>3. OperationsOn(id) = {}
  BY <1>1 DEF StoreInv, LogIsSound, OperationsOn
<1>4. StatusFollowsAudit'
  <2>1. SUFFICES ASSUME NEW other \in DOMAIN runs'
                 PROVE  \/ OperationsOn(other) = {} /\ runs'[other].status = "ACCEPTED"
                        \/ \E i \in OperationsOn(other) :
                             /\ \A j \in OperationsOn(other) : j <= i
                             /\ runs'[other].status = operations[i].target
    BY <1>1, <1>2 DEF StatusFollowsAudit
  <2>2. CASE other = id
    BY <1>1, <1>3, <2>2
  <2>3. CASE other # id
    BY <1>1, <2>1, <2>3 DEF StoreInv, StatusFollowsAudit
  <2> QED
    BY <2>2, <2>3
<1>5. KeyAppliedOnce'
  BY <1>1 DEF StoreInv, KeyAppliedOnce
<1>6. RevalidationInventsNoStatus'
  BY <1>1, <1>2 DEF StoreInv, RevalidationInventsNoStatus, StatusesHad
<1>7. LogIsSound'
  BY <1>1, <1>2 DEF StoreInv, LogIsSound
<1> QED
  BY <1>1, <1>4, <1>5, <1>6, <1>7 DEF StoreInv

LEMMA TransitionPreservesStoreInv ==
  ASSUME StoreInv, NEW t \in TransitionRequest, Admissible(t), ApplyTransition(t)
  PROVE  StoreInv'
<1> DEFINE n == Len(operations) + 1
<1>1. /\ StoreTypeOK'
      /\ t.runId \in DOMAIN runs
      /\ \A i \in DOMAIN operations : operations[i].key # t.key
      /\ DOMAIN runs' = DOMAIN runs
      /\ \A id \in DOMAIN runs : runs'[id].evidence = runs[id].evidence
      /\ \A id \in DOMAIN runs \ {t.runId} : runs'[id] = runs[id]
      /\ runs'[t.runId].status = t.target
      /\ DOMAIN operations' = DOMAIN operations \cup {n}
      /\ n \notin DOMAIN operations
      /\ \A i \in DOMAIN operations : operations'[i] = operations[i]
      /\ operations'[n] = t
  BY TransitionEffect DEF StoreInv
<1>2. /\ n \in Nat
      /\ DOMAIN operations \subseteq Nat
      /\ \A i \in DOMAIN operations : i < n
  BY DEF StoreInv, StoreTypeOK
<1>3. /\ OperationsOn(t.runId)' = OperationsOn(t.runId) \cup {n}
      /\ \A id : id # t.runId => OperationsOn(id)' = OperationsOn(id)
  BY <1>1 DEF OperationsOn
<1>4. \A id : OperationsOn(id) \subseteq DOMAIN operations
  BY DEF OperationsOn
<1>5. StatusFollowsAudit'
  <2>1. SUFFICES ASSUME NEW id \in DOMAIN runs
                 PROVE  \/ OperationsOn(id)' = {} /\ runs'[id].status = "ACCEPTED"
                        \/ \E i \in OperationsOn(id)' :
                             /\ \A j \in OperationsOn(id)' : j <= i
                             /\ runs'[id].status = operations'[i].target
    BY <1>1 DEF StatusFollowsAudit
  <2>2. CASE id = t.runId
    <3>1. /\ n \in OperationsOn(id)'
          /\ \A j \in OperationsOn(id)' : j <= n
      BY <1>2, <1>3, <1>4, <2>2
    <3> QED
      BY <1>1, <2>2, <3>1
  <2>3. CASE id # t.runId
    <3>1. \/ OperationsOn(id) = {} /\ runs[id].status = "ACCEPTED"
          \/ \E i \in OperationsOn(id) :
               /\ \A j \in OperationsOn(id) : j <= i
               /\ runs[id].status = operations[i].target
      BY DEF StoreInv, StatusFollowsAudit
    <3> QED
      BY <1>1, <1>3, <1>4, <2>3, <3>1
  <2> QED
    BY <2>2, <2>3
<1>6. KeyAppliedOnce'
  BY <1>1 DEF StoreInv, KeyAppliedOnce
<1>7. \A i \in DOMAIN operations : \A id : StatusesHad(id, i)' = StatusesHad(id, i)
  BY <1>1, <1>2, <1>3, <1>4 DEF StatusesHad
<1>8. t.command = "revalidate" =>
        t.target \in {"ACCEPTED"} \cup {operations'[i].target : i \in {j \in OperationsOn(t.runId)' : j < n}}
  BY <1>1, <1>2, <1>3, <1>4 DEF Admissible, StatusesHad
<1>9. RevalidationInventsNoStatus'
  <2>1. SUFFICES ASSUME NEW i \in DOMAIN operations', operations'[i].command = "revalidate"
                 PROVE  (operations[i].target \in StatusesHad(operations[i].runId, i))'
    BY DEF RevalidationInventsNoStatus
  <2>2. CASE i = n
    BY <1>1, <1>8, <2>1, <2>2 DEF StatusesHad
  <2>3. CASE i \in DOMAIN operations
    BY <1>1, <1>7, <2>1, <2>3 DEF StoreInv, RevalidationInventsNoStatus
  <2> QED
    BY <1>1, <2>2, <2>3
<1>10. LogIsSound'
  <2>1. SUFFICES ASSUME NEW i \in DOMAIN operations'
                 PROVE  ( /\ operations[i].runId \in DOMAIN runs
                          /\ operations[i].digest.runId = operations[i].runId
                          /\ operations[i].digest.command = operations[i].command
                          /\ operations[i].target = "PUBLICATION_APPROVED" =>
                               /\ ~ HasFailures(runs[operations[i].runId].evidence)
                               /\ \E j \in OperationsOn(operations[i].runId) :
                                    operations[j].receipt = "publication_approved" )'
    BY DEF LogIsSound
  <2>2. \A id : OperationsOn(id) \subseteq OperationsOn(id)'
    BY <1>3
  <2>3. CASE i \in DOMAIN operations
    BY <1>1, <1>4, <2>2, <2>3 DEF StoreInv, LogIsSound
  <2>4. CASE i = n
    <3>1. /\ t.digest.runId = t.runId
          /\ t.digest.command = t.command
      BY DEF Admissible
    <3>2. ASSUME t.target = "PUBLICATION_APPROVED"
          PROVE  /\ ~ HasFailures(runs[t.runId].evidence)
                 /\ \E j \in OperationsOn(t.runId)' : operations'[j].receipt = "publication_approved"
      <4>1. CASE t.command = "revalidate"
        <5>1. PICK j \in OperationsOn(t.runId) : operations[j].target = "PUBLICATION_APPROVED"
          BY <3>2, <4>1 DEF Admissible, StatusesHad
        <5>2. /\ ~ HasFailures(runs[t.runId].evidence)
              /\ \E k \in OperationsOn(t.runId) : operations[k].receipt = "publication_approved"
          BY <5>1 DEF StoreInv, LogIsSound, OperationsOn
        <5> QED
          BY <1>1, <1>4, <2>2, <5>2
      <4>2. CASE t.command # "revalidate"
        BY <1>1, <1>3, <3>2, <4>2 DEF Admissible
      <4> QED
        BY <4>1, <4>2
    <3> QED
      BY <1>1, <2>4, <3>1, <3>2
  <2> QED
    BY <1>1, <2>3, <2>4
<1> QED
  BY <1>1, <1>5, <1>6, <1>9, <1>10 DEF StoreInv

LEMMA StutterPreservesStoreInv ==
  ASSUME StoreInv, UNCHANGED storeVars
  PROVE  StoreInv'
BY DEF StoreInv, storeVars, StoreTypeOK, StatusFollowsAudit, KeyAppliedOnce,
       RevalidationInventsNoStatus, LogIsSound, OperationsOn, StatusesHad

-----------------------------------------------------------------------------
(* A step of one handler: slot s goes to phase x and holds r, p and a; the *)
(* other slots, whose facts about the tables are stable, keep theirs.      *)

SlotBecomes(s, x, r, p, a) ==
  /\ pc' = [pc EXCEPT ![s] = x]
  /\ request' = [request EXCEPT ![s] = r]
  /\ pending' = [pending EXCEPT ![s] = p]
  /\ answer' = [answer EXCEPT ![s] = a]

SlotTyped(x, r, p, a) ==
  /\ x \in Phases
  /\ r \in Requests \cup {None}
  /\ p \in TransitionRequest \cup {None}
  /\ a \in Answers \cup {None}
  /\ x \in {"inserting", "finishing"} => r \in IngestRequest
  /\ x \in {"reading", "applying"} => r \in OperationRequest
  /\ x = "applying" <=> p # None
  /\ x \in {"finishing", "answered"} <=> a # None
  /\ x = "finishing" => a.outcome \in DOMAIN IngestLabel

ProcessTyped ==
  /\ ingested \in [IngestLabels -> Nat]
  /\ contract \in Contracts
  /\ baseline \in Nat

LEMMA SlotUnchanged ==
  ASSUME TypeOK, NEW s \in Slots
  PROVE  /\ request = [request EXCEPT ![s] = request[s]]
         /\ pending = [pending EXCEPT ![s] = pending[s]]
         /\ answer = [answer EXCEPT ![s] = answer[s]]
         /\ SlotTyped(pc[s], request[s], pending[s], answer[s])
<1>1. /\ request = [request EXCEPT ![s] = request[s]]
      /\ pending = [pending EXCEPT ![s] = pending[s]]
      /\ answer = [answer EXCEPT ![s] = answer[s]]
  BY DEF TypeOK
<1>2. SlotTyped(pc[s], request[s], pending[s], answer[s])
  BY DEF TypeOK, SlotTyped
<1> QED
  BY <1>1, <1>2

LEMMA SlotStepTyped ==
  ASSUME TypeOK, StoreTypeOK', ProcessTyped', NEW s \in Slots,
         NEW x, NEW r, NEW p, NEW a, SlotTyped(x, r, p, a), SlotBecomes(s, x, r, p, a)
  PROVE  TypeOK'
<1>1. /\ pc' \in [Slots -> Phases]
      /\ request' \in [Slots -> Requests \cup {None}]
      /\ pending' \in [Slots -> TransitionRequest \cup {None}]
      /\ answer' \in [Slots -> Answers \cup {None}]
  BY DEF TypeOK, SlotTyped, SlotBecomes
<1>2. ASSUME NEW o \in Slots
      PROVE  SlotTyped(pc'[o], request'[o], pending'[o], answer'[o])
  <2>1. CASE o = s
    <3>1. pc'[o] = x /\ request'[o] = r /\ pending'[o] = p /\ answer'[o] = a
      BY <2>1 DEF TypeOK, SlotBecomes
    <3> QED
      BY <3>1
  <2>2. CASE o # s
    <3>1. /\ pc'[o] = pc[o] /\ request'[o] = request[o]
          /\ pending'[o] = pending[o] /\ answer'[o] = answer[o]
      BY <2>2 DEF TypeOK, SlotBecomes
    <3> QED
      BY <3>1, SlotUnchanged
  <2> QED
    BY <2>1, <2>2
<1> QED
  BY <1>1, <1>2 DEF TypeOK, SlotTyped, ProcessTyped

LEMMA SlotStep ==
  ASSUME IInv, StoreInv', Grows, ProcessTyped', NEW s \in Slots,
         NEW x, NEW r, NEW p, NEW a, SlotTyped(x, r, p, a), SlotBecomes(s, x, r, p, a),
         x = "reading" => InputsValid(r),
         x = "applying" => Admissible(p)' /\ p.key = r.key /\ p.digest = DigestOf(r),
         a # None => AnswerIsTrue(s)'
  PROVE  IInv'
<1>1. StoreTypeOK /\ StoreTypeOK' /\ TypeOK
  BY DEF IInv, StoreInv
<1>2. TypeOK'
  BY <1>1, SlotStepTyped
<1>3. ASSUME NEW o \in Slots \ {s}
      PROVE  /\ pc'[o] = pc[o] /\ request'[o] = request[o]
             /\ pending'[o] = pending[o] /\ answer'[o] = answer[o]
  BY <1>1 DEF TypeOK, SlotBecomes
<1>4. /\ pc'[s] = x /\ request'[s] = r
      /\ pending'[s] = p /\ answer'[s] = a
  BY <1>1 DEF TypeOK, SlotBecomes
<1>5. HandlersAreSound'
  <2>1. ASSUME NEW o \in Slots, pc'[o] = "reading"
        PROVE  InputsValid(request[o])'
    <3>1. CASE o = s
      BY <1>4, <2>1, <3>1 DEF InputsValid
    <3>2. CASE o # s
      BY <1>3, <2>1, <3>2 DEF IInv, HandlersAreSound, InputsValid
    <3> QED
      BY <3>1, <3>2
  <2>2. ASSUME NEW o \in Slots, pc'[o] = "applying"
        PROVE  ( /\ Admissible(pending[o])
                 /\ pending[o].key = request[o].key
                 /\ pending[o].digest = DigestOf(request[o]) )'
    <3>1. CASE o = s
      BY <1>4, <2>2, <3>1 DEF Admissible, DigestOf
    <3>2. CASE o # s
      <4>1. /\ pc'[o] = pc[o] /\ request'[o] = request[o] /\ pending'[o] = pending[o]
        BY <1>3, <3>2
      <4>2. /\ Admissible(pending[o])
            /\ pending[o].key = request[o].key
            /\ pending[o].digest = DigestOf(request[o])
        BY <2>2, <4>1 DEF IInv, HandlersAreSound
      <4>3. Admissible(pending[o])'
        BY <1>1, <4>1, <4>2, AdmissibleIsStable DEF Admissible
      <4> QED
        BY <4>1, <4>2, <4>3 DEF DigestOf
    <3> QED
      BY <3>1, <3>2
  <2> QED
    BY <2>1, <2>2 DEF HandlersAreSound
<1>6. AnswersAreTrue'
  <2>1. ASSUME NEW o \in Slots \ {s}, answer'[o] # None
        PROVE  AnswerIsTrue(o)'
    BY <1>3, <2>1, AnswerStaysTrue DEF IInv, AnswersAreTrue
  <2> QED
    BY <1>4, <2>1 DEF AnswersAreTrue
<1> QED
  BY <1>2, <1>5, <1>6 DEF IInv

-----------------------------------------------------------------------------
(* The inductive step, one lemma per group of actions.                     *)

LEMMA SaysTyped ==
  ASSUME NEW outcome \in Outcomes
  PROVE  /\ Says(outcome) \in Answers
         /\ Says(outcome).outcome = outcome
         /\ Says(outcome) # None
<1>1. Says(outcome) \in Answers
  BY DEF Says, Answers
<1> QED
  BY <1>1, NoneAssumption DEF Says

LEMMA OutcomesAre ==
  Outcomes = {"created", "ok", "invalid_evidence", "invalid_operation", "run_not_found",
              "duplicate_run_id", "idempotency_conflict", "publication_blocked",
              "revalidation_failed", "internal_error"}
BY DEF Outcomes, HttpStatus

LEMMA LabelsAre ==
  /\ DOMAIN IngestLabel = {"created", "invalid_evidence", "duplicate_run_id", "internal_error"}
  /\ \A outcome \in DOMAIN IngestLabel : IngestLabel[outcome] \in IngestLabels
BY DEF IngestLabel, IngestLabels

LEMMA ObserveTyped ==
  ASSUME TypeOK, NEW outcome \in DOMAIN IngestLabel
  PROVE  Observe(outcome) \in [IngestLabels -> Nat]
<1>1. IngestLabel[outcome] \in IngestLabels
  BY LabelsAre
<1>2. ingested \in [IngestLabels -> Nat]
  BY DEF TypeOK
<1> QED
  BY <1>1, <1>2 DEF Observe

\* A response that says nothing about the tables.
LEMMA BareAnswerIsTrue ==
  ASSUME NEW s \in Slots, NEW outcome \in Outcomes, answer'[s] = Says(outcome),
         outcome \notin {"ok", "created", "duplicate_run_id", "idempotency_conflict"}
  PROVE  AnswerIsTrue(s)'
<1>1. answer'[s].outcome = outcome
  BY SaysTyped
<1> QED
  BY <1>1 DEF AnswerIsTrue

LEMMA PostEvidenceStep ==
  ASSUME IInv, NEW s \in Slots, NEW document \in Documents, PostEvidence(s, document)
  PROVE  IInv'
<1> DEFINE r == [command |-> "ingest", document |-> document]
<1>1. /\ TypeOK /\ StoreTypeOK /\ StoreInv
      /\ StoreInv' /\ Grows
  BY StutterGrows, StutterPreservesStoreInv DEF IInv, StoreInv, PostEvidence
<1>2. r \in IngestRequest /\ r \in Requests
  BY DEF IngestRequest, Requests
<1>3. SlotTyped(pc[s], request[s], pending[s], answer[s])
  BY <1>1, SlotUnchanged
<1>4. pc[s] = "idle" /\ pending[s] = None /\ answer[s] = None
  BY <1>3 DEF SlotTyped, PostEvidence
<1>5. CASE document \in contract /\ MetricNamesUnique(document)
  <2>1. SlotBecomes(s, "inserting", r, None, None)
    BY <1>1, <1>4, <1>5, SlotUnchanged DEF PostEvidence, SlotBecomes
  <2>2. SlotTyped("inserting", r, None, None)
    BY <1>2 DEF SlotTyped, Phases
  <2>3. ProcessTyped'
    BY <1>1, <1>5 DEF PostEvidence, ProcessTyped, TypeOK
  <2> HIDE DEF r
  <2> QED
    BY <1>1, <2>1, <2>2, <2>3, SlotStep
<1>6. CASE ~ (document \in contract /\ MetricNamesUnique(document))
  <2> DEFINE a == Says("invalid_evidence")
  <2>1. SlotBecomes(s, "answered", r, None, a)
    BY <1>1, <1>6 DEF PostEvidence, Respond, SlotBecomes
  <2>2. a \in Answers /\ a # None
    BY SaysTyped, OutcomesAre
  <2>3. SlotTyped("answered", r, None, a)
    BY <1>2, <2>2 DEF SlotTyped, Phases
  <2>4. ingested' = Observe("invalid_evidence") /\ UNCHANGED <<contract, baseline>>
    BY <1>6 DEF PostEvidence
  <2>5. ProcessTyped'
    BY <1>1, <2>4, ObserveTyped, LabelsAre DEF ProcessTyped, TypeOK
  <2>6. answer'[s] = a
    BY <1>1, <2>1 DEF SlotBecomes, TypeOK
  <2>7. AnswerIsTrue(s)'
    BY <2>6, BareAnswerIsTrue, OutcomesAre
  <2> HIDE DEF r, a
  <2> QED
    BY <1>1, <2>1, <2>3, <2>5, <2>7, SlotStep
<1> QED
  BY <1>5, <1>6

LEMMA InsertStep ==
  ASSUME IInv, NEW s \in Slots, Insert(s)
  PROVE  IInv'
<1> DEFINE e == request[s].document
<1>1. TypeOK /\ StoreTypeOK /\ StoreInv
  BY DEF IInv, StoreInv
<1>2. /\ request = [request EXCEPT ![s] = request[s]]
      /\ pending = [pending EXCEPT ![s] = pending[s]]
      /\ SlotTyped(pc[s], request[s], pending[s], answer[s])
  BY <1>1, SlotUnchanged
<1>3. /\ request[s] \in IngestRequest /\ request[s] \in Requests
      /\ pending[s] = None
  BY <1>2 DEF SlotTyped, Insert, Requests
<1>4. e \in Evidence
  BY <1>3, DomainAssumption DEF IngestRequest
<1>5. ProcessTyped'
  BY <1>1 DEF Insert, ProcessTyped, TypeOK, processVars
<1>6. ASSUME NEW outcome \in {"created", "duplicate_run_id"},
             answer' = [answer EXCEPT ![s] = Says(outcome)],
             StoreInv', Grows, Stored(e.run_id)'
      PROVE  IInv'
  <2> DEFINE a == Says(outcome)
  <2>1. /\ a \in Answers /\ a # None
        /\ a.outcome = outcome
    BY <1>6, SaysTyped, OutcomesAre
  <2>2. SlotBecomes(s, "finishing", request[s], pending[s], a)
    BY <1>2, <1>6 DEF Insert, SlotBecomes
  <2>3. SlotTyped("finishing", request[s], pending[s], a)
    BY <1>3, <1>6, <2>1, LabelsAre DEF SlotTyped, Phases
  <2>4. answer'[s] = a /\ request'[s] = request[s]
    BY <1>1, <1>6 DEF TypeOK, Insert
  <2>5. AnswerIsTrue(s)'
    BY <1>6, <2>1, <2>4 DEF AnswerIsTrue
  <2> HIDE DEF a
  <2> QED
    BY <1>5, <1>6, <2>2, <2>3, <2>5, SlotStep
<1>7. CASE InsertRun(e) /\ answer' = [answer EXCEPT ![s] = Says("created")]
  <2>1. StoreInv' /\ Grows
    BY <1>1, <1>4, <1>7, InsertPreservesStoreInv, InsertGrows
  <2>2. Stored(e.run_id)'
    <3>1. DOMAIN runs' = DOMAIN runs \cup {e.run_id}
      BY <1>1, <1>4, <1>7, InsertEffect
    <3> QED
      BY <3>1 DEF Stored, Insert
  <2> QED
    BY <1>6, <1>7, <2>1, <2>2
<1>8. CASE /\ Stored(e.run_id)
           /\ answer' = [answer EXCEPT ![s] = Says("duplicate_run_id")]
           /\ UNCHANGED storeVars
  <2>1. StoreInv' /\ Grows
    BY <1>1, <1>8, StutterPreservesStoreInv, StutterGrows
  <2>2. Stored(e.run_id)'
    BY <1>8 DEF Stored, storeVars, Insert
  <2> QED
    BY <1>6, <1>8, <2>1, <2>2
<1> QED
  BY <1>7, <1>8 DEF Insert

LEMMA FinishStep ==
  ASSUME IInv, NEW s \in Slots, Finish(s)
  PROVE  IInv'
<1>1. /\ TypeOK /\ StoreTypeOK /\ StoreInv
      /\ StoreInv' /\ Grows
  BY StutterGrows, StutterPreservesStoreInv DEF IInv, StoreInv, Finish
<1>2. /\ request = [request EXCEPT ![s] = request[s]]
      /\ SlotTyped(pc[s], request[s], pending[s], answer[s])
  BY <1>1, SlotUnchanged
<1>3. SlotBecomes(s, "answered", request[s], None, answer[s])
  BY <1>2 DEF Finish, Respond, SlotBecomes
<1>4. SlotTyped("answered", request[s], None, answer[s]) /\ answer[s] # None
  BY <1>2 DEF SlotTyped, Finish, Phases
<1>5. answer[s].outcome \in DOMAIN IngestLabel
  BY <1>2 DEF SlotTyped, Finish
<1>6. ProcessTyped'
  <2>1. ingested' = Observe(answer[s].outcome) /\ UNCHANGED <<contract, baseline>>
    BY DEF Finish
  <2> QED
    BY <1>1, <1>5, <2>1, ObserveTyped DEF ProcessTyped, TypeOK
<1>7. AnswerIsTrue(s)'
  <2>1. answer'[s] = answer[s] /\ request'[s] = request[s]
    BY <1>1, <1>3 DEF SlotBecomes, TypeOK
  <2>2. AnswerIsTrue(s)
    BY <1>4 DEF IInv, AnswersAreTrue
  <2> QED
    BY <1>1, <2>1, <2>2, AnswerStaysTrue
<1> QED
  BY <1>1, <1>3, <1>4, <1>6, <1>7, SlotStep

\* A handler that stops with a response that says nothing about the tables,
\* and leaves the tables alone.
LEMMA RefusalStep ==
  ASSUME IInv, NEW s \in Slots, NEW r \in Requests, NEW outcome \in Outcomes,
         outcome \notin {"ok", "created", "duplicate_run_id", "idempotency_conflict"},
         request' = [request EXCEPT ![s] = r], Respond(s, Says(outcome)),
         UNCHANGED <<storeVars, processVars>>
  PROVE  IInv'
<1> DEFINE a == Says(outcome)
<1>1. /\ TypeOK /\ StoreTypeOK /\ StoreInv
      /\ StoreInv' /\ Grows
  BY StutterGrows, StutterPreservesStoreInv DEF IInv, StoreInv
<1>2. SlotBecomes(s, "answered", r, None, a)
  BY DEF Respond, SlotBecomes
<1>3. a \in Answers /\ a # None
  BY SaysTyped
<1>4. SlotTyped("answered", r, None, a)
  BY <1>3 DEF SlotTyped, Phases
<1>5. ProcessTyped'
  BY <1>1 DEF ProcessTyped, TypeOK, processVars
<1>6. answer'[s] = a
  BY <1>1 DEF Respond, TypeOK
<1>7. AnswerIsTrue(s)'
  BY <1>6, BareAnswerIsTrue
<1> HIDE DEF a
<1> QED
  BY <1>1, <1>2, <1>4, <1>5, <1>7, SlotStep

\* A handler that calls apply() with an admissible transition.
LEMMA ApplyStep ==
  ASSUME IInv, NEW s \in Slots, NEW q \in OperationRequest, NEW status \in EvidenceStatus,
         InputsValid(q), answer[s] = None,
         Admissible(TransitionFor(q, status)),
         request' = [request EXCEPT ![s] = q], Apply(s, TransitionFor(q, status)),
         UNCHANGED <<storeVars, processVars>>
  PROVE  IInv'
<1> DEFINE t == TransitionFor(q, status)
<1>1. /\ TypeOK /\ StoreTypeOK /\ StoreInv
      /\ StoreInv' /\ Grows
  BY StutterGrows, StutterPreservesStoreInv DEF IInv, StoreInv
<1>2. t \in TransitionRequest /\ t # None
  BY TransitionForType, NoneAssumption DEF InputsValid
<1>3. t.key = q.key /\ t.digest = DigestOf(q)
  BY DEF TransitionFor
<1>4. SlotBecomes(s, "applying", q, t, None)
  BY <1>1, SlotUnchanged DEF Apply, SlotBecomes
<1>5. SlotTyped("applying", q, t, None)
  BY <1>2 DEF SlotTyped, Phases, Requests
<1>6. ProcessTyped'
  BY <1>1 DEF ProcessTyped, TypeOK, processVars
<1>7. Admissible(t)'
  <2>1. StoreTypeOK'
    BY <1>1 DEF StoreInv
  <2> HIDE DEF t
  <2> QED
    BY <1>1, <2>1, AdmissibleIsStable DEF t
<1> HIDE DEF t
<1> QED
  BY <1>1, <1>3, <1>4, <1>5, <1>6, <1>7, SlotStep

LEMMA PostOperationStep ==
  ASSUME IInv, NEW s \in Slots, NEW q \in Offered, PostOperation(s, q)
  PROVE  IInv'
<1>1. /\ TypeOK /\ StoreTypeOK /\ StoreInv
      /\ StoreInv' /\ Grows
  BY StutterGrows, StutterPreservesStoreInv DEF IInv, StoreInv, PostOperation
<1>2. q \in OperationRequest /\ q \in Requests
  BY ServiceAssumption DEF Requests
<1>3. /\ request' = [request EXCEPT ![s] = q]
      /\ UNCHANGED <<storeVars, processVars>>
  BY DEF PostOperation
<1>4. pending[s] = None /\ answer[s] = None
  BY <1>1, SlotUnchanged DEF SlotTyped, PostOperation
<1>5. CASE Respond(s, Says("internal_error")) \/ Respond(s, Says("invalid_operation"))
  BY <1>2, <1>3, <1>5, RefusalStep, OutcomesAre
<1>6. CASE /\ InputsValid(q)
           /\ q.command = "quarantine"
           /\ Apply(s, TransitionFor(q, "QUARANTINED"))
  <2>1. Admissible(TransitionFor(q, "QUARANTINED"))
    <3>1. ~ IsApproval(q)
      BY <1>6 DEF IsApproval
    <3> QED
      BY <1>2, <1>6, <3>1, TargetOfCommand DEF Admissible, TransitionFor, DigestOf
  <2> QED
    BY <1>2, <1>3, <1>4, <1>6, <2>1, ApplyStep DEF EvidenceStatus
<1>7. CASE /\ InputsValid(q)
           /\ pc' = [pc EXCEPT ![s] = "reading"]
           /\ UNCHANGED <<pending, answer>>
  <2>1. SlotBecomes(s, "reading", q, None, None)
    BY <1>1, <1>3, <1>4, <1>7, SlotUnchanged DEF SlotBecomes
  <2>2. SlotTyped("reading", q, None, None)
    BY <1>2 DEF SlotTyped, Phases
  <2>3. ProcessTyped'
    BY <1>1, <1>3 DEF ProcessTyped, TypeOK, processVars
  <2> QED
    BY <1>1, <1>7, <2>1, <2>2, <2>3, SlotStep
<1> QED
  BY <1>5, <1>6, <1>7 DEF PostOperation

LEMMA ReadStep ==
  ASSUME IInv, NEW s \in Slots, Read(s)
  PROVE  IInv'
<1> DEFINE q == request[s]
           run == runs[q.runId]
<1>1. TypeOK /\ StoreTypeOK /\ StoreInv
  BY DEF IInv, StoreInv
<1>2. /\ request = [request EXCEPT ![s] = q]
      /\ SlotTyped(pc[s], request[s], pending[s], answer[s])
  BY <1>1, SlotUnchanged
<1>3. /\ q \in OperationRequest /\ q \in Requests
      /\ answer[s] = None
  BY <1>2 DEF SlotTyped, Read, Requests
<1>4. /\ request' = [request EXCEPT ![s] = q]
      /\ UNCHANGED <<storeVars, processVars>>
  BY <1>2 DEF Read
<1>5. InputsValid(q)
  BY DEF IInv, HandlersAreSound, Read
<1>6. CASE \/ Respond(s, Says("run_not_found"))
           \/ Respond(s, Says("revalidation_failed"))
           \/ Respond(s, Says("publication_blocked"))
  BY <1>3, <1>4, <1>6, RefusalStep, OutcomesAre
<1>7. CASE /\ Stored(q.runId)
           /\ ~ Blocked(q, run.evidence, run.status)
           /\ Apply(s, TransitionFor(q, run.status))
  <2> DEFINE t == TransitionFor(q, run.status)
  <2>1. run.status \in EvidenceStatus
    BY <1>1, <1>7 DEF StoreTypeOK, RunRow, Stored
  <2>2. run.status \in StatusesHad(q.runId, Len(operations) + 1)
    <3>1. CASE run.status = "ACCEPTED"
      BY <3>1 DEF StatusesHad
    <3>2. CASE run.status # "ACCEPTED"
      <4>1. PICK i \in OperationsOn(q.runId) : run.status = operations[i].target
        BY <1>1, <1>7, <3>2 DEF StoreInv, StatusFollowsAudit, Stored
      <4>2. i < Len(operations) + 1
        BY <1>1, <4>1 DEF StoreTypeOK, OperationsOn
      <4> QED
        BY <4>1, <4>2 DEF StatusesHad
    <3> QED
      BY <3>1, <3>2
  <2>3. IsApproval(q) => ~ HasFailures(run.evidence)
    BY <1>7 DEF Blocked
  <2>4. /\ t.runId = q.runId /\ t.command = q.command /\ t.digest = DigestOf(q)
        /\ t.target = TargetStatus(q, run.status) /\ t.receipt = ReceiptStatusOf(q)
    BY DEF TransitionFor
  <2>5. t.digest.runId = q.runId /\ t.digest.command = q.command
    BY <2>4 DEF DigestOf
  <2>6. Admissible(t)
    <3>1. t.command = "revalidate" =>
            Stored(t.runId) /\ t.target \in StatusesHad(t.runId, Len(operations) + 1)
      BY <1>3, <1>7, <2>2, <2>4, TargetOfCommand
    <3>2. t.command # "revalidate" /\ t.target = "PUBLICATION_APPROVED" =>
            /\ Stored(t.runId)
            /\ ~ HasFailures(runs[t.runId].evidence)
            /\ t.receipt = "publication_approved"
      BY <1>3, <1>7, <2>3, <2>4, TargetOfCommand
    <3> HIDE DEF t
    <3> QED
      BY <2>4, <2>5, <3>1, <3>2 DEF Admissible
  <2> QED
    BY <1>3, <1>4, <1>5, <1>7, <2>1, <2>6, ApplyStep
<1> QED
  BY <1>6, <1>7 DEF Read

\* A transition the store has answered with a receipt.
LEMMA ReceiptStep ==
  ASSUME IInv, NEW s \in Slots, Transition(s), StoreInv', Grows,
         NEW i \in DOMAIN operations',
         operations'[i] \in TransitionRequest,
         operations'[i].key = request[s].key, operations'[i].digest = DigestOf(request[s]),
         Respond(s, Succeeds(i, operations'[i]))
  PROVE  IInv'
<1> DEFINE row == operations'[i]
           a == Succeeds(i, row)
<1>1. TypeOK
  BY DEF IInv
<1>2. request = [request EXCEPT ![s] = request[s]] /\ request[s] \in Requests
  BY <1>1, SlotUnchanged DEF SlotTyped, Transition, Requests
<1>3. i \in Nat \ {0}
  BY DEF StoreInv, StoreTypeOK
<1>4. Receipt(i, row) \in Receipts
  BY <1>3 DEF Receipt, Receipts, TransitionRequest
<1>5. a \in Answers /\ a # None /\ a.outcome = "ok" /\ a.receipt = Receipt(i, row)
  <2>1. a \in Answers
    BY <1>4, OutcomesAre DEF Succeeds, Answers
  <2> QED
    BY <2>1, NoneAssumption DEF Succeeds
<1>6. SlotBecomes(s, "answered", request[s], None, a)
  BY <1>2 DEF Respond, SlotBecomes, Transition
<1>7. SlotTyped("answered", request[s], None, a)
  BY <1>2, <1>5 DEF SlotTyped, Phases
<1>8. ProcessTyped'
  BY <1>1 DEF Transition, ProcessTyped, TypeOK, processVars
<1>9. answer'[s] = a /\ request'[s] = request[s]
  BY <1>1, <1>6 DEF SlotBecomes, TypeOK
<1>10. AnswerIsTrue(s)'
  <2> HIDE DEF a
  <2>1. /\ operations'[i].key = request'[s].key
        /\ operations'[i].digest = DigestOf(request[s])'
        /\ answer'[s].receipt = Receipt(i, operations[i])'
    BY <1>5, <1>9 DEF DigestOf, Receipt
  <2> QED
    BY <1>5, <1>9, <2>1 DEF AnswerIsTrue
<1> HIDE DEF a
<1> QED
  BY <1>6, <1>7, <1>8, <1>10, <1>5, SlotStep

LEMMA TransitionStep ==
  ASSUME IInv, NEW s \in Slots, Transition(s)
  PROVE  IInv'
<1> DEFINE t == pending[s]
           i == OperationOf(operations, t.key)
<1>1. TypeOK /\ StoreTypeOK /\ StoreInv
  BY DEF IInv, StoreInv
<1>2. /\ request = [request EXCEPT ![s] = request[s]]
      /\ SlotTyped(pc[s], request[s], pending[s], answer[s])
  BY <1>1, SlotUnchanged
<1>3. t \in TransitionRequest /\ request[s] \in Requests
  BY <1>2 DEF SlotTyped, Transition, Requests
<1>4. /\ Admissible(t)
      /\ t.key = request[s].key
      /\ t.digest = DigestOf(request[s])
  BY DEF IInv, HandlersAreSound, Transition
<1>5. ASSUME UNCHANGED storeVars
      PROVE  StoreInv' /\ Grows
  BY <1>1, <1>5, StutterPreservesStoreInv, StutterGrows
<1>6. CASE ApplyTransition(t) /\ Respond(s, Succeeds(Len(operations) + 1, t))
  <2>1. StoreInv' /\ Grows
    BY <1>1, <1>3, <1>4, <1>6, TransitionPreservesStoreInv, TransitionGrows
  <2>2. /\ Len(operations) + 1 \in DOMAIN operations'
        /\ operations'[Len(operations) + 1] = t
    BY <1>1, <1>3, <1>6, TransitionEffect
  <2> QED
    BY <1>3, <1>4, <1>6, <2>1, <2>2, ReceiptStep
<1>7. CASE IsReplay(t) /\ Respond(s, Succeeds(i, operations[i])) /\ UNCHANGED storeVars
  <2>1. i \in DOMAIN operations /\ operations[i].key = t.key
    BY <1>7, OperationOfKey DEF IsReplay
  <2>2. operations[i].digest = t.digest
    BY <1>7 DEF IsReplay, SamePayload
  <2>3. operations' = operations /\ operations[i] \in TransitionRequest
    BY <1>1, <1>7, <2>1 DEF storeVars, StoreTypeOK
  <2> HIDE DEF i
  <2> QED
    BY <1>4, <1>5, <1>7, <2>1, <2>2, <2>3, ReceiptStep
<1>8. CASE IsConflict(t) /\ Respond(s, Says("idempotency_conflict")) /\ UNCHANGED storeVars
  <2> DEFINE a == Says("idempotency_conflict")
  <2>1. i \in DOMAIN operations /\ operations[i].key = t.key
    BY <1>8, OperationOfKey DEF IsConflict
  <2>2. operations[i].digest # t.digest
    <3>1. ~ SamePayload(operations[i], t)
      BY <1>8 DEF IsConflict
    <3>2. /\ operations[i].digest.runId = operations[i].runId
          /\ operations[i].digest.command = operations[i].command
      BY <1>1, <2>1 DEF StoreInv, LogIsSound
    <3> QED
      BY <1>4, <3>1, <3>2 DEF SamePayload, Admissible
  <2>3. a \in Answers /\ a # None /\ a.outcome = "idempotency_conflict"
    BY SaysTyped, OutcomesAre
  <2>4. SlotBecomes(s, "answered", request[s], None, a)
    BY <1>2, <1>8 DEF Respond, SlotBecomes, Transition
  <2>5. SlotTyped("answered", request[s], None, a)
    BY <1>3, <2>3 DEF SlotTyped, Phases
  <2>6. ProcessTyped'
    BY <1>1 DEF Transition, ProcessTyped, TypeOK, processVars
  <2>7. answer'[s] = a /\ request'[s] = request[s] /\ operations' = operations
    BY <1>1, <1>8, <2>4 DEF SlotBecomes, TypeOK, storeVars
  <2>8. AnswerIsTrue(s)'
    <3> HIDE DEF a, i
    <3> QED
      BY <1>4, <2>1, <2>2, <2>3, <2>7 DEF AnswerIsTrue, DigestOf
  <2> HIDE DEF a
  <2> QED
    BY <1>5, <1>8, <2>4, <2>5, <2>6, <2>8, <2>3, SlotStep
<1>9. CASE IsMissing(t) /\ Respond(s, Says("run_not_found")) /\ UNCHANGED storeVars
  <2>1. request' = [request EXCEPT ![s] = request[s]] /\ UNCHANGED processVars
    BY <1>2 DEF Transition
  <2> QED
    BY <1>3, <1>9, <2>1, RefusalStep, OutcomesAre
<1> QED
  BY <1>6, <1>7, <1>8, <1>9 DEF Transition

LEMMA StoreErrorStep ==
  ASSUME IInv, NEW s \in Slots, StoreError(s)
  PROVE  IInv'
<1> DEFINE a == Says("internal_error")
<1>1. /\ TypeOK /\ StoreTypeOK /\ StoreInv
      /\ StoreInv' /\ Grows
  BY StutterGrows, StutterPreservesStoreInv DEF IInv, StoreInv, StoreError
<1>2. /\ request = [request EXCEPT ![s] = request[s]]
      /\ pending = [pending EXCEPT ![s] = pending[s]]
      /\ SlotTyped(pc[s], request[s], pending[s], answer[s])
  BY <1>1, SlotUnchanged
<1>3. /\ request' = [request EXCEPT ![s] = request[s]]
      /\ UNCHANGED <<storeVars, processVars>>
  BY <1>2 DEF StoreError
<1>4. request[s] \in Requests
  BY <1>2 DEF SlotTyped, StoreError, Requests
<1>5. CASE Respond(s, a)
  BY <1>3, <1>4, <1>5, RefusalStep, OutcomesAre
<1>6. CASE /\ pc[s] = "inserting"
           /\ pc' = [pc EXCEPT ![s] = "finishing"]
           /\ answer' = [answer EXCEPT ![s] = a]
           /\ UNCHANGED pending
  <2>1. a \in Answers /\ a # None /\ a.outcome = "internal_error"
    BY SaysTyped, OutcomesAre
  <2>2. SlotBecomes(s, "finishing", request[s], None, a)
    BY <1>2, <1>3, <1>6 DEF SlotBecomes, SlotTyped
  <2>3. SlotTyped("finishing", request[s], None, a)
    BY <1>2, <1>4, <1>6, <2>1, LabelsAre DEF SlotTyped, Phases
  <2>4. ProcessTyped'
    BY <1>1, <1>3 DEF ProcessTyped, TypeOK, processVars
  <2>5. answer'[s] = a
    BY <1>1, <1>6 DEF TypeOK
  <2>6. AnswerIsTrue(s)'
    BY <2>5, BareAnswerIsTrue, OutcomesAre
  <2> HIDE DEF a
  <2> QED
    BY <1>1, <2>2, <2>3, <2>4, <2>6, SlotStep
<1> QED
  BY <1>5, <1>6 DEF StoreError

LEMMA ConsumeStep ==
  ASSUME IInv, NEW s \in Slots, Consume(s)
  PROVE  IInv'
<1>1. /\ TypeOK /\ StoreTypeOK /\ StoreInv
      /\ StoreInv' /\ Grows
  BY StutterGrows, StutterPreservesStoreInv DEF IInv, StoreInv, Consume
<1>2. /\ pending = [pending EXCEPT ![s] = pending[s]]
      /\ SlotTyped(pc[s], request[s], pending[s], answer[s])
  BY <1>1, SlotUnchanged
<1>3. SlotBecomes(s, "idle", None, None, None)
  BY <1>2 DEF SlotBecomes, SlotTyped, Consume
<1>4. SlotTyped("idle", None, None, None)
  BY DEF SlotTyped, Phases
<1>5. ProcessTyped'
  BY <1>1 DEF Consume, ProcessTyped, TypeOK, processVars
<1> QED
  BY <1>1, <1>3, <1>4, <1>5, SlotStep

LEMMA RestartStep ==
  ASSUME IInv, Restart
  PROVE  IInv'
<1>1. /\ TypeOK /\ StoreTypeOK
      /\ StoreInv' /\ StoreTypeOK'
  BY StutterPreservesStoreInv DEF IInv, StoreInv, Restart
<1>2. ProcessTyped'
  <2>1. ingested' \in [IngestLabels -> Nat]
    BY DEF Restart, NoIngests
  <2>2. baseline' \in Nat
    BY <1>1, FS_CardinalityType DEF Restart, StoreTypeOK
  <2> QED
    BY <2>1, <2>2 DEF Restart, ProcessTyped
<1>3. \A s \in Slots : /\ pc'[s] = "idle" /\ request'[s] = None
                       /\ pending'[s] = None /\ answer'[s] = None
  BY DEF Restart
<1>4. TypeOK'
  <2>1. /\ pc' \in [Slots -> Phases]
        /\ request' \in [Slots -> Requests \cup {None}]
        /\ pending' \in [Slots -> TransitionRequest \cup {None}]
        /\ answer' \in [Slots -> Answers \cup {None}]
    BY DEF Restart, Phases
  <2> QED
    BY <1>1, <1>2, <1>3, <2>1 DEF TypeOK, ProcessTyped
<1> QED
  BY <1>1, <1>3, <1>4 DEF IInv, HandlersAreSound, AnswersAreTrue

-----------------------------------------------------------------------------
(* The theorems.                                                           *)

LEMMA InitIInv == Init => IInv
<1> SUFFICES ASSUME Init PROVE IInv
  OBVIOUS
<1>1. DOMAIN runs = {} /\ operations = <<>> /\ DOMAIN operations = {}
  BY DEF Init, StoreInit, NoRuns
<1>2. StoreTypeOK
  <2>1. runs \in [DOMAIN runs -> RunRow]
    BY <1>1 DEF Init, StoreInit
  <2>2. IsFiniteSet(DOMAIN runs)
    BY <1>1, FS_EmptySet
  <2> QED
    BY <1>1, <2>1, <2>2 DEF StoreTypeOK
<1>3. StoreInv
  BY <1>1, <1>2 DEF StoreInv, StatusFollowsAudit, KeyAppliedOnce,
                    RevalidationInventsNoStatus, LogIsSound
<1>4. \A s \in Slots : pc[s] = "idle" /\ request[s] = None /\ pending[s] = None /\ answer[s] = None
  BY DEF Init, Idle
<1>5. TypeOK
  <2>1. /\ pc \in [Slots -> Phases]
        /\ request \in [Slots -> Requests \cup {None}]
        /\ pending \in [Slots -> TransitionRequest \cup {None}]
        /\ answer \in [Slots -> Answers \cup {None}]
        /\ ingested \in [IngestLabels -> Nat]
        /\ contract \in Contracts
        /\ baseline \in Nat
    BY DEF Init, Idle, Phases, NoIngests
  <2> QED
    BY <1>2, <1>4, <2>1 DEF TypeOK
<1> QED
  BY <1>3, <1>4, <1>5 DEF IInv, HandlersAreSound, AnswersAreTrue

LEMMA NextIInv == IInv /\ [Next]_vars => IInv'
<1> SUFFICES ASSUME IInv, [Next]_vars PROVE IInv'
  OBVIOUS
<1>1. CASE Restart
  BY <1>1, RestartStep
<1>2. ASSUME NEW s \in Slots, Step(s)
      PROVE  IInv'
  <2>1. CASE \E document \in Documents : PostEvidence(s, document)
    BY <2>1, PostEvidenceStep
  <2>2. CASE Insert(s)
    BY <2>2, InsertStep
  <2>3. CASE Finish(s)
    BY <2>3, FinishStep
  <2>4. CASE \E q \in Offered : PostOperation(s, q)
    BY <2>4, PostOperationStep
  <2>5. CASE Read(s)
    BY <2>5, ReadStep
  <2>6. CASE Transition(s)
    BY <2>6, TransitionStep
  <2>7. CASE StoreError(s)
    BY <2>7, StoreErrorStep
  <2>8. CASE Consume(s)
    BY <2>8, ConsumeStep
  <2> QED
    BY <1>2, <2>1, <2>2, <2>3, <2>4, <2>5, <2>6, <2>7, <2>8 DEF Step
<1>3. CASE UNCHANGED vars
  <2>1. UNCHANGED storeVars /\ UNCHANGED handlerVars /\ UNCHANGED processVars
    BY <1>3 DEF vars
  <2>2. StoreInv' /\ Grows /\ StoreTypeOK /\ StoreTypeOK'
    BY <2>1, StutterPreservesStoreInv, StutterGrows DEF IInv, StoreInv
  <2>3. pc' = pc /\ request' = request /\ pending' = pending /\ answer' = answer
    BY <2>1 DEF handlerVars
  <2>4. TypeOK'
    BY <2>1, <2>2, <2>3 DEF IInv, TypeOK, processVars
  <2>5. ASSUME NEW s \in Slots, pc[s] = "applying"
        PROVE  ( /\ Admissible(pending[s])
                 /\ pending[s].key = request[s].key
                 /\ pending[s].digest = DigestOf(request[s]) )'
    <3>1. /\ Admissible(pending[s])
          /\ pending[s].key = request[s].key
          /\ pending[s].digest = DigestOf(request[s])
      BY <2>5 DEF IInv, HandlersAreSound
    <3> QED
      BY <2>2, <2>3, <3>1, AdmissibleIsStable DEF Admissible, DigestOf
  <2>6. HandlersAreSound'
    BY <2>3, <2>5 DEF IInv, HandlersAreSound, InputsValid
  <2>7. AnswersAreTrue'
    BY <2>2, <2>3, AnswerStaysTrue DEF IInv, AnswersAreTrue
  <2> QED
    BY <2>2, <2>4, <2>6, <2>7 DEF IInv
<1> QED
  BY <1>1, <1>2, <1>3 DEF Next

\* The inductive invariant holds in every reachable state.
THEOREM Inductive == Spec => []IInv
<1> QED
  BY InitIInv, NextIInv, PTL DEF Spec

\* Every variable keeps its type, whatever the number of requests, runs and
\* keys (the whole of EvidenceController and OperationsController).
THEOREM TypeCorrect == Spec => []TypeOK
<1>1. IInv => TypeOK
  BY DEF IInv
<1> QED
  BY <1>1, Inductive, PTL

\* The audit log explains every status (transition).
THEOREM AuditExplainsStatus == Spec => []StatusFollowsAudit
<1>1. IInv => StatusFollowsAudit
  BY DEF IInv, StoreInv
<1> QED
  BY <1>1, Inductive, PTL

\* No idempotency key takes effect twice (transition).
THEOREM KeysApplyOnce == Spec => []KeyAppliedOnce
<1>1. IInv => KeyAppliedOnce
  BY DEF IInv, StoreInv
<1> QED
  BY <1>1, Inductive, PTL

\* A revalidation writes only statuses its run has had (revalidate).
THEOREM RevalidationsAreHarmless == Spec => []RevalidationInventsNoStatus
<1>1. IInv => RevalidationInventsNoStatus
  BY DEF IInv, StoreInv
<1> QED
  BY <1>1, Inductive, PTL

\* No run is published that has measured failures or was never approved,
\* whatever raced with the approval (decidePublication, revalidate).
THEOREM ApprovalsAreEarned == Spec => []ApprovalIsEarned
<1>1. IInv => ApprovalIsEarned
  <2>1. SUFFICES ASSUME IInv, NEW id \in DOMAIN runs,
                        runs[id].status = "PUBLICATION_APPROVED"
                 PROVE  /\ ~ HasFailures(runs[id].evidence)
                        /\ \E i \in OperationsOn(id) :
                             operations[i].receipt = "publication_approved"
    BY DEF ApprovalIsEarned
  <2>2. PICK i \in OperationsOn(id) : operations[i].target = "PUBLICATION_APPROVED"
    BY <2>1 DEF IInv, StoreInv, StatusFollowsAudit
  <2> QED
    BY <2>1, <2>2 DEF IInv, StoreInv, LogIsSound, OperationsOn
<1> QED
  BY <1>1, Inductive, PTL

\* No response contradicts the database (mapErrors, apply, create).
THEOREM ResponsesAreTrue == Spec => []AnswersAreTrue
<1>1. IInv => AnswersAreTrue
  BY DEF IInv
<1> QED
  BY <1>1, Inductive, PTL

\* The steps that write the tables.
LEMMA StoreSteps ==
  ASSUME IInv, [Next]_vars
  PROVE  \/ UNCHANGED storeVars
         \/ \E e \in Evidence : InsertRun(e)
         \/ \E t \in TransitionRequest : ApplyTransition(t)
<1>1. CASE UNCHANGED vars
  BY <1>1 DEF vars
<1>2. CASE Restart
  BY <1>2 DEF Restart
<1>3. ASSUME NEW s \in Slots, Step(s)
      PROVE  \/ UNCHANGED storeVars
             \/ \E e \in Evidence : InsertRun(e)
             \/ \E t \in TransitionRequest : ApplyTransition(t)
  <2>1. SlotTyped(pc[s], request[s], pending[s], answer[s])
    BY SlotUnchanged DEF IInv
  <2>2. CASE Insert(s)
    <3>1. request[s] \in IngestRequest
      BY <2>1, <2>2 DEF SlotTyped, Insert
    <3>2. request[s].document \in Evidence
      BY <3>1, DomainAssumption DEF IngestRequest
    <3> QED
      BY <2>2, <3>2 DEF Insert
  <2>3. CASE Transition(s)
    <3>1. pending[s] \in TransitionRequest
      BY <2>1, <2>3 DEF SlotTyped, Transition
    <3> QED
      BY <2>3, <3>1 DEF Transition
  <2>4. CASE \/ \E document \in Documents : PostEvidence(s, document)
             \/ Finish(s)
             \/ \E q \in Offered : PostOperation(s, q)
             \/ Read(s)
             \/ StoreError(s)
             \/ Consume(s)
    BY <2>4 DEF PostEvidence, Finish, PostOperation, Read, StoreError, Consume
  <2> QED
    BY <1>3, <2>2, <2>3, <2>4 DEF Step
<1> QED
  BY <1>1, <1>2, <1>3 DEF Next

\* No step rewrites the audit log, drops a run, edits its evidence or moves
\* its status without an audit row (insert, transition).
THEOREM AuditNeverRewritten == Spec => AuditIsAppendOnly
<1> DEFINE P == /\ IsPrefixOf(operations, operations')
                /\ \A id \in DOMAIN runs :
                     /\ id \in DOMAIN runs'
                     /\ runs'[id].evidence = runs[id].evidence
                     /\ runs'[id].status # runs[id].status =>
                          /\ Len(operations') = Len(operations) + 1
                          /\ operations'[Len(operations')].runId = id
<1>1. ASSUME IInv, [Next]_vars
      PROVE  P
  <2>1. StoreTypeOK
    BY <1>1 DEF IInv, StoreInv
  <2>2. CASE UNCHANGED storeVars
    <3>1. Grows
      BY <2>1, <2>2, StutterGrows
    <3> QED
      BY <2>2, <3>1 DEF Grows, IsPrefixOf, storeVars
  <2>3. CASE \E e \in Evidence : InsertRun(e)
    <3>1. PICK e \in Evidence : InsertRun(e)
      BY <2>3
    <3>2. Grows /\ \A id \in DOMAIN runs : runs'[id] = runs[id]
      BY <2>1, <3>1, InsertGrows, InsertEffect
    <3> QED
      BY <3>2 DEF Grows, IsPrefixOf
  <2>4. CASE \E t \in TransitionRequest : ApplyTransition(t)
    <3>1. PICK t \in TransitionRequest : ApplyTransition(t)
      BY <2>4
    <3>2. Grows
      BY <2>1, <3>1, TransitionGrows
    <3>3. /\ \A id \in DOMAIN runs \ {t.runId} : runs'[id] = runs[id]
          /\ Len(operations') = Len(operations) + 1
          /\ operations'[Len(operations) + 1] = t
      BY <2>1, <3>1, TransitionEffect
    <3> QED
      BY <3>2, <3>3 DEF Grows, IsPrefixOf
  <2> QED
    BY <1>1, <2>2, <2>3, <2>4, StoreSteps
<1> QED
  BY <1>1, Inductive, PTL DEF Spec, AuditIsAppendOnly

-----------------------------------------------------------------------------
(* The ingestion counter and the table.                                    *)

\* The handlers whose insert is done and whose finally block is not.
Uncounted == {s \in Slots : pc[s] = "finishing" /\ answer[s].outcome = "created"}

LEMMA UncountedIsFinite ==
  IsFiniteSet(Uncounted) /\ Cardinality(Uncounted) \in Nat
<1>1. Uncounted \subseteq Slots /\ IsFiniteSet(Slots)
  BY ServiceAssumption DEF Uncounted
<1> QED
  BY <1>1, FS_Subset, FS_CardinalityType

\* A step of a handler that does not enter or leave its finally block with a
\* run to count leaves the tally as it is.
LEMMA TallyUnmoved ==
  ASSUME IngestionTally, NEW s \in Slots,
         \A other \in Slots \ {s} : pc'[other] = pc[other] /\ answer'[other] = answer[other],
         ~ (pc[s] = "finishing" /\ answer[s].outcome = "created"),
         ~ (pc'[s] = "finishing" /\ answer'[s].outcome = "created"),
         ingested'["accepted"] = ingested["accepted"],
         DOMAIN runs' = DOMAIN runs, baseline' = baseline
  PROVE  IngestionTally'
<1>1. Uncounted' = Uncounted
  BY DEF Uncounted
<1> QED
  BY <1>1 DEF IngestionTally, Uncounted

\* Which label of the counter an outcome moves.
LEMMA ObserveMoves ==
  ASSUME TypeOK, NEW outcome \in DOMAIN IngestLabel
  PROVE  /\ outcome = "created"
              => Observe(outcome)["accepted"] = ingested["accepted"] + 1
         /\ outcome # "created"
              => Observe(outcome)["accepted"] = ingested["accepted"]
<1>1. ingested \in [IngestLabels -> Nat] /\ "accepted" \in IngestLabels
  BY DEF TypeOK, IngestLabels
<1>2. outcome \in {"created", "invalid_evidence", "duplicate_run_id", "internal_error"}
  BY LabelsAre
<1>3. /\ outcome = "created" => IngestLabel[outcome] = "accepted"
      /\ outcome # "created" => IngestLabel[outcome] # "accepted"
  BY <1>2 DEF IngestLabel
<1>4. IngestLabel[outcome] \in IngestLabels
  BY LabelsAre
<1> QED
  BY <1>1, <1>3, <1>4 DEF Observe

LEMMA InsertTally ==
  ASSUME IInv, IngestionTally, NEW s \in Slots, Insert(s)
  PROVE  IngestionTally'
<1> DEFINE e == request[s].document
<1>1. TypeOK /\ StoreTypeOK
  BY DEF IInv, StoreInv
<1>2. SlotTyped(pc[s], request[s], pending[s], answer[s])
  BY <1>1, SlotUnchanged
<1>3. e \in Evidence
  BY <1>2, DomainAssumption DEF SlotTyped, Insert, IngestRequest
<1>4. /\ pc[s] = "inserting" /\ pc' = [pc EXCEPT ![s] = "finishing"]
      /\ ingested' = ingested /\ baseline' = baseline
  BY DEF Insert, processVars
<1>5. CASE InsertRun(e) /\ answer' = [answer EXCEPT ![s] = Says("created")]
  <2>1. DOMAIN runs' = DOMAIN runs \cup {e.run_id} /\ e.run_id \notin DOMAIN runs
    BY <1>1, <1>3, <1>5, InsertEffect
  <2>2. Cardinality(DOMAIN runs') = Cardinality(DOMAIN runs) + 1
    BY <1>1, <2>1, FS_AddElement DEF StoreTypeOK
  <2>3. pc'[s] = "finishing" /\ answer'[s].outcome = "created"
    BY <1>1, <1>4, <1>5, SaysTyped, OutcomesAre DEF TypeOK
  <2>4. \A other \in Slots \ {s} : pc'[other] = pc[other] /\ answer'[other] = answer[other]
    BY <1>1, <1>4, <1>5 DEF TypeOK
  <2>5. Uncounted' = Uncounted \cup {s} /\ s \notin Uncounted
    BY <1>4, <2>3, <2>4 DEF Uncounted
  <2>6. Cardinality(Uncounted') = Cardinality(Uncounted) + 1
    BY <2>5, UncountedIsFinite, FS_AddElement
  <2>7. ingested["accepted"] \in Nat /\ baseline \in Nat /\ Cardinality(DOMAIN runs) \in Nat
    BY <1>1, FS_CardinalityType DEF TypeOK, StoreTypeOK, IngestLabels
  <2>8. ingested["accepted"] + Cardinality(Uncounted) = Cardinality(DOMAIN runs) - baseline
    BY DEF IngestionTally, Uncounted
  <2>9. ingested'["accepted"] + Cardinality(Uncounted') = Cardinality(DOMAIN runs') - baseline'
    BY <1>4, <2>2, <2>6, <2>7, <2>8, UncountedIsFinite
  <2> QED
    BY <2>9 DEF IngestionTally, Uncounted
<1>6. CASE answer' = [answer EXCEPT ![s] = Says("duplicate_run_id")] /\ UNCHANGED storeVars
  <2>1. answer'[s].outcome = "duplicate_run_id"
    BY <1>1, <1>6, SaysTyped, OutcomesAre DEF TypeOK
  <2>2. \A other \in Slots \ {s} : pc'[other] = pc[other] /\ answer'[other] = answer[other]
    BY <1>1, <1>4, <1>6 DEF TypeOK
  <2> QED
    BY <1>4, <1>6, <2>1, <2>2, TallyUnmoved DEF storeVars
<1> QED
  BY <1>5, <1>6 DEF Insert

LEMMA FinishTally ==
  ASSUME IInv, IngestionTally, NEW s \in Slots, Finish(s)
  PROVE  IngestionTally'
<1> DEFINE outcome == answer[s].outcome
<1>1. TypeOK /\ StoreTypeOK
  BY DEF IInv, StoreInv
<1>2. /\ pc[s] = "finishing" /\ pc' = [pc EXCEPT ![s] = "answered"]
      /\ answer' = [answer EXCEPT ![s] = answer[s]]
      /\ ingested' = Observe(outcome) /\ runs' = runs /\ baseline' = baseline
  BY DEF Finish, Respond, storeVars
<1>3. outcome \in DOMAIN IngestLabel
  BY <1>1, <1>2 DEF TypeOK
<1>4. /\ \A other \in Slots \ {s} : pc'[other] = pc[other] /\ answer'[other] = answer[other]
      /\ pc'[s] = "answered"
  BY <1>1, <1>2 DEF TypeOK
<1>5. CASE outcome = "created"
  <2>1. Uncounted' = Uncounted \ {s} /\ s \in Uncounted
    BY <1>2, <1>4, <1>5 DEF Uncounted
  <2>2. Cardinality(Uncounted') = Cardinality(Uncounted) - 1
    BY <2>1, UncountedIsFinite, FS_RemoveElement
  <2>3. ingested'["accepted"] = ingested["accepted"] + 1
    BY <1>1, <1>2, <1>3, <1>5, ObserveMoves
  <2>4. ingested["accepted"] \in Nat
    BY <1>1 DEF TypeOK, IngestLabels
  <2>5. ingested["accepted"] + Cardinality(Uncounted) = Cardinality(DOMAIN runs) - baseline
    BY DEF IngestionTally, Uncounted
  <2>6. ingested'["accepted"] + Cardinality(Uncounted') = Cardinality(DOMAIN runs') - baseline'
    BY <1>2, <2>2, <2>3, <2>4, <2>5, UncountedIsFinite
  <2> QED
    BY <2>6 DEF IngestionTally, Uncounted
<1>6. CASE outcome # "created"
  <2>1. ingested'["accepted"] = ingested["accepted"]
    BY <1>1, <1>2, <1>3, <1>6, ObserveMoves
  <2> QED
    BY <1>2, <1>4, <1>6, <2>1, TallyUnmoved
<1> QED
  BY <1>5, <1>6

\* Every other step of a handler leaves the tally alone.
LEMMA OtherTally ==
  ASSUME IInv, IngestionTally, NEW s \in Slots,
         \/ \E document \in Documents : PostEvidence(s, document)
         \/ \E q \in Offered : PostOperation(s, q)
         \/ Read(s) \/ Transition(s) \/ StoreError(s) \/ Consume(s)
  PROVE  IngestionTally'
<1>1. TypeOK /\ StoreTypeOK
  BY DEF IInv, StoreInv
<1>2. pc[s] # "finishing"
  BY DEF PostEvidence, PostOperation, Read, Transition, StoreError, Consume
<1>3. SUFFICES
        /\ \A other \in Slots \ {s} : pc'[other] = pc[other] /\ answer'[other] = answer[other]
        /\ ~ (pc'[s] = "finishing" /\ answer'[s].outcome = "created")
        /\ ingested'["accepted"] = ingested["accepted"]
        /\ DOMAIN runs' = DOMAIN runs
        /\ baseline' = baseline
  BY <1>2, TallyUnmoved
<1>4. CASE \E document \in Documents : PostEvidence(s, document)
  <2>1. ingested' = ingested \/ ingested' = Observe("invalid_evidence")
    BY <1>4 DEF PostEvidence
  <2>2. ingested'["accepted"] = ingested["accepted"]
    BY <1>1, <2>1, ObserveMoves, LabelsAre
  <2> QED
    BY <1>1, <1>4, <2>2 DEF PostEvidence, Respond, TypeOK, storeVars
<1>5. CASE \E q \in Offered : PostOperation(s, q)
  BY <1>1, <1>5 DEF PostOperation, Respond, Apply, TypeOK, storeVars, processVars
<1>6. CASE Read(s)
  BY <1>1, <1>6 DEF Read, Respond, Apply, TypeOK, storeVars, processVars
<1>7. CASE Transition(s)
  <2>1. \E response : Respond(s, response)
    BY <1>7 DEF Transition
  <2>2. SlotTyped(pc[s], request[s], pending[s], answer[s])
    BY <1>1, SlotUnchanged
  <2>3. pending[s] \in TransitionRequest
    BY <1>7, <2>2 DEF SlotTyped, Transition
  <2>4. CASE UNCHANGED storeVars
    BY <1>1, <1>7, <2>1, <2>4 DEF Transition, Respond, TypeOK, storeVars, processVars
  <2>5. CASE ApplyTransition(pending[s])
    <3>1. DOMAIN runs' = DOMAIN runs
      BY <1>1, <2>3, <2>5, TransitionEffect
    <3> QED
      BY <1>1, <1>7, <2>1, <3>1 DEF Transition, Respond, TypeOK, processVars
  <2> QED
    BY <1>7, <2>4, <2>5 DEF Transition
<1>8. CASE StoreError(s)
  <2>1. Says("internal_error").outcome = "internal_error"
    BY SaysTyped, OutcomesAre
  <2>2. pc'[s] = "finishing" => answer'[s].outcome = "internal_error"
    BY <1>1, <1>8, <2>1 DEF StoreError, Respond, TypeOK
  <2> QED
    BY <1>1, <1>8, <2>2 DEF StoreError, Respond, TypeOK, storeVars, processVars
<1>9. CASE Consume(s)
  BY <1>1, <1>9 DEF Consume, TypeOK, storeVars, processVars
<1> QED
  BY <1>4, <1>5, <1>6, <1>7, <1>8, <1>9

LEMMA RestartTally ==
  ASSUME IInv, Restart
  PROVE  IngestionTally'
<1>1. IsFiniteSet(DOMAIN runs)
  BY DEF IInv, StoreInv, StoreTypeOK
<1>2. Uncounted' = {}
  BY DEF Restart, Uncounted
<1>3. Cardinality(Uncounted') = 0
  BY <1>2, FS_EmptySet
<1>4. ingested'["accepted"] = 0
  BY DEF Restart, NoIngests, IngestLabels
<1>5. /\ Cardinality(DOMAIN runs') = Cardinality(DOMAIN runs)
      /\ baseline' = Cardinality(DOMAIN runs)
      /\ Cardinality(DOMAIN runs) \in Nat
  BY <1>1, FS_CardinalityType DEF Restart, storeVars
<1>6. ingested'["accepted"] + Cardinality(Uncounted') = Cardinality(DOMAIN runs') - baseline'
  BY <1>3, <1>4, <1>5
<1> QED
  BY <1>6 DEF IngestionTally, Uncounted

LEMMA InitTally == Init => IngestionTally
<1> SUFFICES ASSUME Init PROVE IngestionTally
  OBVIOUS
<1>1. Uncounted = {} /\ DOMAIN runs = {}
  BY DEF Init, Idle, Uncounted, StoreInit, NoRuns
<1>2. Cardinality(Uncounted) = 0 /\ Cardinality(DOMAIN runs) = 0
  BY <1>1, FS_EmptySet
<1>3. ingested["accepted"] = 0 /\ baseline = 0
  BY DEF Init, NoIngests, IngestLabels
<1>4. ingested["accepted"] + Cardinality(Uncounted) = Cardinality(DOMAIN runs) - baseline
  BY <1>2, <1>3
<1> QED
  BY <1>4 DEF IngestionTally, Uncounted

\* However ingestions interleave, fail and are cut short, the counter of
\* accepted ingestions agrees with the table (EvidenceController.create).
THEOREM CounterIsTrue == Spec => []IngestionTally
<1>1. ASSUME IInv, IngestionTally, [Next]_vars
      PROVE  IngestionTally'
  <2>1. CASE Restart
    BY <1>1, <2>1, RestartTally
  <2>2. ASSUME NEW s \in Slots, Step(s)
        PROVE  IngestionTally'
    BY <1>1, <2>2, InsertTally, FinishTally, OtherTally DEF Step
  <2>3. CASE UNCHANGED vars
    BY <1>1, <2>3 DEF vars, storeVars, handlerVars, processVars, IngestionTally
  <2> QED
    BY <1>1, <2>1, <2>2, <2>3 DEF Next
<1> QED
  BY <1>1, InitTally, Inductive, PTL DEF Spec

-----------------------------------------------------------------------------
(* Replays of committed operations.                                        *)

\* An operation is committed only after its inputs were checked.
InputsWereChecked ==
  /\ \A s \in Slots : pc[s] = "applying" => InputsValid(request[s])
  /\ \A i \in DOMAIN operations :
       /\ operations[i].digest.runId \in OperableIds
       /\ operations[i].digest.command # "revalidate" => operations[i].digest.reason # None

\* The committed operations of a step are those of before, and perhaps the
\* transition of one handler.
LEMMA CheckedInputsGrow ==
  ASSUME IInv, InputsWereChecked, [Next]_vars
  PROVE  InputsWereChecked'
<1>1. TypeOK /\ StoreTypeOK /\ HandlersAreSound
  BY DEF IInv, StoreInv
<1>2. CASE Restart
  BY <1>2 DEF Restart, InputsWereChecked, storeVars
<1>3. CASE UNCHANGED vars
  BY <1>3 DEF vars, storeVars, handlerVars, InputsWereChecked
<1>4. ASSUME NEW s \in Slots, Step(s)
      PROVE  InputsWereChecked'
  <2>1. \A other \in Slots \ {s} : pc'[other] = pc[other] /\ request'[other] = request[other]
    BY <1>1, <1>4 DEF Step, PostEvidence, Insert, Finish, PostOperation, Read, Transition,
       StoreError, Consume, Respond, Apply, TypeOK
  <2>2. pc'[s] = "applying" => InputsValid(request'[s])
    <3>1. CASE \E q \in Offered : PostOperation(s, q)
      BY <1>1, <3>1 DEF PostOperation, Respond, Apply, TypeOK
    <3>2. CASE Read(s)
      BY <1>1, <3>2 DEF Read, HandlersAreSound
    <3>3. CASE ~ (\E q \in Offered : PostOperation(s, q)) /\ ~ Read(s)
      BY <1>1, <1>4, <3>3 DEF Step, PostEvidence, Insert, Finish, Transition, StoreError,
         Consume, Respond, TypeOK
    <3> QED
      BY <3>1, <3>2, <3>3
  <2>3. \A other \in Slots : pc'[other] = "applying" => InputsValid(request'[other])
    BY <2>1, <2>2 DEF InputsWereChecked
  <2>4. CASE Transition(s) /\ ApplyTransition(pending[s])
    <3> DEFINE t == pending[s]
    <3>1. t \in TransitionRequest /\ t.digest = DigestOf(request[s]) /\ InputsValid(request[s])
      BY <1>1, <2>4, SlotUnchanged DEF SlotTyped, Transition, HandlersAreSound, InputsWereChecked
    <3>2. /\ DOMAIN operations' = DOMAIN operations \cup {Len(operations) + 1}
          /\ \A i \in DOMAIN operations : operations'[i] = operations[i]
          /\ operations'[Len(operations) + 1] = t
      BY <1>1, <2>4, <3>1, TransitionEffect
    <3>3. /\ t.digest.runId \in OperableIds
          /\ t.digest.command # "revalidate" => t.digest.reason # None
      BY <3>1 DEF DigestOf, InputsValid
    <3> HIDE DEF t
    <3> QED
      BY <2>3, <3>2, <3>3 DEF InputsWereChecked
  <2>5. CASE UNCHANGED operations
    BY <2>3, <2>5 DEF InputsWereChecked
  <2>6. UNCHANGED operations \/ (Transition(s) /\ ApplyTransition(pending[s]))
    BY <1>4 DEF Step, PostEvidence, Insert, InsertRun, Finish, PostOperation, Read, Transition,
       StoreError, Consume, storeVars
  <2> QED
    BY <2>4, <2>5, <2>6
<1> QED
  BY <1>2, <1>3, <1>4 DEF Next

LEMMA InputsAlwaysChecked == Spec => []InputsWereChecked
<1>1. Init => InputsWereChecked
  BY DEF Init, Idle, StoreInit, InputsWereChecked
<1>2. IInv /\ InputsWereChecked /\ [Next]_vars => InputsWereChecked'
  BY CheckedInputsGrow
<1> QED
  BY <1>1, <1>2, Inductive, PTL DEF Spec

\* What a committed operation says of a request that replays it.
LEMMA CommittedMeans ==
  ASSUME IInv, InputsWereChecked, NEW q \in OperationRequest, HasCommitted(q)
  PROVE  /\ Stored(q.runId)
         /\ InputsValid(q)
         /\ \A t : t.runId = q.runId /\ t.command = q.command /\ t.key = q.key
                      /\ t.digest = DigestOf(q)
                    => KeyUsed(operations, t.key) /\ ~ IsConflict(t)
<1>1. PICK i \in DOMAIN operations :
        operations[i].key = q.key /\ operations[i].digest = DigestOf(q)
  BY DEF HasCommitted
<1>2. /\ operations[i].runId \in DOMAIN runs
      /\ operations[i].digest.runId = operations[i].runId
      /\ operations[i].digest.command = operations[i].command
      /\ operations[i] \in TransitionRequest
  BY DEF IInv, StoreInv, LogIsSound, StoreTypeOK
<1>3. /\ operations[i].digest.runId = q.runId /\ operations[i].digest.command = q.command
      /\ operations[i].digest.reason = q.reason
  BY <1>1 DEF DigestOf
<1>4. Stored(q.runId)
  BY <1>2, <1>3 DEF Stored
<1>5. q.key # None
  BY <1>1, <1>2, DomainAssumption DEF TransitionRequest
<1>6. InputsValid(q)
  BY <1>3, <1>5 DEF InputsValid, InputsWereChecked
<1>7. ASSUME NEW t, t.runId = q.runId, t.command = q.command, t.key = q.key,
             t.digest = DigestOf(q)
      PROVE  KeyUsed(operations, t.key) /\ ~ IsConflict(t)
  <2>1. KeyUsed(operations, t.key)
    BY <1>1, <1>7 DEF KeyUsed
  <2>2. OperationOf(operations, t.key) = i
    BY <1>1, <1>7, <2>1, OperationOfKey DEF IInv, StoreInv, KeyAppliedOnce
  <2>3. SamePayload(operations[i], t)
    BY <1>1, <1>2, <1>3, <1>7 DEF SamePayload
  <2> QED
    BY <2>1, <2>2, <2>3 DEF IsConflict
<1> QED
  BY <1>4, <1>6, <1>7

\* A handler that responds to a replayed quarantine or rejection.
LEMMA ReplayIsAnswered ==
  ASSUME IInv, InputsWereChecked, NEW s \in Slots, Step(s), Responds(s),
         Unguarded(request'[s]), HasCommitted(request'[s])
  PROVE  answer'[s].outcome \in {"ok", "internal_error"}
<1>1. TypeOK /\ SlotTyped(pc[s], request[s], pending[s], answer[s])
  BY SlotUnchanged DEF IInv
<1>2. /\ Says("internal_error").outcome = "internal_error"
      /\ \A i, row : Succeeds(i, row).outcome = "ok"
  BY SaysTyped, OutcomesAre DEF Succeeds
<1>3. \A response : Respond(s, response) => answer'[s] = response
  BY <1>1 DEF Respond, TypeOK
<1>4. CASE (\E document \in Documents : PostEvidence(s, document)) \/ Insert(s) \/ Finish(s)
  <2>1. request'[s].command = "ingest"
    BY <1>1, <1>4 DEF PostEvidence, Insert, Finish, SlotTyped, TypeOK, IngestRequest
  <2> QED
    BY <2>1 DEF Unguarded
<1>5. CASE \E q \in Offered : PostOperation(s, q)
  <2>1. PICK q \in Offered : PostOperation(s, q)
    BY <1>5
  <2>2. request'[s] = q /\ q \in OperationRequest
    BY <1>1, <2>1, ServiceAssumption DEF PostOperation, TypeOK
  <2>3. InputsValid(q)
    BY <2>2, CommittedMeans
  <2>4. Respond(s, Says("internal_error"))
    BY <1>1, <2>1, <2>3 DEF PostOperation, Responds, Apply, TypeOK
  <2> QED
    BY <1>2, <1>3, <2>4
<1>6. CASE Read(s)
  <2> DEFINE q == request[s]
  <2>1. request'[s] = q /\ q \in OperationRequest
    BY <1>1, <1>6 DEF Read, SlotTyped
  <2>2. Stored(q.runId) /\ ~ IsApproval(q) /\ q.command # "revalidate"
    BY <2>1, CommittedMeans DEF Unguarded, IsApproval
  <2>3. \E t : Apply(s, t)
    BY <1>6, <2>2 DEF Read, Blocked
  <2> QED
    BY <1>1, <2>3 DEF Apply, Responds, TypeOK
<1>7. CASE Transition(s)
  <2> DEFINE q == request[s]
             t == pending[s]
  <2>1. request'[s] = q /\ q \in OperationRequest
    BY <1>1, <1>7 DEF Transition, SlotTyped
  <2>2. /\ t.key = q.key /\ t.digest = DigestOf(q)
        /\ t.digest.runId = t.runId /\ t.digest.command = t.command
    BY <1>7 DEF Transition, IInv, HandlersAreSound, Admissible
  <2>3. t.runId = q.runId /\ t.command = q.command
    BY <2>2 DEF DigestOf
  <2> HIDE DEF q, t
  <2>4. ~ IsConflict(t) /\ ~ IsMissing(t)
    BY <2>1, <2>2, <2>3, CommittedMeans DEF IsMissing, q
  <2>5. \E i, row : Respond(s, Succeeds(i, row))
    BY <1>7, <2>4 DEF Transition, t
  <2> QED
    BY <1>2, <1>3, <2>5
<1>8. CASE StoreError(s)
  <2>1. Respond(s, Says("internal_error"))
    BY <1>1, <1>8 DEF StoreError, Responds, TypeOK
  <2> QED
    BY <1>2, <1>3, <2>1
<1>9. CASE Consume(s)
  BY <1>1, <1>9 DEF Consume, Responds, TypeOK
<1> QED
  BY <1>4, <1>5, <1>6, <1>7, <1>8, <1>9 DEF Step

\* A client that retries a quarantine or a rejection that was committed is
\* given its receipt, whatever happened to the run since (apply, transition).
THEOREM RetriesAreSafe == Spec => UnguardedReplayReturnsReceipt
<1> DEFINE P == \A s \in Slots :
                  Responds(s) /\ Unguarded(request'[s]) /\ HasCommitted(request'[s])
                    => answer'[s].outcome \in {"ok", "internal_error"}
<1>1. ASSUME IInv, InputsWereChecked, [Next]_vars
      PROVE  P \/ UNCHANGED vars
  <2>1. SUFFICES ASSUME NEW s \in Slots, Next, Responds(s),
                        Unguarded(request'[s]), HasCommitted(request'[s])
                 PROVE  answer'[s].outcome \in {"ok", "internal_error"}
    BY <1>1
  <2>2. ~ Restart
    BY <2>1 DEF Restart, Responds
  <2>3. PICK other \in Slots : Step(other)
    BY <2>1, <2>2 DEF Next
  <2>4. other = s
    <3>1. other # s => pc'[s] = pc[s]
      BY <1>1, <2>3 DEF IInv, TypeOK, Step, PostEvidence, Insert, Finish, PostOperation, Read,
         Transition, StoreError, Consume, Respond, Apply
    <3> QED
      BY <2>1, <3>1 DEF Responds
  <2> QED
    BY <1>1, <2>1, <2>3, <2>4, ReplayIsAnswered
<1> QED
  BY <1>1, Inductive, InputsAlwaysChecked, PTL DEF Spec, UnguardedReplayReturnsReceipt

-----------------------------------------------------------------------------
(* One request at a time.                                                  *)

\* The process serves one request at a time, of any length of the history.
OneAtATime == \A s, other \in Slots : s = other

\* What a handler read is still so when its transition reaches the store.
IsCurrent(t) ==
  /\ t.command = "revalidate" => runs[t.runId].status = t.target
  /\ t.command = "publication_decision" /\ t.target = "PUBLICATION_APPROVED" =>
       runs[t.runId].status # "QUARANTINED"

ReadIsCurrent == \A s \in Slots : pc[s] = "applying" => IsCurrent(pending[s])

LEMMA ReadStaysCurrent ==
  ASSUME OneAtATime, IInv, ReadIsCurrent, [Next]_vars
  PROVE  ReadIsCurrent'
<1>1. TypeOK
  BY DEF IInv
<1>2. CASE Restart
  BY <1>2 DEF Restart, ReadIsCurrent
<1>3. CASE UNCHANGED vars
  BY <1>3 DEF vars, storeVars, handlerVars, ReadIsCurrent, IsCurrent
<1>4. ASSUME NEW s \in Slots, Step(s)
      PROVE  ReadIsCurrent'
  <2> SUFFICES ASSUME pc'[s] = "applying" PROVE IsCurrent(pending[s])'
    BY DEF ReadIsCurrent, OneAtATime
  <2>1. CASE \E q \in Offered : PostOperation(s, q)
    <3>1. PICK q \in Offered : PostOperation(s, q)
      BY <2>1
    <3>2. q.command = "quarantine" /\ pending'[s] = TransitionFor(q, "QUARANTINED")
      BY <1>1, <3>1 DEF PostOperation, Respond, Apply, TypeOK
    <3>3. pending'[s].command = "quarantine"
      BY <3>2 DEF TransitionFor
    <3> QED
      BY <3>3 DEF IsCurrent
  <2>2. CASE Read(s)
    <3> DEFINE q == request[s]
               status == runs[q.runId].status
               t == TransitionFor(q, status)
    <3>1. q \in OperationRequest
      BY <1>1, <2>2 DEF Read, TypeOK
    <3>2. ~ Blocked(q, runs[q.runId].evidence, status) /\ pending'[s] = t /\ runs' = runs
      BY <1>1, <2>2 DEF Read, Respond, Apply, TypeOK, storeVars
    <3>3. t.command = q.command /\ t.runId = q.runId /\ t.target = TargetStatus(q, status)
      BY DEF TransitionFor
    <3>4. q.command = "revalidate" => t.target = status
      BY <3>1, <3>3, TargetOfCommand
    <3>5. q.command = "publication_decision" /\ t.target = "PUBLICATION_APPROVED" =>
            status # "QUARANTINED"
      BY <3>1, <3>2, <3>3, TargetOfCommand DEF Blocked
    <3> HIDE DEF t
    <3> QED
      BY <3>2, <3>3, <3>4, <3>5 DEF IsCurrent
  <2>3. CASE ~ (\E q \in Offered : PostOperation(s, q)) /\ ~ Read(s)
    BY <1>1, <1>4, <2>3 DEF Step, PostEvidence, Insert, Finish, Transition, StoreError,
       Consume, Respond, TypeOK
  <2> QED
    BY <2>1, <2>2, <2>3
<1> QED
  BY <1>2, <1>3, <1>4 DEF Next

LEMMA ReadsAlwaysCurrent ==
  ASSUME OneAtATime
  PROVE  Spec => []ReadIsCurrent
<1>1. Init => ReadIsCurrent
  BY DEF Init, Idle, ReadIsCurrent
<1>2. IInv /\ ReadIsCurrent /\ [Next]_vars => ReadIsCurrent'
  BY ReadStaysCurrent
<1> QED
  BY <1>1, <1>2, Inductive, PTL DEF Spec

\* The step that commits an operation is that of the handler it is pending in.
LEMMA CommitsArePending ==
  ASSUME IInv, [Next]_vars, NEW command, NEW id \in DOMAIN runs, Commits(command, id)
  PROVE  \E s \in Slots : /\ pc[s] = "applying"
                          /\ pending[s].command = command
                          /\ pending[s].runId = id
                          /\ runs'[id].status = pending[s].target
<1>1. TypeOK /\ StoreTypeOK /\ Len(operations) \in Nat
  BY DEF IInv, StoreInv, StoreTypeOK
<1>2. operations' # operations
  BY <1>1 DEF Commits
<1>3. PICK s \in Slots : Transition(s) /\ ApplyTransition(pending[s])
  BY <1>2 DEF Next, Restart, Step, PostEvidence, Insert, InsertRun, Finish, PostOperation, Read,
     Transition, StoreError, Consume, storeVars, vars
<1>4. pc[s] = "applying" /\ pending[s] \in TransitionRequest
  BY <1>1, <1>3, SlotUnchanged DEF SlotTyped, Transition
<1>5. /\ Len(operations') = Len(operations) + 1
      /\ operations'[Len(operations) + 1] = pending[s]
      /\ runs'[pending[s].runId].status = pending[s].target
  BY <1>1, <1>3, <1>4, TransitionEffect
<1> QED
  BY <1>4, <1>5 DEF Commits

\* A service that serves one request at a time keeps the status of a run it
\* revalidates: only what another handler does between the two store calls
\* of revalidate can make it stale.
THEOREM AloneRevalidationsKeepStatus ==
  ASSUME OneAtATime
  PROVE  Spec => RevalidationKeepsStatus
<1> DEFINE P == \A id \in DOMAIN runs :
                  Commits("revalidate", id) => runs'[id].status = runs[id].status
<1>1. ASSUME IInv, ReadIsCurrent, [Next]_vars
      PROVE  P
  <2>1. SUFFICES ASSUME NEW id \in DOMAIN runs, Commits("revalidate", id)
                 PROVE  runs'[id].status = runs[id].status
    OBVIOUS
  <2>2. PICK s \in Slots : /\ pc[s] = "applying" /\ pending[s].command = "revalidate"
                           /\ pending[s].runId = id
                           /\ runs'[id].status = pending[s].target
    BY <1>1, <2>1, CommitsArePending
  <2> QED
    BY <1>1, <2>2 DEF ReadIsCurrent, IsCurrent
<1> QED
  BY <1>1, Inductive, ReadsAlwaysCurrent, PTL DEF Spec, RevalidationKeepsStatus

\* A service that serves one request at a time approves no quarantined run
\* (the blockers of decidePublication).
THEOREM AloneQuarantineBlocksApproval ==
  ASSUME OneAtATime
  PROVE  Spec => QuarantineBlocksApproval
<1> DEFINE P == \A id \in DOMAIN runs :
                  Commits("publication_decision", id) /\ runs[id].status = "QUARANTINED"
                    => runs'[id].status # "PUBLICATION_APPROVED"
<1>1. ASSUME IInv, ReadIsCurrent, [Next]_vars
      PROVE  P
  <2>1. SUFFICES ASSUME NEW id \in DOMAIN runs, Commits("publication_decision", id),
                        runs[id].status = "QUARANTINED"
                 PROVE  runs'[id].status # "PUBLICATION_APPROVED"
    OBVIOUS
  <2>2. PICK s \in Slots : /\ pc[s] = "applying" /\ pending[s].command = "publication_decision"
                           /\ pending[s].runId = id
                           /\ runs'[id].status = pending[s].target
    BY <1>1, <2>1, CommitsArePending
  <2> QED
    BY <1>1, <2>1, <2>2 DEF ReadIsCurrent, IsCurrent
<1> QED
  BY <1>1, Inductive, ReadsAlwaysCurrent, PTL DEF Spec, QuarantineBlocksApproval

=============================================================================

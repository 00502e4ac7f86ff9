----------------------- MODULE SqliteRepositoryProofs -----------------------
(***************************************************************************)
(* Proofs of the safety of SqliteRepository, and that it implements        *)
(* AtomicRepository, for any number of callers and any calls.  The         *)
(* argument: only the holder of the mutex writes, HolderWritesAlone says   *)
(* after which statement of which call what the connection shows, and so   *)
(* COMMIT is the one step at which a call takes effect.                    *)
(***************************************************************************)
EXTENDS SqliteRepository, TLAPS

-----------------------------------------------------------------------------
(* The tables.                                                             *)

\* The row written by insert.
LEMMA WithRunTyped ==
  ASSUME NEW tables, TablesOK(tables), NEW e \in Evidence
  PROVE  /\ TablesOK([tables EXCEPT !.runs = WithRun(@, e)])
         /\ DOMAIN WithRun(tables.runs, e) = DOMAIN tables.runs \cup {e.run_id}
         /\ WithRun(tables.runs, e)[e.run_id].evidence = e
         /\ \A id \in DOMAIN tables.runs \ {e.run_id} :
              WithRun(tables.runs, e)[id] = tables.runs[id]
<1> DEFINE new == WithRun(tables.runs, e)
<1>1. e.run_id \in RunIds
  BY DEF Evidence
<1>2. /\ DOMAIN new = DOMAIN tables.runs \cup {e.run_id}
      /\ new[e.run_id] = [evidence |-> e, status |-> "ACCEPTED"]
      /\ \A id \in DOMAIN tables.runs \ {e.run_id} : new[id] = tables.runs[id]
      /\ new = [id \in DOMAIN new |-> new[id]]
  BY DEF WithRun
<1>3. [evidence |-> e, status |-> "ACCEPTED"] \in RunRow
  BY DEF RunRow, EvidenceStatus
<1>4. DOMAIN new \subseteq RunIds
  BY <1>1, <1>2 DEF TablesOK
<1>5. \A id \in DOMAIN new : new[id] \in RunRow
  BY <1>2, <1>3 DEF TablesOK
<1>6. new \in [DOMAIN new -> RunRow]
  BY <1>2, <1>5
<1>7. [tables EXCEPT !.runs = new]
        = [runs |-> new, metrics |-> tables.metrics, operations |-> tables.operations]
  BY DEF TablesOK
<1>8. TablesOK([tables EXCEPT !.runs = new])
  BY <1>4, <1>6, <1>7 DEF TablesOK
<1> QED
  BY <1>2, <1>8

\* The UPDATE of transition changes one status and no evidence.
LEMMA WithStatusTyped ==
  ASSUME NEW tables, TablesOK(tables), NEW id \in DOMAIN tables.runs,
         NEW status \in EvidenceStatus
  PROVE  /\ TablesOK([tables EXCEPT !.runs = WithStatus(@, id, status)])
         /\ DOMAIN WithStatus(tables.runs, id, status) = DOMAIN tables.runs
         /\ \A other \in DOMAIN tables.runs :
              WithStatus(tables.runs, id, status)[other].evidence = tables.runs[other].evidence
<1> DEFINE new == WithStatus(tables.runs, id, status)
<1>1. \A other \in DOMAIN tables.runs : tables.runs[other] \in RunRow
  BY DEF TablesOK
<1>2. /\ DOMAIN new = DOMAIN tables.runs
      /\ new = [other \in DOMAIN new |-> new[other]]
      /\ \A other \in DOMAIN tables.runs \ {id} : new[other] = tables.runs[other]
      /\ new[id] = [tables.runs[id] EXCEPT !.status = status]
  BY DEF WithStatus, TablesOK
<1>3. new[id] \in RunRow /\ new[id].evidence = tables.runs[id].evidence
  BY <1>1, <1>2 DEF RunRow
<1>4. \A other \in DOMAIN new : new[other] \in RunRow
  BY <1>1, <1>2, <1>3
<1>5. new \in [DOMAIN new -> RunRow]
  BY <1>2, <1>4
<1>6. [tables EXCEPT !.runs = new]
        = [runs |-> new, metrics |-> tables.metrics, operations |-> tables.operations]
  BY DEF TablesOK
<1>7. TablesOK([tables EXCEPT !.runs = new])
  BY <1>2, <1>5, <1>6 DEF TablesOK
<1> QED
  BY <1>2, <1>3, <1>7

\* The metric rows of a document are rows of the table.
LEMMA MetricRowsTyped ==
  ASSUME NEW e \in Evidence
  PROVE  MetricRowsOf(e) \subseteq MetricRow
<1>1. e.run_id \in RunIds /\ e.metrics \in Seq(Metric)
  BY DEF Evidence
<1>2. \A i \in DOMAIN e.metrics : e.metrics[i] \in Metric
  BY <1>1
<1> QED
  BY <1>1, <1>2 DEF MetricRowsOf, MetricRow, Metric

\* The other two writes keep the type of the tables.
LEMMA OtherWritesTyped ==
  ASSUME NEW tables, TablesOK(tables)
  PROVE  /\ \A e \in Evidence :
              TablesOK([tables EXCEPT !.metrics = @ \cup MetricRowsOf(e)])
         /\ \A t \in TransitionRequest :
              TablesOK([tables EXCEPT !.operations = Append(@, t)])
<1>1. /\ tables = [runs |-> tables.runs, metrics |-> tables.metrics, operations |-> tables.operations]
      /\ tables.metrics \subseteq MetricRow
      /\ tables.operations \in Seq(TransitionRequest)
  BY DEF TablesOK
<1>2. ASSUME NEW e \in Evidence
      PROVE  TablesOK([tables EXCEPT !.metrics = @ \cup MetricRowsOf(e)])
  <2> DEFINE metrics == tables.metrics \cup MetricRowsOf(e)
  <2>1. metrics \subseteq MetricRow
    BY <1>1, MetricRowsTyped
  <2> HIDE DEF metrics
  <2>2. [tables EXCEPT !.metrics = metrics]
          = [runs |-> tables.runs, metrics |-> metrics, operations |-> tables.operations]
    BY <1>1
  <2>3. TablesOK([tables EXCEPT !.metrics = metrics])
    BY <2>1, <2>2 DEF TablesOK
  <2> QED
    BY <2>3 DEF metrics
<1>3. ASSUME NEW t \in TransitionRequest
      PROVE  TablesOK([tables EXCEPT !.operations = Append(@, t)])
  <2> DEFINE log == Append(tables.operations, t)
  <2>1. log \in Seq(TransitionRequest)
    BY <1>1
  <2> HIDE DEF log
  <2>2. [tables EXCEPT !.operations = log]
          = [runs |-> tables.runs, metrics |-> tables.metrics, operations |-> log]
    BY <1>1
  <2>3. TablesOK([tables EXCEPT !.operations = log])
    BY <2>1, <2>2 DEF TablesOK
  <2> QED
    BY <2>3 DEF log
<1> QED
  BY <1>2, <1>3

-----------------------------------------------------------------------------
(* The invariant, and what it says of the call that runs a statement.      *)

IInv == TypeOK /\ RunsComplete /\ HolderWritesAlone

\* A call that runs a statement holds the mutex and is not answered yet.
LEMMA AtStatement ==
  ASSUME IInv, NEW c \in Callers, phase[c] \in Statements
  PROVE  /\ holder = c /\ holder # None
         /\ call[c] \in Calls /\ call[c] # None
         /\ result[c] = None
         /\ phase[c] \in StatementsOf(call[c])
         /\ HolderIsAt(c)
<1>1. CallerOK(c) /\ call[c] \in Calls \cup {None}
  BY DEF IInv, TypeOK
<1>2. phase[c] \notin {"idle", "release", "returned"}
  BY DEF Statements
<1>3. holder = c /\ HolderIsAt(c)
  BY <1>1 DEF CallerOK, IInv, HolderWritesAlone
<1> QED
  BY <1>1, <1>2, <1>3, NoneAssumption DEF CallerOK

\* A statement says what its call has asked for.
LEMMA CallOfStatement ==
  ASSUME NEW what \in Calls
  PROVE  /\ what.op = "insert" => what.evidence \in Evidence
         /\ what.op = "transition" => what.transition \in TransitionRequest
         /\ what.op \in {"insert", "findRun", "check", "transition"}
         /\ {"insertRun", "insertMetrics"} \cap StatementsOf(what) # {}
              => what.op = "insert"
         /\ {"selectKey", "selectRun", "updateRun", "insertOperation"} \cap StatementsOf(what) # {}
              => what.op = "transition"
         /\ {"begin", "commit", "rollback"} \cap StatementsOf(what) # {}
              => what.op \in {"insert", "transition"}
         /\ "select" \in StatementsOf(what) => what.op \in {"findRun", "check"}
<1>1. \/ what \in [op : {"insert"}, evidence : Documents]
      \/ what \in [op : {"findRun"}, runId : RunIds]
      \/ what \in [op : {"check"}]
      \/ what \in [op : {"transition"}, transition : TransitionRequest]
  BY CallsAssumption
<1>2. Documents \subseteq Evidence
  BY DomainAssumption
<1>3. /\ what.op \in {"insert", "findRun", "check", "transition"}
      /\ what.op = "insert" => what.evidence \in Evidence
      /\ what.op = "transition" => what.transition \in TransitionRequest
  BY <1>1, <1>2
<1>4. CASE what.op = "insert"
  BY <1>3, <1>4 DEF StatementsOf
<1>5. CASE what.op = "transition"
  BY <1>3, <1>5 DEF StatementsOf
<1>6. CASE what.op \in {"findRun", "check"}
  BY <1>3, <1>6 DEF StatementsOf
<1> QED
  BY <1>3, <1>4, <1>5, <1>6

\* The port is specified with the same rows and the same statements.
LEMMA SameTables ==
  /\ Atomic!RunRow = RunRow
  /\ Atomic!Receipts = Receipts
  /\ Atomic!NoRuns = NoRuns
  /\ \A i, row : Atomic!Receipt(i, row) = Receipt(i, row)
  /\ \A table, e : Atomic!WithRun(table, e) = WithRun(table, e)
  /\ \A table, id, status : Atomic!WithStatus(table, id, status) = WithStatus(table, id, status)
  /\ \A log, key : /\ Atomic!KeyUsed(log, key) = KeyUsed(log, key)
                   /\ Atomic!OperationOf(log, key) = OperationOf(log, key)
  /\ \A row, t : Atomic!SamePayload(row, t) = SamePayload(row, t)
<1>1. Atomic!RunRow = RunRow
  BY DEF Atomic!RunRow, RunRow, Atomic!Evidence, Evidence, Atomic!Metric, Metric,
     Atomic!EvidenceStatus, EvidenceStatus
<1>2. Atomic!Receipts = Receipts
  BY DEF Atomic!Receipts, Receipts, Atomic!ReceiptStatuses, ReceiptStatuses
<1>3. Atomic!NoRuns = NoRuns
  BY DEF Atomic!NoRuns, NoRuns
<1>4. \A i, row : Atomic!Receipt(i, row) = Receipt(i, row)
  BY DEF Atomic!Receipt, Receipt
<1>5. \A table, e : Atomic!WithRun(table, e) = WithRun(table, e)
  BY DEF Atomic!WithRun, WithRun
<1>6. \A table, id, status : Atomic!WithStatus(table, id, status) = WithStatus(table, id, status)
  BY DEF Atomic!WithStatus, WithStatus
<1>7. \A log, key : /\ Atomic!KeyUsed(log, key) = KeyUsed(log, key)
                   /\ Atomic!OperationOf(log, key) = OperationOf(log, key)
  BY DEF Atomic!KeyUsed, KeyUsed, Atomic!OperationOf, OperationOf
<1>8. \A row, t : Atomic!SamePayload(row, t) = SamePayload(row, t)
  BY DEF Atomic!SamePayload, SamePayload
<1> QED
  BY <1>1, <1>2, <1>3, <1>4, <1>5, <1>6, <1>7, <1>8

\* The answers of the callbacks are results.
LEMMA AnswersTyped ==
  /\ \A kind \in {"rejected", "inserted", "duplicate", "undefined", "ready", "conflict", "not_found"} :
       Atomic!Done(kind) \in Atomic!Results
  /\ Atomic!Rejected \in Atomic!Results
  /\ \A kind \in {"applied", "replayed"}, i \in Nat \ {0}, t \in TransitionRequest :
       Atomic!WithReceipt(kind, i, t) \in Atomic!Results
  /\ \A row \in RunRow : Atomic!Found(row) \in Atomic!Results
<1>1. \A kind \in {"rejected", "inserted", "duplicate", "undefined", "ready", "conflict", "not_found"} :
        Atomic!Done(kind) \in Atomic!Results
  BY DEF Atomic!Results, Atomic!Done
<1>2. Atomic!Rejected \in Atomic!Results
  BY DEF Atomic!Results, Atomic!Rejected
<1>3. ASSUME NEW kind \in {"applied", "replayed"}, NEW i \in Nat \ {0}, NEW t \in TransitionRequest
      PROVE  Atomic!WithReceipt(kind, i, t) \in Atomic!Results
  <2>1. Atomic!Receipt(i, t) \in Atomic!Receipts
    BY SameTables DEF Receipt, Receipts, TransitionRequest
  <2> QED
    BY <2>1 DEF Atomic!WithReceipt, Atomic!Results
<1>4. \A row \in RunRow : Atomic!Found(row) \in Atomic!Results
  BY SameTables DEF Atomic!Results, Atomic!Found
<1> QED
  BY <1>1, <1>2, <1>3, <1>4

-----------------------------------------------------------------------------
(* Steps of the holder.                                                    *)

\* What the steps of one caller leave alone: the other callers.
OnlyMoves(c) ==
  /\ \A d \in Callers \ {c} :
       /\ phase'[d] = phase[d] /\ call'[d] = call[d]
       /\ outcome'[d] = outcome[d] /\ result'[d] = result[d]
  /\ phase' \in [Callers -> Phases]
  /\ call' \in [Callers -> Calls \cup {None}]
  /\ outcome' \in [Callers -> Atomic!Results \cup {None}]
  /\ result' \in [Callers -> Atomic!Results \cup {None}]

\* A step of the holder keeps the invariant if it keeps the tables well
\* typed and complete, and what is said of the holder itself.
LEMMA HolderStepKeeps ==
  ASSUME IInv, NEW c \in Callers, holder = c, holder' = c, OnlyMoves(c),
         TablesOK(db'), TablesOK(tx'), open' = open, RunsComplete',
         ~ open => tx' = db', CallerOK(c)', HolderIsAt(c)'
  PROVE  IInv'
<1>1. ASSUME NEW d \in Callers
      PROVE  CallerOK(d)'
  <2>1. CallerOK(d)
    BY DEF IInv, TypeOK
  <2>2. CASE d = c
    BY <2>2
  <2>3. CASE d # c
    BY <2>1, <2>3 DEF CallerOK, OnlyMoves
  <2> QED
    BY <2>2, <2>3
<1>2. TypeOK'
  BY <1>1 DEF TypeOK, OnlyMoves, IInv
<1>3. HolderWritesAlone'
  BY NoneAssumption DEF HolderWritesAlone
<1> QED
  BY <1>2, <1>3 DEF IInv

\* The callback goes on to its next statement.
LEMMA GotoMoves ==
  ASSUME IInv, NEW c \in Callers, NEW next \in Phases, Goto(c, next),
         UNCHANGED <<call, outcome, result>>
  PROVE  OnlyMoves(c) /\ phase'[c] = next
BY DEF IInv, TypeOK, OnlyMoves, Goto

\* The callback returns.
LEMMA YieldMoves ==
  ASSUME IInv, NEW c \in Callers, NEW what \in Atomic!Results, Yield(c, what),
         UNCHANGED <<call, result>>
  PROVE  OnlyMoves(c) /\ phase'[c] = "commit" /\ outcome'[c] = what
BY DEF IInv, TypeOK, OnlyMoves, Yield, Goto, Phases, Statements

\* The promise is settled.
LEMMA SettleMoves ==
  ASSUME IInv, NEW c \in Callers, NEW what \in Atomic!Results, Settle(c, what),
         UNCHANGED call, outcome' = outcome \/ outcome' = [outcome EXCEPT ![c] = None]
  PROVE  OnlyMoves(c) /\ phase'[c] = "release" /\ result'[c] = what
BY DEF IInv, TypeOK, OnlyMoves, Settle, Goto, Phases, Statements

\* A call whose promise is settled is at its release, with no writes of its own.
LEMMA SettledCaller ==
  ASSUME IInv, NEW c \in Callers, holder = c, holder' = c, NEW what \in Atomic!Results,
         call[c] # None, call' = call, phase'[c] = "release", result'[c] = what, tx' = db'
  PROVE  CallerOK(c)' /\ HolderIsAt(c)'
<1>1. what # None
  BY NoResultAssumption
<1>2. CallerOK(c)'
  BY <1>1 DEF CallerOK, Statements
<1>3. HolderIsAt(c)'
  BY DEF HolderIsAt
<1> QED
  BY <1>2, <1>3

\* A callback that has returned is at its commit.
LEMMA YieldedCaller ==
  ASSUME IInv, NEW c \in Callers, phase[c] \in Statements, holder' = holder,
         NEW what \in Atomic!Results,
         call' = call, result' = result, phase'[c] = "commit", outcome'[c] = what,
         call[c].op \in {"insert", "transition"},
         call[c].op = "insert" => InsertIsTold(c)',
         call[c].op = "transition" => TransitionIsTold(c)'
  PROVE  CallerOK(c)' /\ HolderIsAt(c)'
<1>1. what # None
  BY NoResultAssumption
<1>2. /\ holder = c /\ call[c] # None /\ result[c] = None
  BY AtStatement
<1>3. "commit" \in StatementsOf(call[c])
  BY DEF StatementsOf
<1>4. CallerOK(c)'
  BY <1>1, <1>2, <1>3 DEF CallerOK, Statements
<1>5. HolderIsAt(c)'
  BY DEF HolderIsAt
<1> QED
  BY <1>4, <1>5

\* A call that goes on inside its transaction.
LEMMA GoingCaller ==
  ASSUME IInv, NEW c \in Callers, phase[c] \in Statements, holder' = holder,
         NEW next \in Statements \ {"commit"}, next \in StatementsOf(call[c]),
         call' = call, result' = result, phase'[c] = next
  PROVE  CallerOK(c)'
<1>1. /\ holder = c /\ call[c] # None /\ result[c] = None
  BY AtStatement
<1> QED
  BY <1>1 DEF CallerOK, Statements

\* The tables when nothing is committed.
LEMMA NothingCommitted ==
  ASSUME IInv, UNCHANGED db
  PROVE  TablesOK(db') /\ RunsComplete' /\ TablesOK(tx)
BY DEF IInv, TypeOK, RunsComplete

LEMMA BeginStep ==
  ASSUME IInv, NEW c \in Callers, Begin(c)
  PROVE  IInv'
<1> DEFINE next == FirstStatement(call[c])
<1>1. phase[c] = "begin" /\ phase[c] \in Statements
  BY DEF Begin, Runs, Statements
<1>2. /\ holder = c /\ call[c] \in Calls /\ HolderIsAt(c)
      /\ call[c].op \in {"insert", "transition"}
  BY <1>1, AtStatement, CallOfStatement
<1>3. next \in Statements \ {"commit"} /\ next \in StatementsOf(call[c]) /\ next \in Phases
  BY <1>2 DEF FirstStatement, StatementsOf, Statements, Phases
<1>4. OnlyMoves(c) /\ phase'[c] = next
  BY <1>3, GotoMoves DEF Begin
<1>5. UNCHANGED <<db, tx, open, holder, call, outcome, result>>
  BY DEF Begin
<1>6. CallerOK(c)'
  BY <1>1, <1>3, <1>4, <1>5, GoingCaller
<1>7. tx' = db'
  BY <1>1, <1>2, <1>5 DEF HolderIsAt
<1>8. next \in {"insertRun", "selectKey"}
  BY DEF FirstStatement
<1> HIDE DEF next
<1>9. HolderIsAt(c)'
  BY <1>4, <1>7, <1>8 DEF HolderIsAt
<1> QED
  BY <1>2, <1>4, <1>5, <1>6, <1>7, <1>9, NothingCommitted, HolderStepKeeps

LEMMA InsertRunRowStep ==
  ASSUME IInv, NEW c \in Callers, InsertRunRow(c)
  PROVE  IInv'
<1> DEFINE e == call[c].evidence
<1>1. phase[c] = "insertRun" /\ phase[c] \in Statements /\ open
  BY DEF InsertRunRow, Runs, Statements
<1>2. /\ holder = c /\ call[c] \in Calls /\ HolderIsAt(c)
      /\ call[c].op = "insert" /\ e \in Evidence
  BY <1>1, AtStatement, CallOfStatement
<1>3. UNCHANGED <<db, open, holder, call, result>>
  BY DEF InsertRunRow
<1>4. tx = db /\ TablesOK(db) /\ TablesOK(db') /\ RunsComplete'
  BY <1>1, <1>2, <1>3, NothingCommitted DEF HolderIsAt
<1>5. CASE e.run_id \in DOMAIN tx.runs
  <2>1. Yield(c, Atomic!Done("duplicate")) /\ tx' = tx
    BY <1>5 DEF InsertRunRow
  <2>2. Atomic!Done("duplicate") \in Atomic!Results
    BY AnswersTyped
  <2>3. OnlyMoves(c) /\ phase'[c] = "commit" /\ outcome'[c] = Atomic!Done("duplicate")
    BY <1>3, <2>1, <2>2, YieldMoves
  <2>4. InsertIsTold(c)'
    BY <1>3, <1>4, <1>5, <2>1, <2>3 DEF InsertIsTold, Atomic!Done
  <2>5. CallerOK(c)' /\ HolderIsAt(c)'
    BY <1>1, <1>2, <1>3, <2>2, <2>3, <2>4, YieldedCaller
  <2> QED
    BY <1>2, <1>3, <1>4, <2>1, <2>3, <2>5, HolderStepKeeps
<1>6. CASE e.run_id \notin DOMAIN tx.runs
  <2>1. /\ tx' = [tx EXCEPT !.runs = WithRun(@, e)]
        /\ Goto(c, "insertMetrics")
        /\ outcome' = outcome
    BY <1>6 DEF InsertRunRow
  <2>2. OnlyMoves(c) /\ phase'[c] = "insertMetrics"
    BY <1>3, <2>1, GotoMoves DEF Phases, Statements
  <2>3. TablesOK(tx')
    BY <1>2, <1>4, <2>1, WithRunTyped
  <2>4. CallerOK(c)'
    BY <1>1, <1>2, <1>3, <2>2, GoingCaller DEF StatementsOf, Statements
  <2>5. HolderIsAt(c)'
    BY <1>3, <1>4, <1>6, <2>1, <2>2 DEF HolderIsAt, Wrote
  <2> QED
    BY <1>1, <1>2, <1>3, <1>4, <2>2, <2>3, <2>4, <2>5, HolderStepKeeps
<1> QED
  BY <1>5, <1>6

LEMMA InsertMetricRowsStep ==
  ASSUME IInv, NEW c \in Callers, InsertMetricRows(c)
  PROVE  IInv'
<1> DEFINE e == call[c].evidence
<1>1. phase[c] = "insertMetrics" /\ phase[c] \in Statements /\ open
  BY DEF InsertMetricRows, Runs, Statements
<1>2. /\ holder = c /\ call[c] \in Calls /\ HolderIsAt(c)
      /\ call[c].op = "insert" /\ e \in Evidence
  BY <1>1, AtStatement, CallOfStatement
<1>3. /\ UNCHANGED <<db, open, holder, call, result>>
      /\ tx' = [tx EXCEPT !.metrics = @ \cup MetricRowsOf(e)]
      /\ Yield(c, Atomic!Done("inserted"))
  BY DEF InsertMetricRows
<1>4. TablesOK(db) /\ TablesOK(tx) /\ TablesOK(db') /\ RunsComplete'
  BY <1>3, NothingCommitted
<1>5. /\ e.run_id \notin DOMAIN db.runs
      /\ tx = [db EXCEPT !.runs = WithRun(@, e)]
  BY <1>1, <1>2 DEF HolderIsAt, Wrote
<1>6. tx' = Inserted(db, e)
  BY <1>3, <1>4, <1>5 DEF Inserted, TablesOK
<1>7. Atomic!Done("inserted") \in Atomic!Results
  BY AnswersTyped
<1>8. OnlyMoves(c) /\ phase'[c] = "commit" /\ outcome'[c] = Atomic!Done("inserted")
  BY <1>3, <1>7, YieldMoves
<1>9. InsertIsTold(c)'
  BY <1>3, <1>5, <1>6, <1>8 DEF InsertIsTold, Wrote, Atomic!Done
<1>10. CallerOK(c)' /\ HolderIsAt(c)'
  BY <1>1, <1>2, <1>3, <1>7, <1>8, <1>9, YieldedCaller
<1>11. TablesOK(tx')
  BY <1>2, <1>3, <1>4, OtherWritesTyped
<1> QED
  BY <1>1, <1>2, <1>3, <1>4, <1>8, <1>10, <1>11, HolderStepKeeps

LEMMA SelectStep ==
  ASSUME IInv, NEW c \in Callers, Select(c) \/ Check(c)
  PROVE  IInv'
<1>1. phase[c] = "select" /\ phase[c] \in Statements
  BY DEF Select, Check, Runs, Statements
<1>2. holder = c /\ call[c] # None /\ HolderIsAt(c)
  BY <1>1, AtStatement
<1>3. UNCHANGED <<db, tx, open, holder, call, outcome>>
  BY DEF Select, Check
<1>4. tx' = db' /\ TablesOK(db') /\ RunsComplete' /\ TablesOK(tx)
  BY <1>1, <1>2, <1>3, NothingCommitted DEF HolderIsAt
<1>5. \A id \in DOMAIN tx.runs : tx.runs[id] \in RunRow
  BY <1>4 DEF TablesOK
<1>6. PICK what \in Atomic!Results : Settle(c, what)
  BY <1>5, AnswersTyped DEF Select, Check
<1>7. OnlyMoves(c) /\ phase'[c] = "release" /\ result'[c] = what
  BY <1>3, <1>6, SettleMoves
<1>8. CallerOK(c)' /\ HolderIsAt(c)'
  BY <1>2, <1>3, <1>4, <1>7, SettledCaller
<1> QED
  BY <1>2, <1>3, <1>4, <1>7, <1>8, HolderStepKeeps

LEMMA SelectKeyStep ==
  ASSUME IInv, NEW c \in Callers, SelectKey(c)
  PROVE  IInv'
<1> DEFINE t == call[c].transition
           i == OperationOf(tx.operations, t.key)
           used == KeyUsed(tx.operations, t.key)
           same == SamePayload(tx.operations[i], t)
<1>1. phase[c] = "selectKey" /\ phase[c] \in Statements
  BY DEF SelectKey, Runs, Statements
<1>2. /\ holder = c /\ call[c] \in Calls /\ HolderIsAt(c)
      /\ call[c].op = "transition" /\ t \in TransitionRequest
  BY <1>1, AtStatement, CallOfStatement
<1>3. UNCHANGED <<db, tx, open, holder, call, result>>
  BY DEF SelectKey
<1>4. tx = db /\ tx' = db' /\ TablesOK(db') /\ RunsComplete' /\ TablesOK(tx)
  BY <1>1, <1>2, <1>3, NothingCommitted DEF HolderIsAt
<1>5. \/ used /\ ~ same /\ Yield(c, Atomic!Done("conflict"))
      \/ used /\ same /\ Yield(c, Atomic!WithReceipt("replayed", i, tx.operations[i]))
      \/ ~ used /\ Goto(c, "selectRun") /\ UNCHANGED outcome
  BY DEF SelectKey
<1>6. ASSUME NEW what \in Atomic!Results, Yield(c, what),
             outcome'[c] = what => TransitionIsTold(c)'
      PROVE  IInv'
  <2>1. OnlyMoves(c) /\ phase'[c] = "commit" /\ outcome'[c] = what
    BY <1>3, <1>6, YieldMoves
  <2>2. CallerOK(c)' /\ HolderIsAt(c)'
    BY <1>1, <1>2, <1>3, <1>6, <2>1, YieldedCaller
  <2> QED
    BY <1>2, <1>3, <1>4, <2>1, <2>2, HolderStepKeeps
<1>7. CASE used /\ ~ same /\ Yield(c, Atomic!Done("conflict"))
  <2>1. outcome'[c] = Atomic!Done("conflict") => TransitionIsTold(c)'
    BY <1>3, <1>4, <1>7 DEF TransitionIsTold, Atomic!Done
  <2> QED
    BY <1>6, <1>7, <2>1, AnswersTyped
<1>8. CASE used /\ same /\ Yield(c, Atomic!WithReceipt("replayed", i, tx.operations[i]))
  <2> DEFINE what == Atomic!WithReceipt("replayed", i, tx.operations[i])
  <2>1. i \in DOMAIN tx.operations
    BY <1>8 DEF KeyUsed, OperationOf
  <2>2. i \in Nat \ {0} /\ tx.operations[i] \in TransitionRequest
    BY <1>4, <2>1 DEF TablesOK
  <2>3. what \in Atomic!Results
    BY <2>2, AnswersTyped
  <2>4. outcome'[c] = what => TransitionIsTold(c)'
    BY <1>3, <1>4, <1>8 DEF TransitionIsTold, Atomic!WithReceipt
  <2> QED
    BY <1>6, <1>8, <2>3, <2>4
<1>9. CASE ~ used /\ Goto(c, "selectRun") /\ UNCHANGED outcome
  <2>1. OnlyMoves(c) /\ phase'[c] = "selectRun"
    BY <1>3, <1>9, GotoMoves DEF Phases, Statements
  <2>2. CallerOK(c)'
    BY <1>1, <1>2, <1>3, <2>1, GoingCaller DEF StatementsOf, Statements
  <2>3. HolderIsAt(c)'
    BY <1>3, <1>4, <1>9, <2>1 DEF HolderIsAt
  <2> QED
    BY <1>2, <1>3, <1>4, <2>1, <2>2, <2>3, HolderStepKeeps
<1> QED
  BY <1>5, <1>7, <1>8, <1>9

LEMMA SelectRunStep ==
  ASSUME IInv, NEW c \in Callers, SelectRun(c)
  PROVE  IInv'
<1> DEFINE t == call[c].transition
<1>1. phase[c] = "selectRun" /\ phase[c] \in Statements
  BY DEF SelectRun, Runs, Statements
<1>2. /\ holder = c /\ call[c] \in Calls /\ HolderIsAt(c)
      /\ call[c].op = "transition" /\ t \in TransitionRequest
  BY <1>1, AtStatement, CallOfStatement
<1>3. UNCHANGED <<db, tx, open, holder, call, result>>
  BY DEF SelectRun
<1>4. tx = db /\ tx' = db' /\ TablesOK(db') /\ RunsComplete' /\ TablesOK(tx)
  BY <1>1, <1>2, <1>3, NothingCommitted DEF HolderIsAt
<1>5. ~ KeyUsed(db.operations, t.key)
  BY <1>1, <1>2 DEF HolderIsAt
<1>6. CASE t.runId \notin DOMAIN tx.runs
  <2>1. Yield(c, Atomic!Done("not_found"))
    BY <1>6 DEF SelectRun
  <2>2. Atomic!Done("not_found") \in Atomic!Results
    BY AnswersTyped
  <2>3. OnlyMoves(c) /\ phase'[c] = "commit" /\ outcome'[c] = Atomic!Done("not_found")
    BY <1>3, <2>1, <2>2, YieldMoves
  <2>4. TransitionIsTold(c)'
    BY <1>3, <1>4, <1>5, <1>6, <2>3 DEF TransitionIsTold, Atomic!Done
  <2>5. CallerOK(c)' /\ HolderIsAt(c)'
    BY <1>1, <1>2, <1>3, <2>2, <2>3, <2>4, YieldedCaller
  <2> QED
    BY <1>2, <1>3, <1>4, <2>3, <2>5, HolderStepKeeps
<1>7. CASE t.runId \in DOMAIN tx.runs
  <2>1. Goto(c, "updateRun") /\ UNCHANGED outcome
    BY <1>7 DEF SelectRun
  <2>2. OnlyMoves(c) /\ phase'[c] = "updateRun"
    BY <1>3, <2>1, GotoMoves DEF Phases, Statements
  <2>3. CallerOK(c)'
    BY <1>1, <1>2, <1>3, <2>2, GoingCaller DEF StatementsOf, Statements
  <2>4. HolderIsAt(c)'
    BY <1>3, <1>4, <1>5, <1>7, <2>2 DEF HolderIsAt
  <2> QED
    BY <1>2, <1>3, <1>4, <2>2, <2>3, <2>4, HolderStepKeeps
<1> QED
  BY <1>6, <1>7

LEMMA UpdateRunStep ==
  ASSUME IInv, NEW c \in Callers, UpdateRun(c)
  PROVE  IInv'
<1> DEFINE t == call[c].transition
<1>1. phase[c] = "updateRun" /\ phase[c] \in Statements /\ open
  BY DEF UpdateRun, Runs, Statements
<1>2. /\ holder = c /\ call[c] \in Calls /\ HolderIsAt(c)
      /\ call[c].op = "transition" /\ t \in TransitionRequest
  BY <1>1, AtStatement, CallOfStatement
<1>3. /\ UNCHANGED <<db, open, holder, call, outcome, result>>
      /\ tx' = [tx EXCEPT !.runs = WithStatus(@, t.runId, t.target)]
      /\ Goto(c, "insertOperation")
  BY DEF UpdateRun
<1>4. tx = db /\ TablesOK(db') /\ RunsComplete' /\ TablesOK(tx)
  BY <1>1, <1>2, <1>3, NothingCommitted DEF HolderIsAt
<1>5. ~ KeyUsed(db.operations, t.key) /\ t.runId \in DOMAIN db.runs
  BY <1>1, <1>2 DEF HolderIsAt
<1>6. OnlyMoves(c) /\ phase'[c] = "insertOperation"
  BY <1>3, GotoMoves DEF Phases, Statements
<1>7. CallerOK(c)'
  BY <1>1, <1>2, <1>3, <1>6, GoingCaller DEF StatementsOf, Statements
<1>8. HolderIsAt(c)'
  BY <1>3, <1>4, <1>5, <1>6 DEF HolderIsAt, Wrote
<1>9. t.target \in EvidenceStatus
  BY <1>2 DEF TransitionRequest
<1>10. TablesOK(tx')
  BY <1>3, <1>4, <1>5, <1>9, WithStatusTyped
<1> QED
  BY <1>1, <1>2, <1>3, <1>4, <1>6, <1>7, <1>8, <1>10, HolderStepKeeps

LEMMA InsertOperationStep ==
  ASSUME IInv, NEW c \in Callers, InsertOperation(c)
  PROVE  IInv'
<1> DEFINE t == call[c].transition
           what == Atomic!WithReceipt("applied", Len(tx.operations) + 1, t)
<1>1. phase[c] = "insertOperation" /\ phase[c] \in Statements /\ open
  BY DEF InsertOperation, Runs, Statements
<1>2. /\ holder = c /\ call[c] \in Calls /\ HolderIsAt(c)
      /\ call[c].op = "transition" /\ t \in TransitionRequest
  BY <1>1, AtStatement, CallOfStatement
<1>3. /\ UNCHANGED <<db, open, holder, call, result>>
      /\ tx' = [tx EXCEPT !.operations = Append(@, t)]
      /\ Yield(c, what)
  BY DEF InsertOperation
<1>4. TablesOK(db) /\ TablesOK(tx) /\ TablesOK(db') /\ RunsComplete'
  BY <1>3, NothingCommitted
<1>5. /\ ~ KeyUsed(db.operations, t.key) /\ t.runId \in DOMAIN db.runs
      /\ tx = [db EXCEPT !.runs = WithStatus(@, t.runId, t.target)]
  BY <1>1, <1>2 DEF HolderIsAt, Wrote
<1>6. tx' = Applied(db, t) /\ tx.operations = db.operations
  BY <1>3, <1>4, <1>5 DEF Applied, TablesOK
<1>7. Len(tx.operations) + 1 \in Nat \ {0}
  BY <1>4 DEF TablesOK
<1>8. what \in Atomic!Results
  BY <1>2, <1>7, AnswersTyped
<1>9. OnlyMoves(c) /\ phase'[c] = "commit" /\ outcome'[c] = what
  BY <1>3, <1>8, YieldMoves
<1>10. TransitionIsTold(c)'
  BY <1>3, <1>5, <1>6, <1>9 DEF TransitionIsTold, Wrote, Atomic!WithReceipt
<1> HIDE DEF what
<1>11. CallerOK(c)' /\ HolderIsAt(c)'
  BY <1>1, <1>2, <1>3, <1>8, <1>9, <1>10, YieldedCaller
<1>12. TablesOK(tx')
  BY <1>2, <1>3, <1>4, OtherWritesTyped
<1> QED
  BY <1>1, <1>2, <1>3, <1>4, <1>9, <1>11, <1>12, HolderStepKeeps

\* What the holder is about to commit, and what it will answer.
LEMMA AtCommit ==
  ASSUME IInv, NEW c \in Callers, Runs(c, "commit")
  PROVE  \/ /\ tx = db
            /\ outcome[c] \in Atomic!Results
         \/ /\ call[c].op = "insert"
            /\ call[c].evidence.run_id \notin DOMAIN db.runs
            /\ tx = Inserted(db, call[c].evidence)
            /\ outcome[c] = Atomic!Done("inserted")
         \/ /\ call[c].op = "transition"
            /\ call[c].transition.runId \in DOMAIN db.runs
            /\ ~ KeyUsed(db.operations, call[c].transition.key)
            /\ tx = Applied(db, call[c].transition)
            /\ outcome[c]
                 = Atomic!WithReceipt("applied", Len(db.operations) + 1, call[c].transition)
<1>1. phase[c] = "commit" /\ phase[c] \in Statements /\ open
  BY DEF Runs, Statements
<1>2. call[c] \in Calls /\ HolderIsAt(c) /\ call[c].op \in {"insert", "transition"}
  BY <1>1, AtStatement, CallOfStatement
<1>3. outcome[c] \in Atomic!Results
  BY <1>1 DEF IInv, TypeOK, CallerOK
<1>4. CASE call[c].op = "insert"
  <2>1. InsertIsTold(c)
    BY <1>1, <1>2, <1>4 DEF HolderIsAt
  <2> QED
    BY <1>1, <1>3, <1>4, <2>1 DEF InsertIsTold, Wrote
<1>5. CASE call[c].op = "transition"
  <2>1. TransitionIsTold(c)
    BY <1>1, <1>2, <1>5 DEF HolderIsAt
  <2> QED
    BY <1>1, <1>3, <1>5, <2>1 DEF TransitionIsTold, Wrote
<1> QED
  BY <1>2, <1>4, <1>5

\* The metric rows that the stored runs should have.
RowsOf(table) == UNION {MetricRowsOf(table[id].evidence) : id \in DOMAIN table}

LEMMA RowsWithRun ==
  ASSUME NEW table, NEW new, NEW e, DOMAIN new = DOMAIN table \cup {e.run_id},
         e.run_id \notin DOMAIN table, new[e.run_id].evidence = e,
         \A id \in DOMAIN table : new[id] = table[id]
  PROVE  RowsOf(new) = RowsOf(table) \cup MetricRowsOf(e)
<1>1. ASSUME NEW row \in RowsOf(new)
      PROVE  row \in RowsOf(table) \cup MetricRowsOf(e)
  <2>1. PICK id \in DOMAIN new : row \in MetricRowsOf(new[id].evidence)
    BY <1>1 DEF RowsOf
  <2>2. CASE id = e.run_id
    BY <2>1, <2>2
  <2>3. CASE id \in DOMAIN table
    BY <2>1, <2>3 DEF RowsOf
  <2> QED
    BY <2>2, <2>3
<1>2. ASSUME NEW row \in RowsOf(table)
      PROVE  row \in RowsOf(new)
  <2>1. PICK id \in DOMAIN table : row \in MetricRowsOf(table[id].evidence)
    BY <1>2 DEF RowsOf
  <2> QED
    BY <2>1 DEF RowsOf
<1>3. ASSUME NEW row \in MetricRowsOf(e)
      PROVE  row \in RowsOf(new)
  <2>1. row \in MetricRowsOf(new[e.run_id].evidence) /\ e.run_id \in DOMAIN new
    BY <1>3
  <2> QED
    BY <2>1 DEF RowsOf
<1> QED
  BY <1>1, <1>2, <1>3

LEMMA RowsWithStatus ==
  ASSUME NEW table, NEW new, DOMAIN new = DOMAIN table,
         \A id \in DOMAIN table : new[id].evidence = table[id].evidence
  PROVE  RowsOf(new) = RowsOf(table)
<1>1. ASSUME NEW row
      PROVE  (\E id \in DOMAIN new : row \in MetricRowsOf(new[id].evidence))
               <=> (\E id \in DOMAIN table : row \in MetricRowsOf(table[id].evidence))
  OBVIOUS
<1>2. \A row : row \in RowsOf(new) <=> row \in RowsOf(table)
  BY <1>1 DEF RowsOf
<1> QED
  BY <1>2

\* An insert adds the run and its metric rows, a transition neither.
LEMMA CommitKeepsComplete ==
  ASSUME IInv, NEW c \in Callers, Commit(c)
  PROVE  RunsComplete'
<1>1. /\ Runs(c, "commit") /\ db' = tx /\ TablesOK(db)
      /\ db.metrics = RowsOf(db.runs)
  BY DEF Commit, IInv, TypeOK, RunsComplete, RowsOf
<1>2. call[c] \in Calls
  BY <1>1, AtStatement DEF Runs, Statements
<1>3. SUFFICES db'.metrics = RowsOf(db'.runs)
  BY DEF RunsComplete, RowsOf
<1>4. CASE tx = db
  BY <1>1, <1>4
<1>5. CASE /\ call[c].op = "insert"
           /\ call[c].evidence.run_id \notin DOMAIN db.runs
           /\ tx = Inserted(db, call[c].evidence)
  <2> DEFINE e == call[c].evidence
             new == WithRun(db.runs, e)
  <2>1. e \in Evidence
    BY <1>2, <1>5, CallOfStatement
  <2>2. /\ DOMAIN new = DOMAIN db.runs \cup {e.run_id} /\ new[e.run_id].evidence = e
        /\ \A id \in DOMAIN db.runs \ {e.run_id} : new[id] = db.runs[id]
    <3> HIDE DEF e
    <3> QED
      BY <1>1, <2>1, WithRunTyped
  <2>3. \A id \in DOMAIN db.runs : new[id] = db.runs[id]
    BY <1>5, <2>2
  <2>4. RowsOf(new) = RowsOf(db.runs) \cup MetricRowsOf(e)
    BY <1>5, <2>2, <2>3, RowsWithRun
  <2>5. db'.runs = new /\ db'.metrics = db.metrics \cup MetricRowsOf(e)
    BY <1>1, <1>5 DEF Inserted
  <2> QED
    BY <1>1, <2>4, <2>5
<1>6. CASE /\ call[c].op = "transition"
           /\ call[c].transition.runId \in DOMAIN db.runs
           /\ tx = Applied(db, call[c].transition)
  <2> DEFINE t == call[c].transition
             new == WithStatus(db.runs, t.runId, t.target)
  <2>1. t.target \in EvidenceStatus
    BY <1>2, <1>6, CallOfStatement DEF TransitionRequest
  <2>2. /\ DOMAIN new = DOMAIN db.runs
        /\ \A id \in DOMAIN db.runs : new[id].evidence = db.runs[id].evidence
    BY <1>1, <1>6, <2>1, WithStatusTyped
  <2>3. RowsOf(new) = RowsOf(db.runs)
    BY <2>2, RowsWithStatus
  <2>4. db'.runs = new /\ db'.metrics = db.metrics
    BY <1>1, <1>6 DEF Applied
  <2> QED
    BY <1>1, <2>3, <2>4
<1> QED
  BY <1>1, <1>4, <1>5, <1>6, AtCommit

LEMMA CommitStep ==
  ASSUME IInv, NEW c \in Callers, Commit(c)
  PROVE  IInv'
<1>1. phase[c] = "commit" /\ phase[c] \in Statements
  BY DEF Commit, Runs, Statements
<1>2. holder = c /\ call[c] # None
  BY <1>1, AtStatement
<1>3. outcome[c] \in Atomic!Results
  BY <1>1 DEF IInv, TypeOK, CallerOK
<1>4. OnlyMoves(c) /\ phase'[c] = "release" /\ result'[c] = outcome[c]
  BY <1>3, SettleMoves DEF Commit
<1>5. /\ UNCHANGED <<tx, open, holder, call>>
      /\ db' = tx /\ tx' = db' /\ TablesOK(db') /\ TablesOK(tx')
  BY DEF Commit, IInv, TypeOK
<1>6. CallerOK(c)' /\ HolderIsAt(c)'
  BY <1>2, <1>3, <1>4, <1>5, SettledCaller
<1> QED
  BY <1>2, <1>4, <1>5, <1>6, CommitKeepsComplete, HolderStepKeeps

LEMMA RollbackStep ==
  ASSUME IInv, NEW c \in Callers, Rollback(c)
  PROVE  IInv'
<1>1. phase[c] \in Statements
  BY DEF Rollback, Statements
<1>2. holder = c /\ call[c] # None
  BY <1>1, AtStatement
<1>3. /\ UNCHANGED <<db, open, holder, call>>
      /\ tx' = db'
  BY DEF Rollback
<1>4. TablesOK(db') /\ TablesOK(tx') /\ RunsComplete'
  BY <1>3, NothingCommitted
<1>5. Atomic!Rejected \in Atomic!Results
  BY AnswersTyped
<1>6. OnlyMoves(c) /\ phase'[c] = "release" /\ result'[c] = Atomic!Rejected
  BY <1>5, SettleMoves DEF Rollback
<1>7. CallerOK(c)' /\ HolderIsAt(c)'
  BY <1>2, <1>3, <1>5, <1>6, SettledCaller
<1> QED
  BY <1>2, <1>3, <1>4, <1>6, <1>7, HolderStepKeeps

LEMMA StatementFailsStep ==
  ASSUME IInv, NEW c \in Callers, StatementFails(c)
  PROVE  IInv'
<1>1. phase[c] \in Statements
  BY DEF StatementFails
<1>2. /\ holder = c /\ call[c] \in Calls /\ call[c] # None /\ HolderIsAt(c)
      /\ phase[c] \in StatementsOf(call[c])
  BY <1>1, AtStatement
<1>3. /\ UNCHANGED <<db, tx, open, holder, call, outcome>>
      /\ ~ open => tx' = db'
  BY DEF StatementFails, IInv, HolderWritesAlone
<1>4. TablesOK(db') /\ TablesOK(tx') /\ RunsComplete'
  BY <1>3, NothingCommitted
<1>5. CASE phase[c] \in {"begin", "select"}
  <2>1. Settle(c, Atomic!Rejected)
    BY <1>5 DEF StatementFails
  <2>2. Atomic!Rejected \in Atomic!Results
    BY AnswersTyped
  <2>3. OnlyMoves(c) /\ phase'[c] = "release" /\ result'[c] = Atomic!Rejected
    BY <1>3, <2>1, <2>2, SettleMoves
  <2>4. tx' = db'
    BY <1>2, <1>3, <1>5 DEF HolderIsAt
  <2>5. CallerOK(c)' /\ HolderIsAt(c)'
    BY <1>2, <1>3, <2>2, <2>3, <2>4, SettledCaller
  <2> QED
    BY <1>2, <1>3, <1>4, <2>3, <2>5, HolderStepKeeps
<1>6. CASE phase[c] \notin {"begin", "select"}
  <2>1. Goto(c, "rollback") /\ UNCHANGED result
    BY <1>6 DEF StatementFails
  <2>2. OnlyMoves(c) /\ phase'[c] = "rollback"
    BY <1>3, <2>1, GotoMoves DEF Phases, Statements
  <2>3. "rollback" \in StatementsOf(call[c])
    BY <1>1, <1>2, <1>6 DEF StatementsOf
  <2>4. CallerOK(c)'
    BY <1>1, <1>3, <2>1, <2>2, <2>3, GoingCaller DEF Statements
  <2>5. HolderIsAt(c)'
    BY <2>2 DEF HolderIsAt
  <2> QED
    BY <1>2, <1>3, <1>4, <2>2, <2>4, <2>5, HolderStepKeeps
<1> QED
  BY <1>5, <1>6

LEMMA ReleaseStep ==
  ASSUME IInv, NEW c \in Callers, Release(c)
  PROVE  IInv'
<1>1. /\ phase[c] = "release" /\ holder' = None
      /\ UNCHANGED <<db, tx, open, call, outcome, result>>
      /\ phase' = [phase EXCEPT ![c] = "returned"]
  BY DEF Release, Goto
<1>2. CallerOK(c) /\ holder = c /\ HolderIsAt(c)
  BY <1>1 DEF IInv, TypeOK, CallerOK, HolderWritesAlone
<1>3. tx = db
  BY <1>1, <1>2 DEF HolderIsAt
<1>4. phase' \in [Callers -> Phases]
  BY <1>1 DEF IInv, TypeOK, Phases
<1>5. ASSUME NEW d \in Callers
      PROVE  CallerOK(d)'
  <2>1. CallerOK(d) /\ phase \in [Callers -> Phases]
    BY DEF IInv, TypeOK
  <2>2. CASE d = c
    BY <1>1, <1>2, <2>1, <2>2, NoneAssumption DEF CallerOK, Statements
  <2>3. CASE d # c
    BY <1>1, <1>2, <2>1, <2>3, NoneAssumption DEF CallerOK
  <2> QED
    BY <2>2, <2>3
<1>6. TypeOK'
  BY <1>1, <1>4, <1>5 DEF IInv, TypeOK
<1>7. HolderWritesAlone'
  BY <1>1, <1>3, NoneAssumption DEF HolderWritesAlone
<1> QED
  BY <1>1, <1>6, <1>7, NothingCommitted DEF IInv

-----------------------------------------------------------------------------
(* Steps of the calls outside the mutex, and of the environment.           *)

\* A caller that is not the holder writes nothing: the holder, if there is
\* one, stands where it stood.
LEMMA OutsideStepKeeps ==
  ASSUME IInv, NEW c \in Callers, holder # c, OnlyMoves(c), CallerOK(c)',
         UNCHANGED <<db, tx, open, holder>>
  PROVE  IInv'
<1>1. ASSUME NEW d \in Callers
      PROVE  CallerOK(d)'
  <2>1. CallerOK(d)
    BY DEF IInv, TypeOK
  <2>2. CASE d = c
    BY <2>2
  <2>3. CASE d # c
    BY <2>1, <2>3 DEF CallerOK, OnlyMoves
  <2> QED
    BY <2>2, <2>3
<1>2. TypeOK'
  BY <1>1 DEF IInv, TypeOK, OnlyMoves
<1>3. ASSUME NEW d \in Callers, holder' = d
      PROVE  HolderIsAt(d)'
  <2>1. HolderIsAt(d) /\ d \in Callers \ {c}
    BY <1>3 DEF IInv, HolderWritesAlone
  <2>2. phase'[d] = phase[d] /\ call'[d] = call[d] /\ outcome'[d] = outcome[d]
    BY <2>1 DEF OnlyMoves
  <2>3. InsertIsTold(d) => InsertIsTold(d)'
    BY <2>2 DEF InsertIsTold, Wrote
  <2>4. TransitionIsTold(d) => TransitionIsTold(d)'
    BY <2>2 DEF TransitionIsTold, Wrote
  <2> QED
    BY <2>1, <2>2, <2>3, <2>4 DEF HolderIsAt, Wrote
<1>4. HolderWritesAlone'
  BY <1>3 DEF IInv, HolderWritesAlone
<1> QED
  BY <1>2, <1>4, NothingCommitted DEF IInv

LEMMA InvokeStep ==
  ASSUME IInv, NEW c \in Callers, Invoke(c)
  PROVE  IInv'
<1>1. PICK what \in Calls : call' = [call EXCEPT ![c] = what]
  BY DEF Invoke
<1>2. /\ phase[c] = "idle" /\ phase' = [phase EXCEPT ![c] = "waiting"]
      /\ UNCHANGED <<db, tx, open, holder, outcome, result>>
  BY DEF Invoke, Goto
<1>3. CallerOK(c) /\ holder # c
  BY <1>2 DEF IInv, TypeOK, CallerOK, Statements
<1>4. OnlyMoves(c)
  BY <1>1, <1>2 DEF IInv, TypeOK, OnlyMoves, Phases
<1>5. phase'[c] = "waiting" /\ call'[c] = what /\ what # None
  BY <1>1, <1>2, NoneAssumption DEF IInv, TypeOK
<1>6. CallerOK(c)'
  BY <1>2, <1>3, <1>5 DEF CallerOK, Statements
<1> QED
  BY <1>2, <1>3, <1>4, <1>6, OutsideStepKeeps

LEMMA ReturnStep ==
  ASSUME IInv, NEW c \in Callers, Return(c)
  PROVE  IInv'
<1>1. /\ phase[c] = "returned" /\ phase' = [phase EXCEPT ![c] = "idle"]
      /\ call' = [call EXCEPT ![c] = None]
      /\ result' = [result EXCEPT ![c] = None]
      /\ UNCHANGED <<db, tx, open, holder, outcome>>
  BY DEF Return, Goto
<1>2. CallerOK(c) /\ holder # c
  BY <1>1 DEF IInv, TypeOK, CallerOK, Statements
<1>3. OnlyMoves(c)
  BY <1>1 DEF IInv, TypeOK, OnlyMoves, Phases
<1>4. phase'[c] = "idle" /\ call'[c] = None /\ result'[c] = None
  BY <1>1 DEF IInv, TypeOK
<1>5. CallerOK(c)'
  BY <1>1, <1>2, <1>4 DEF CallerOK, Statements
<1> QED
  BY <1>1, <1>2, <1>3, <1>5, OutsideStepKeeps

\* The new holder finds the connection as it was committed.
LEMMA AcquireStep ==
  ASSUME IInv, NEW c \in Callers, Acquire(c)
  PROVE  IInv'
<1> DEFINE next == IF call[c].op \in {"findRun", "check"} THEN "select" ELSE "begin"
<1>1. /\ phase[c] = "waiting" /\ holder = None /\ holder' = c
      /\ Goto(c, next)
      /\ UNCHANGED <<db, tx, open, call, outcome, result>>
  BY DEF Acquire
<1>2. /\ CallerOK(c) /\ call[c] \in Calls \cup {None} /\ call[c] # None
      /\ result[c] = None /\ tx = db
  BY <1>1 DEF IInv, TypeOK, CallerOK, HolderWritesAlone
<1>3. call[c].op \in {"insert", "findRun", "check", "transition"}
  BY <1>2, CallOfStatement
<1>4. next \in {"begin", "select"} /\ next \in StatementsOf(call[c])
  BY <1>3 DEF StatementsOf
<1> HIDE DEF next
<1>5. OnlyMoves(c) /\ phase'[c] = next
  BY <1>1, <1>4, GotoMoves DEF Phases, Statements
<1>6. ASSUME NEW d \in Callers
      PROVE  CallerOK(d)'
  <2>1. CallerOK(d)
    BY DEF IInv, TypeOK
  <2>2. CASE d = c
    BY <1>1, <1>2, <1>4, <1>5, <2>2 DEF CallerOK, Statements
  <2>3. CASE d # c
    BY <1>1, <1>5, <2>1, <2>3, NoneAssumption DEF CallerOK, OnlyMoves
  <2> QED
    BY <2>2, <2>3
<1>7. TypeOK'
  BY <1>1, <1>5, <1>6 DEF IInv, TypeOK, OnlyMoves
<1>8. HolderIsAt(c)'
  BY <1>1, <1>2, <1>4, <1>5 DEF HolderIsAt
<1>9. HolderWritesAlone'
  BY <1>1, <1>2, <1>8 DEF HolderWritesAlone
<1> QED
  BY <1>1, <1>7, <1>9, NothingCommitted DEF IInv

\* close() undoes the writes of the holder; what it found out stays so.
LEMMA CloseStep ==
  ASSUME IInv, Close
  PROVE  IInv'
<1>1. /\ open /\ ~ open' /\ tx' = db
      /\ UNCHANGED <<db, holder, phase, call, outcome, result>>
  BY DEF Close
<1>2. ASSUME NEW d \in Callers
      PROVE  CallerOK(d)'
  BY <1>1 DEF IInv, TypeOK, CallerOK
<1>3. TypeOK'
  BY <1>1, <1>2 DEF IInv, TypeOK, Close
<1>4. ASSUME NEW d \in Callers, holder' = d
      PROVE  HolderIsAt(d)'
  <2>1. HolderIsAt(d)
    BY <1>1, <1>4 DEF IInv, HolderWritesAlone
  <2>2. InsertIsTold(d) => InsertIsTold(d)'
    BY <1>1 DEF InsertIsTold, Wrote
  <2>3. TransitionIsTold(d) => TransitionIsTold(d)'
    BY <1>1 DEF TransitionIsTold, Wrote
  <2> QED
    BY <1>1, <2>1, <2>2, <2>3 DEF HolderIsAt, Wrote
<1>5. HolderWritesAlone'
  BY <1>1, <1>4 DEF HolderWritesAlone
<1> QED
  BY <1>1, <1>3, <1>5, NothingCommitted DEF IInv

LEMMA CrashStep ==
  ASSUME IInv, Crash
  PROVE  IInv'
<1>1. /\ tx' = db /\ open' = TRUE /\ holder' = None /\ db' = db
      /\ phase' = [c \in Callers |-> "idle"] /\ call' = [c \in Callers |-> None]
      /\ outcome' = [c \in Callers |-> None] /\ result' = [c \in Callers |-> None]
  BY DEF Crash
<1>2. ASSUME NEW d \in Callers
      PROVE  CallerOK(d)'
  BY <1>1, NoneAssumption DEF CallerOK, Statements
<1>3. TypeOK'
  BY <1>1, <1>2 DEF IInv, TypeOK, Phases
<1>4. HolderWritesAlone'
  BY <1>1, NoneAssumption DEF HolderWritesAlone
<1> QED
  BY <1>1, <1>3, <1>4, NothingCommitted DEF IInv

LEMMA Stutter ==
  ASSUME IInv, UNCHANGED vars
  PROVE  IInv'
<1>1. UNCHANGED <<db, tx, open, holder, phase, call, outcome, result>>
  BY DEF vars
<1>2. ASSUME NEW d \in Callers
      PROVE  CallerOK(d)' /\ (HolderIsAt(d) => HolderIsAt(d)')
  <2>1. CallerOK(d)'
    BY <1>1 DEF IInv, TypeOK, CallerOK
  <2>2. InsertIsTold(d) => InsertIsTold(d)'
    BY <1>1 DEF InsertIsTold, Wrote
  <2>3. TransitionIsTold(d) => TransitionIsTold(d)'
    BY <1>1 DEF TransitionIsTold, Wrote
  <2> QED
    BY <1>1, <2>1, <2>2, <2>3 DEF HolderIsAt, Wrote
<1>3. TypeOK'
  BY <1>1, <1>2 DEF IInv, TypeOK
<1>4. HolderWritesAlone'
  BY <1>1, <1>2 DEF IInv, HolderWritesAlone
<1> QED
  BY <1>1, <1>3, <1>4, NothingCommitted DEF IInv

-----------------------------------------------------------------------------
(* The invariant.                                                          *)

LEMMA InitIInv == Init => IInv
<1> SUFFICES ASSUME Init
             PROVE  IInv
  OBVIOUS
<1>1. TablesOK(EmptyTables) /\ EmptyTables.runs = NoRuns /\ EmptyTables.metrics = {}
  BY DEF TablesOK, EmptyTables, NoRuns
<1>2. ASSUME NEW d \in Callers
      PROVE  CallerOK(d)
  BY NoneAssumption DEF Init, CallerOK, Statements
<1>3. TypeOK
  BY <1>1, <1>2 DEF Init, TypeOK, Phases
<1>4. RunsComplete
  BY <1>1 DEF Init, RunsComplete, NoRuns
<1>5. HolderWritesAlone
  BY NoneAssumption DEF Init, HolderWritesAlone
<1> QED
  BY <1>3, <1>4, <1>5 DEF IInv

LEMMA NextIInv == IInv /\ [Next]_vars => IInv'
<1> SUFFICES ASSUME IInv, [Next]_vars
             PROVE  IInv'
  OBVIOUS
<1>1. CASE Close
  BY <1>1, CloseStep
<1>2. CASE Crash
  BY <1>2, CrashStep
<1>3. ASSUME NEW c \in Callers, Invoke(c) \/ Acquire(c) \/ Return(c)
      PROVE  IInv'
  BY <1>3, InvokeStep, AcquireStep, ReturnStep
<1>4. ASSUME NEW c \in Callers, HolderStep(c)
      PROVE  IInv'
  BY <1>4, BeginStep, CommitStep, StatementFailsStep, RollbackStep, ReleaseStep,
     InsertRunRowStep, InsertMetricRowsStep, SelectStep, SelectKeyStep, SelectRunStep,
     UpdateRunStep, InsertOperationStep
     DEF HolderStep
<1>5. CASE UNCHANGED vars
  BY <1>5, Stutter
<1> QED
  BY <1>1, <1>2, <1>3, <1>4, <1>5 DEF Next

\* However the statements of the calls interleave, fail or are cut short by
\* close() or a crash: IInv holds in every reachable state.
THEOREM Inductive == Spec => []IInv
<1> QED
  BY InitIInv, NextIInv, PTL DEF Spec

\* Every variable keeps its type, and only the holder of the connection
\* mutex is between taking the connection and giving it back.
THEOREM TypeCorrect == Spec => []TypeOK
<1>1. IInv => TypeOK
  BY DEF IInv
<1> QED
  BY <1>1, Inductive, PTL

\* A stored run has all its metric rows, and no metric row is without its
\* run: what the transaction of insert is for.
THEOREM RunsAreWhole == Spec => []RunsComplete
<1>1. IInv => RunsComplete
  BY DEF IInv
<1> QED
  BY <1>1, Inductive, PTL

\* No call sees a write of another that is not committed, and what a
\* transaction read before an await still holds when it commits.
THEOREM HolderIsAlone == Spec => []HolderWritesAlone
<1>1. IInv => HolderWritesAlone
  BY DEF IInv
<1> QED
  BY <1>1, Inductive, PTL

-----------------------------------------------------------------------------
(* The refinement: each statement is a step of the port or a stutter.      *)

LEMMA InitImplements == Init => Atomic!Init
BY SameTables DEF Init, EmptyTables, Atomic!Init, Atomic!StoreInit

\* A statement that neither commits nor settles a promise is not seen.
LEMMA Unseen ==
  ASSUME UNCHANGED <<db, call, result>>
  PROVE  UNCHANGED Atomic!atomicVars
BY DEF Atomic!atomicVars, Atomic!storeVars

\* A settled promise that wrote nothing: some clause of TakeEffect.
LEMMA ReadTakesEffect ==
  ASSUME IInv, NEW c \in Callers, phase[c] \in Statements,
         UNCHANGED <<db, call>>, NEW what, result' = [result EXCEPT ![c] = what],
         \/ what = Atomic!Rejected
         \/ call[c].op = "check" /\ what = Atomic!Done("ready")
         \/ /\ call[c].op = "findRun"
            /\ what = IF call[c].runId \in DOMAIN db.runs
                         THEN Atomic!Found(db.runs[call[c].runId])
                         ELSE Atomic!Done("undefined")
  PROVE  Atomic!TakeEffect(c)
<1>1. call[c] # None /\ result[c] = None
  BY AtStatement
<1>2. UNCHANGED Atomic!storeVars /\ Atomic!Answers(c, what)
  BY DEF Atomic!storeVars, Atomic!Answers
<1>3. CASE what = Atomic!Rejected
  BY <1>1, <1>2, <1>3 DEF Atomic!TakeEffect
<1>4. CASE call[c].op = "check" /\ what = Atomic!Done("ready")
  BY <1>1, <1>2, <1>4 DEF Atomic!TakeEffect, Atomic!Check
<1>5. CASE /\ call[c].op = "findRun"
           /\ what = IF call[c].runId \in DOMAIN db.runs
                        THEN Atomic!Found(db.runs[call[c].runId])
                        ELSE Atomic!Done("undefined")
  <2>1. Atomic!FindRun(c)
    BY <1>2, <1>5 DEF Atomic!FindRun, Atomic!Stored
  <2> QED
    BY <1>1, <2>1 DEF Atomic!TakeEffect
<1> QED
  BY <1>3, <1>4, <1>5

LEMMA SelectImplements ==
  ASSUME IInv, NEW c \in Callers, Select(c) \/ Check(c)
  PROVE  Atomic!TakeEffect(c)
<1>1. phase[c] = "select" /\ phase[c] \in Statements
  BY DEF Select, Check, Runs, Statements
<1>2. tx = db
  BY <1>1, AtStatement DEF HolderIsAt
<1>3. UNCHANGED <<db, call>>
  BY DEF Select, Check
<1>4. CASE Select(c)
  BY <1>1, <1>2, <1>3, <1>4, ReadTakesEffect DEF Select, Settle
<1>5. CASE Check(c)
  BY <1>1, <1>3, <1>5, ReadTakesEffect DEF Check, Settle
<1> QED
  BY <1>4, <1>5

LEMMA StatementFailsImplements ==
  ASSUME IInv, NEW c \in Callers, StatementFails(c)
  PROVE  Atomic!TakeEffect(c) \/ UNCHANGED Atomic!atomicVars
<1>1. phase[c] \in Statements /\ UNCHANGED <<db, call>>
  BY DEF StatementFails
<1>2. CASE Settle(c, Atomic!Rejected)
  BY <1>1, <1>2, ReadTakesEffect DEF Settle
<1>3. CASE UNCHANGED result
  BY <1>1, <1>3, Unseen
<1> QED
  BY <1>2, <1>3 DEF StatementFails

LEMMA RollbackImplements ==
  ASSUME IInv, NEW c \in Callers, Rollback(c)
  PROVE  Atomic!TakeEffect(c)
<1>1. phase[c] \in Statements /\ UNCHANGED <<db, call>>
  BY DEF Rollback, Statements
<1>2. result' = [result EXCEPT ![c] = Atomic!Rejected]
  BY DEF Rollback, Settle
<1> QED
  BY <1>1, <1>2, ReadTakesEffect

\* COMMIT is the moment at which an insert or a transition takes effect.
LEMMA CommitImplements ==
  ASSUME IInv, NEW c \in Callers, Commit(c)
  PROVE  Atomic!TakeEffect(c)
<1>1. /\ phase[c] = "commit" /\ phase[c] \in Statements /\ open
      /\ db' = tx /\ call' = call
      /\ Atomic!Answers(c, outcome[c])
  BY DEF Commit, Runs, Statements, Settle, Atomic!Answers
<1>2. /\ call[c] \in Calls /\ call[c] # None /\ result[c] = None /\ HolderIsAt(c)
      /\ call[c].op \in {"insert", "transition"}
  BY <1>1, AtStatement, CallOfStatement
<1>3. CASE call[c].op = "insert"
  <2> DEFINE e == call[c].evidence
  <2>1. InsertIsTold(c)
    BY <1>1, <1>2, <1>3 DEF HolderIsAt
  <2>2. CASE /\ outcome[c] = Atomic!Done("inserted")
             /\ e.run_id \notin DOMAIN db.runs
             /\ tx = Inserted(db, e)
    <3>1. Atomic!InsertRun(e)
      BY <1>1, <2>2, SameTables DEF Inserted, Atomic!InsertRun, Atomic!Stored
    <3> QED
      BY <1>1, <1>2, <1>3, <2>2, <3>1 DEF Atomic!TakeEffect, Atomic!Insert
  <2>3. CASE /\ outcome[c] = Atomic!Done("duplicate")
             /\ e.run_id \in DOMAIN db.runs
             /\ tx = db
    <3>1. UNCHANGED Atomic!storeVars /\ Atomic!Stored(e.run_id)
      BY <1>1, <2>3 DEF Atomic!storeVars, Atomic!Stored
    <3> QED
      BY <1>1, <1>2, <1>3, <2>3, <3>1 DEF Atomic!TakeEffect, Atomic!Insert
  <2> QED
    BY <1>1, <2>1, <2>2, <2>3 DEF InsertIsTold, Wrote
<1>4. CASE call[c].op = "transition"
  <2> DEFINE t == call[c].transition
             i == OperationOf(db.operations, t.key)
             used == KeyUsed(db.operations, t.key)
             same == SamePayload(db.operations[i], t)
             stored == t.runId \in DOMAIN db.runs
  <2>1. TransitionIsTold(c)
    BY <1>1, <1>2, <1>4 DEF HolderIsAt
  <2>2. SUFFICES Atomic!Transition(c)
    BY <1>1, <1>2 DEF Atomic!TakeEffect
  <2>3. /\ used = Atomic!KeyUsed(db.operations, t.key)
        /\ i = Atomic!OperationOf(db.operations, t.key)
        /\ same = Atomic!SamePayload(db.operations[i], t)
        /\ stored = Atomic!Stored(t.runId)
    BY SameTables DEF Atomic!Stored
  <2>4. CASE /\ ~ used /\ stored /\ tx = Applied(db, t)
             /\ outcome[c] = Atomic!WithReceipt("applied", Len(db.operations) + 1, t)
    <3>1. Atomic!ApplyTransition(t)
      BY <1>1, <2>3, <2>4, SameTables DEF Applied, Atomic!ApplyTransition, Atomic!IsFresh
    <3> QED
      BY <1>1, <1>4, <2>4, <3>1 DEF Atomic!Transition
  <2>5. CASE tx = db
    <3>1. UNCHANGED Atomic!storeVars
      BY <1>1, <2>5 DEF Atomic!storeVars
    <3>2. CASE /\ used /\ same
               /\ outcome[c] = Atomic!WithReceipt("replayed", i, db.operations[i])
      BY <1>1, <1>4, <2>3, <3>1, <3>2 DEF Atomic!Transition, Atomic!IsReplay
    <3>3. CASE used /\ ~ same /\ outcome[c] = Atomic!Done("conflict")
      BY <1>1, <1>4, <2>3, <3>1, <3>3 DEF Atomic!Transition, Atomic!IsConflict
    <3>4. CASE ~ used /\ ~ stored /\ outcome[c] = Atomic!Done("not_found")
      BY <1>1, <1>4, <2>3, <3>1, <3>4 DEF Atomic!Transition, Atomic!IsMissing
    <3>5. CASE ~ used /\ stored /\ Wrote(Applied(db, t))
               /\ outcome[c] = Atomic!WithReceipt("applied", Len(db.operations) + 1, t)
      BY <1>1, <2>4, <3>5 DEF Wrote
    <3> QED
      BY <2>1, <3>2, <3>3, <3>4, <3>5 DEF TransitionIsTold
  <2> QED
    BY <1>1, <2>1, <2>4, <2>5 DEF TransitionIsTold, Wrote
<1> QED
  BY <1>2, <1>3, <1>4

LEMMA InvokeImplements ==
  ASSUME IInv, NEW c \in Callers, Invoke(c)
  PROVE  Atomic!Invoke(c)
<1>1. call[c] = None
  BY DEF Invoke, IInv, TypeOK, CallerOK
<1> QED
  BY <1>1 DEF Invoke, Atomic!Invoke, Atomic!storeVars

LEMMA ReturnImplements ==
  ASSUME IInv, NEW c \in Callers, Return(c)
  PROVE  Atomic!Return(c)
<1>1. result[c] # None
  BY DEF Return, IInv, TypeOK, CallerOK
<1> QED
  BY <1>1 DEF Return, Atomic!Return, Atomic!storeVars

LEMMA NextImplements == IInv /\ [Next]_vars => [Atomic!Next]_Atomic!atomicVars
<1> SUFFICES ASSUME IInv, [Next]_vars
             PROVE  Atomic!Next \/ UNCHANGED Atomic!atomicVars
  OBVIOUS
<1>1. CASE Close \/ UNCHANGED vars
  BY <1>1, Unseen DEF Close, vars
<1>2. CASE Crash
  BY <1>2 DEF Crash, Atomic!Crash, Atomic!Next, Atomic!storeVars
<1>3. ASSUME NEW c \in Callers,
             \/ Acquire(c) \/ Begin(c) \/ Release(c) \/ InsertRunRow(c) \/ InsertMetricRows(c)
             \/ SelectKey(c) \/ SelectRun(c) \/ UpdateRun(c) \/ InsertOperation(c)
      PROVE  UNCHANGED Atomic!atomicVars
  <2>1. UNCHANGED <<db, call, result>>
    BY <1>3 DEF Acquire, Begin, Release, InsertRunRow, InsertMetricRows, SelectKey, SelectRun,
       UpdateRun, InsertOperation
  <2> QED
    BY <2>1, Unseen
<1>4. ASSUME NEW c \in Callers,
             \/ Invoke(c) \/ Return(c) \/ Commit(c) \/ StatementFails(c) \/ Rollback(c)
             \/ Select(c) \/ Check(c)
      PROVE  Atomic!Next \/ UNCHANGED Atomic!atomicVars
  BY <1>4, InvokeImplements, ReturnImplements, CommitImplements, StatementFailsImplements,
     RollbackImplements, SelectImplements
     DEF Atomic!Next
<1> QED
  BY <1>1, <1>2, <1>3, <1>4 DEF Next, HolderStep

\* The repository implements the port: with its statements interleaved,
\* failing and cut short by close() or a crash, every call takes effect at
\* one moment between its invocation and its return, or not at all.
THEOREM Implements == Spec => ImplementsPort
<1> QED
  BY InitImplements, NextImplements, Inductive, PTL DEF Spec, ImplementsPort, Atomic!Spec

=============================================================================

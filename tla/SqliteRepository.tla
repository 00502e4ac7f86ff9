-------------------------- MODULE SqliteRepository --------------------------
(***************************************************************************)
(* The SQLite repository, statement by statement.  All calls share one     *)
(* connection.  Kysely guards it with a mutex that a call takes before its *)
(* first statement and gives back after its last one; between two          *)
(* statements of a transaction the handler awaits, and other handlers run. *)
(* A statement may fail, the process may crash, and close() shuts the      *)
(* connection without taking the mutex.                                    *)
(***************************************************************************)
EXTENDS EvidenceTables

CONSTANTS
  Callers,  \* the calls that may be under way at a time
  Calls     \* what they may ask for

ASSUME CallsAssumption ==
  Calls \subseteq
         [op : {"insert"}, evidence : Documents]
    \cup [op : {"findRun"}, runId : RunIds]
    \cup [op : {"check"}]
    \cup [op : {"transition"}, transition : TransitionRequest]

ASSUME NoneAssumption == None \notin Callers \cup Calls

VARIABLES
  db,       \* the committed tables
  tx,       \* the tables as the connection sees them, uncommitted writes included
  open,     \* whether the connection is open
  holder,   \* the caller that holds the connection mutex, or None
  phase,    \* the statement each call is about to run
  call,     \* what each caller has asked for, or None
  outcome,  \* what its callback has returned to Kysely, or None
  result    \* what its promise settles to once that is decided, or None

vars == <<db, tx, open, holder, phase, call, outcome, result>>

Atomic == INSTANCE AtomicRepository WITH runs <- db.runs, operations <- db.operations

ASSUME NoResultAssumption == None \notin Atomic!Results

-----------------------------------------------------------------------------
(* The tables.                                                             *)

MetricRow == [runId : RunIds, name : MetricNames, failures : Nat]

MetricRowsOf(e) ==
  { [runId |-> e.run_id, name |-> e.metrics[i].name, failures |-> e.metrics[i].failures]
    : i \in DOMAIN e.metrics }

EmptyTables == [runs |-> NoRuns, metrics |-> {}, operations |-> <<>>]

Statements ==
  {"begin", "insertRun", "insertMetrics", "selectKey", "selectRun", "updateRun",
   "insertOperation", "commit", "rollback", "select"}

Phases == {"idle", "waiting", "release", "returned"} \cup Statements

\* The statements a call may run.
StatementsOf(what) ==
  CASE what.op = "insert" ->
         {"begin", "insertRun", "insertMetrics", "commit", "rollback"}
    [] what.op = "transition" ->
         {"begin", "selectKey", "selectRun", "updateRun", "insertOperation", "commit", "rollback"}
    [] OTHER -> {"select"}

\* The first statement of a transaction's callback.
FirstStatement(what) == IF what.op = "insert" THEN "insertRun" ELSE "selectKey"

Init ==
  /\ db = EmptyTables
  /\ tx = EmptyTables
  /\ open = TRUE
  /\ holder = None
  /\ phase = [c \in Callers |-> "idle"]
  /\ call = [c \in Callers |-> None]
  /\ outcome = [c \in Callers |-> None]
  /\ result = [c \in Callers |-> None]

Goto(c, next) == phase' = [phase EXCEPT ![c] = next]

\* The callback returns what; Kysely goes on to COMMIT.
Yield(c, what) ==
  /\ outcome' = [outcome EXCEPT ![c] = what]
  /\ Goto(c, "commit")

\* The promise of the call is going to settle to what.
Settle(c, what) ==
  /\ result' = [result EXCEPT ![c] = what]
  /\ Goto(c, "release")

\* c runs a statement on the open connection.
Runs(c, statement) == open /\ phase[c] = statement

-----------------------------------------------------------------------------
(* The connection: Kysely's mutex, transactions and destroy().             *)

Invoke(c) ==
  /\ phase[c] = "idle"
  /\ \E what \in Calls : call' = [call EXCEPT ![c] = what]
  /\ Goto(c, "waiting")
  /\ UNCHANGED <<db, tx, open, holder, outcome, result>>

Acquire(c) ==
  /\ phase[c] = "waiting"
  /\ holder = None
  /\ holder' = c
  /\ Goto(c, IF call[c].op \in {"findRun", "check"} THEN "select" ELSE "begin")
  /\ UNCHANGED <<db, tx, open, call, outcome, result>>

Begin(c) ==
  /\ Runs(c, "begin")
  /\ Goto(c, FirstStatement(call[c]))
  /\ UNCHANGED <<db, tx, open, holder, call, outcome, result>>

Commit(c) ==
  /\ Runs(c, "commit")
  /\ db' = tx
  /\ Settle(c, outcome[c])
  /\ outcome' = [outcome EXCEPT ![c] = None]
  /\ UNCHANGED <<tx, open, holder, call>>

\* A statement throws.  Inside a transaction Kysely rolls back first.
StatementFails(c) ==
  /\ phase[c] \in Statements \ {"rollback"}
  /\ \/ /\ phase[c] \in {"begin", "select"}
        /\ Settle(c, Atomic!Rejected)
     \/ /\ phase[c] \notin {"begin", "select"}
        /\ Goto(c, "rollback")
        /\ UNCHANGED result
  /\ UNCHANGED <<db, tx, open, holder, call, outcome>>

\* Mutant: the writes of a failed transaction stay on the connection.
RollbackForgotten(c) ==
  /\ phase[c] = "rollback"
  /\ Settle(c, Atomic!Rejected)
  /\ outcome' = [outcome EXCEPT ![c] = None]
  /\ UNCHANGED <<db, tx, open, holder, call>>

\* On a closed connection ROLLBACK throws too; the writes are gone anyway.
Rollback(c) ==
  /\ phase[c] = "rollback"
  /\ tx' = db
  /\ Settle(c, Atomic!Rejected)
  /\ outcome' = [outcome EXCEPT ![c] = None]
  /\ UNCHANGED <<db, open, holder, call>>

Release(c) ==
  /\ phase[c] = "release"
  /\ holder' = None
  /\ Goto(c, "returned")
  /\ UNCHANGED <<db, tx, open, call, outcome, result>>

Return(c) ==
  /\ phase[c] = "returned"
  /\ Goto(c, "idle")
  /\ call' = [call EXCEPT ![c] = None]
  /\ result' = [result EXCEPT ![c] = None]
  /\ UNCHANGED <<db, tx, open, holder, outcome>>

Close ==
  /\ open
  /\ open' = FALSE
  /\ tx' = db
  /\ UNCHANGED <<db, holder, phase, call, outcome, result>>

\* The process dies; a new one opens the file and sees what was committed.
Crash ==
  /\ tx' = db
  /\ open' = TRUE
  /\ holder' = None
  /\ phase' = [c \in Callers |-> "idle"]
  /\ call' = [c \in Callers |-> None]
  /\ outcome' = [c \in Callers |-> None]
  /\ result' = [c \in Callers |-> None]
  /\ UNCHANGED db

-----------------------------------------------------------------------------
(* insert.                                                                 *)

\* Mutant: the row of the run is written outside the transaction.
InsertRunRowAtOnce(c) ==
  /\ Runs(c, "insertRun")
  /\ LET e == call[c].evidence
     IN  \/ /\ e.run_id \in DOMAIN tx.runs
            /\ Yield(c, Atomic!Done("duplicate"))
            /\ UNCHANGED <<db, tx>>
         \/ /\ e.run_id \notin DOMAIN tx.runs
            /\ tx' = [tx EXCEPT !.runs = WithRun(@, e)]
            /\ db' = [db EXCEPT !.runs = WithRun(@, e)]
            /\ Goto(c, "insertMetrics")
            /\ UNCHANGED outcome
  /\ UNCHANGED <<open, holder, call, result>>

InsertRunRow(c) ==
  /\ Runs(c, "insertRun")
  /\ LET e == call[c].evidence
     IN  \/ /\ e.run_id \in DOMAIN tx.runs
            /\ Yield(c, Atomic!Done("duplicate"))
            /\ UNCHANGED tx
         \/ /\ e.run_id \notin DOMAIN tx.runs
            /\ tx' = [tx EXCEPT !.runs = WithRun(@, e)]
            /\ Goto(c, "insertMetrics")
            /\ UNCHANGED outcome
  /\ UNCHANGED <<db, open, holder, call, result>>

\* The primary key (run_id, name) makes the statement throw otherwise.
InsertMetricRows(c) ==
  /\ Runs(c, "insertMetrics")
  /\ MetricNamesUnique(call[c].evidence)
  /\ tx' = [tx EXCEPT !.metrics = @ \cup MetricRowsOf(call[c].evidence)]
  /\ Yield(c, Atomic!Done("inserted"))
  /\ UNCHANGED <<db, open, holder, call, result>>

-----------------------------------------------------------------------------
(* findRun and check, outside any transaction.                             *)

Select(c) ==
  /\ Runs(c, "select")
  /\ call[c].op = "findRun"
  /\ LET id == call[c].runId
     IN  Settle(c, IF id \in DOMAIN tx.runs
                     THEN Atomic!Found(tx.runs[id])
                     ELSE Atomic!Done("undefined"))
  /\ UNCHANGED <<db, tx, open, holder, call, outcome>>

\* The table can be read, whatever is in it.
Check(c) ==
  /\ Runs(c, "select")
  /\ call[c].op = "check"
  /\ Settle(c, Atomic!Done("ready"))
  /\ UNCHANGED <<db, tx, open, holder, call, outcome>>

-----------------------------------------------------------------------------
(* transition.                                                             *)

SelectKey(c) ==
  /\ Runs(c, "selectKey")
  /\ LET t == call[c].transition
         i == OperationOf(tx.operations, t.key)
     IN  \/ /\ KeyUsed(tx.operations, t.key)
            /\ ~ SamePayload(tx.operations[i], t)
            /\ Yield(c, Atomic!Done("conflict"))
         \/ /\ KeyUsed(tx.operations, t.key)
            /\ SamePayload(tx.operations[i], t)
            /\ Yield(c, Atomic!WithReceipt("replayed", i, tx.operations[i]))
         \/ /\ ~ KeyUsed(tx.operations, t.key)
            /\ Goto(c, "selectRun")
            /\ UNCHANGED outcome
  /\ UNCHANGED <<db, tx, open, holder, call, result>>

\* Mutant: the callback asks this.db, and so waits for its own connection.
SelectRunElsewhere(c) ==
  /\ Runs(c, "selectRun")
  /\ Goto(c, "waiting")
  /\ UNCHANGED <<db, tx, open, holder, call, outcome, result>>

SelectRun(c) ==
  /\ Runs(c, "selectRun")
  /\ \/ /\ call[c].transition.runId \notin DOMAIN tx.runs
        /\ Yield(c, Atomic!Done("not_found"))
     \/ /\ call[c].transition.runId \in DOMAIN tx.runs
        /\ Goto(c, "updateRun")
        /\ UNCHANGED outcome
  /\ UNCHANGED <<db, tx, open, holder, call, result>>

\* Mutant: the status is written outside the transaction.
UpdateRunAtOnce(c) ==
  /\ Runs(c, "updateRun")
  /\ LET t == call[c].transition
     IN  /\ tx' = [tx EXCEPT !.runs = WithStatus(@, t.runId, t.target)]
         /\ db' = [db EXCEPT !.runs = WithStatus(@, t.runId, t.target)]
  /\ Goto(c, "insertOperation")
  /\ UNCHANGED <<open, holder, call, outcome, result>>

UpdateRun(c) ==
  /\ Runs(c, "updateRun")
  /\ LET t == call[c].transition
     IN  tx' = [tx EXCEPT !.runs = WithStatus(@, t.runId, t.target)]
  /\ Goto(c, "insertOperation")
  /\ UNCHANGED <<db, open, holder, call, outcome, result>>

\* The UNIQUE constraint on the key makes the statement throw otherwise.
InsertOperation(c) ==
  /\ Runs(c, "insertOperation")
  /\ LET t == call[c].transition
     IN  /\ ~ KeyUsed(tx.operations, t.key)
         /\ tx' = [tx EXCEPT !.operations = Append(@, t)]
         /\ Yield(c, Atomic!WithReceipt("applied", Len(tx.operations) + 1, t))
  /\ UNCHANGED <<db, open, holder, call, result>>

-----------------------------------------------------------------------------
\* What the call that holds the connection does next.
HolderStep(c) ==
  \/ Begin(c) \/ Commit(c) \/ StatementFails(c) \/ Rollback(c) \/ Release(c)
  \/ InsertRunRow(c) \/ InsertMetricRows(c)
  \/ Select(c) \/ Check(c)
  \/ SelectKey(c) \/ SelectRun(c) \/ UpdateRun(c) \/ InsertOperation(c)

Next ==
  \/ Close
  \/ Crash
  \/ \E c \in Callers : Invoke(c) \/ Acquire(c) \/ HolderStep(c) \/ Return(c)

\* The driver is synchronous and every promise it returns settles, so the
\* holder goes on; waiters of the mutex resume in the order they came, so
\* none of them is passed over for ever.
Fairness ==
  \A c \in Callers : WF_vars(HolderStep(c)) /\ SF_vars(Acquire(c))

Spec == Init /\ [][Next]_vars

FairSpec == Spec /\ Fairness

-----------------------------------------------------------------------------
(* Properties.                                                             *)

TablesOK(tables) ==
  /\ tables = [runs |-> tables.runs, metrics |-> tables.metrics, operations |-> tables.operations]
  /\ DOMAIN tables.runs \subseteq RunIds
  /\ tables.runs \in [DOMAIN tables.runs -> RunRow]
  /\ tables.metrics \subseteq MetricRow
  /\ tables.operations \in Seq(TransitionRequest)

CallerOK(c) ==
  /\ phase[c] = "idle" <=> call[c] = None
  /\ phase[c] \in {"release", "returned"} <=> result[c] # None
  /\ phase[c] = "commit" => outcome[c] # None
  /\ phase[c] \in Statements => phase[c] \in StatementsOf(call[c])
  /\ phase[c] \in Statements \cup {"release"} <=> holder = c

\* Every variable keeps its type, a call runs the statements of its
\* operation, and only the holder of the mutex is between taking the
\* connection and giving it back.
TypeOK ==
  /\ TablesOK(db)
  /\ TablesOK(tx)
  /\ open \in BOOLEAN
  /\ holder \in Callers \cup {None}
  /\ phase \in [Callers -> Phases]
  /\ call \in [Callers -> Calls \cup {None}]
  /\ outcome \in [Callers -> Atomic!Results \cup {None}]
  /\ result \in [Callers -> Atomic!Results \cup {None}]
  /\ \A c \in Callers : CallerOK(c)

\* A stored run has all its metric rows and no others: no crash, failed
\* statement, close or concurrent call leaves a run without its metrics or
\* metrics without their run (the transaction of insert).
RunsComplete ==
  db.metrics = UNION {MetricRowsOf(db.runs[id].evidence) : id \in DOMAIN db.runs}

Inserted(tables, e) ==
  [ runs       |-> WithRun(tables.runs, e),
    metrics    |-> tables.metrics \cup MetricRowsOf(e),
    operations |-> tables.operations ]

Applied(tables, t) ==
  [ runs       |-> WithStatus(tables.runs, t.runId, t.target),
    metrics    |-> tables.metrics,
    operations |-> Append(tables.operations, t) ]

\* On an open connection the writes of c have turned the committed tables
\* into these; close() has undone them.
Wrote(tables) == open => tx = tables

\* What c is about to commit is what its answer says, of the tables that
\* are committed now.
InsertIsTold(c) ==
  LET e == call[c].evidence
  IN  \/ /\ outcome[c] = Atomic!Done("inserted")
         /\ e.run_id \notin DOMAIN db.runs
         /\ Wrote(Inserted(db, e))
      \/ /\ outcome[c] = Atomic!Done("duplicate")
         /\ e.run_id \in DOMAIN db.runs
         /\ tx = db

TransitionIsTold(c) ==
  LET t == call[c].transition
      i == OperationOf(db.operations, t.key)
      used == KeyUsed(db.operations, t.key)
      same == SamePayload(db.operations[i], t)
      stored == t.runId \in DOMAIN db.runs
  IN  \/ /\ ~ used /\ stored
         /\ outcome[c] = Atomic!WithReceipt("applied", Len(db.operations) + 1, t)
         /\ Wrote(Applied(db, t))
      \/ /\ used /\ same
         /\ outcome[c] = Atomic!WithReceipt("replayed", i, db.operations[i])
         /\ tx = db
      \/ used /\ ~ same /\ outcome[c] = Atomic!Done("conflict") /\ tx = db
      \/ ~ used /\ ~ stored /\ outcome[c] = Atomic!Done("not_found") /\ tx = db

\* How far the holder has come, and what it has found out on the way.
HolderIsAt(c) ==
  /\ phase[c] \notin {"insertMetrics", "insertOperation", "commit", "rollback"} => tx = db
  /\ phase[c] = "insertMetrics" =>
       /\ call[c].evidence.run_id \notin DOMAIN db.runs
       /\ Wrote([db EXCEPT !.runs = WithRun(@, call[c].evidence)])
  /\ phase[c] \in {"selectRun", "updateRun", "insertOperation"} =>
       ~ KeyUsed(db.operations, call[c].transition.key)
  /\ phase[c] \in {"updateRun", "insertOperation"} =>
       call[c].transition.runId \in DOMAIN db.runs
  /\ phase[c] = "insertOperation" =>
       Wrote([db EXCEPT !.runs = WithStatus(@, call[c].transition.runId, call[c].transition.target)])
  /\ phase[c] = "commit" /\ call[c].op = "insert" => InsertIsTold(c)
  /\ phase[c] = "commit" /\ call[c].op = "transition" => TransitionIsTold(c)

\* The connection shows what is committed and the writes of the call that
\* holds the mutex so far, no others; what that call read before an await is
\* still so of the committed tables, and COMMIT will do what its answer says.
HolderWritesAlone ==
  /\ ~ open \/ holder = None => tx = db
  /\ \A c \in Callers : holder = c => HolderIsAt(c)

\* The repository implements the port: with its statements interleaved,
\* failing and cut short, every call still takes effect at one moment or
\* not at all, and reads nothing that was not committed.
ImplementsPort == Atomic!Spec

\* Every call that waits for the connection returns, or dies with the process.
EveryCallReturns ==
  \A c \in Callers : phase[c] = "waiting" ~> phase[c] \in {"returned", "idle"}

=============================================================================

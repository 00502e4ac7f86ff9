-------------------------- MODULE AtomicRepository --------------------------
(***************************************************************************)
(* What the store port promises its callers: every call takes effect at    *)
(* one moment between its invocation and its return, as if it ran alone,   *)
(* or is rejected and has no effect.  A crash of the process forgets the   *)
(* calls and keeps the effects.                                            *)
(***************************************************************************)
EXTENDS EvidenceStore

CONSTANTS
  Callers,  \* the calls that may be under way at a time
  Calls     \* what they may ask for

VARIABLES
  call,    \* what each caller has asked for, or None
  result   \* the result of its call once it took effect, or None

atomicVars == <<storeVars, call, result>>

Rejected == [kind |-> "rejected"]

\* OperationTransitionResult, the boolean of insert, the row of findRun, and
\* the answer of check.
Done(kind) == [kind |-> kind]
WithReceipt(kind, i, row) == [kind |-> kind, receipt |-> Receipt(i, row)]
Found(row) == [kind |-> "found", run |-> row]

\* What the promise of a call may settle to.
Results ==
       [kind : {"rejected", "inserted", "duplicate", "undefined", "ready", "conflict", "not_found"}]
  \cup [kind : {"applied", "replayed"}, receipt : Receipts]
  \cup [kind : {"found"}, run : RunRow]

-----------------------------------------------------------------------------
Init ==
  /\ StoreInit
  /\ call = [c \in Callers |-> None]
  /\ result = [c \in Callers |-> None]

Invoke(c) ==
  /\ call[c] = None
  /\ \E what \in Calls : call' = [call EXCEPT ![c] = what]
  /\ UNCHANGED <<storeVars, result>>

Answers(c, what) == result' = [result EXCEPT ![c] = what]

Insert(c) ==
  /\ call[c].op = "insert"
  /\ \/ InsertRun(call[c].evidence) /\ Answers(c, Done("inserted"))
     \/ /\ Stored(call[c].evidence.run_id)
        /\ Answers(c, Done("duplicate"))
        /\ UNCHANGED storeVars

FindRun(c) ==
  /\ call[c].op = "findRun"
  /\ Answers(c, IF Stored(call[c].runId) THEN Found(runs[call[c].runId]) ELSE Done("undefined"))
  /\ UNCHANGED storeVars

Check(c) ==
  /\ call[c].op = "check"
  /\ Answers(c, Done("ready"))
  /\ UNCHANGED storeVars

Transition(c) ==
  /\ call[c].op = "transition"
  /\ LET t == call[c].transition
         i == OperationOf(operations, t.key)
     IN  \/ /\ ApplyTransition(t)
            /\ Answers(c, WithReceipt("applied", Len(operations) + 1, t))
         \/ /\ IsReplay(t)
            /\ Answers(c, WithReceipt("replayed", i, operations[i]))
            /\ UNCHANGED storeVars
         \/ /\ IsConflict(t)
            /\ Answers(c, Done("conflict"))
            /\ UNCHANGED storeVars
         \/ /\ IsMissing(t)
            /\ Answers(c, Done("not_found"))
            /\ UNCHANGED storeVars

\* The one moment at which a call takes effect, or is rejected.
TakeEffect(c) ==
  /\ call[c] # None
  /\ result[c] = None
  /\ \/ Insert(c)
     \/ FindRun(c)
     \/ Check(c)
     \/ Transition(c)
     \/ Answers(c, Rejected) /\ UNCHANGED storeVars
  /\ UNCHANGED call

Return(c) ==
  /\ result[c] # None
  /\ call' = [call EXCEPT ![c] = None]
  /\ result' = [result EXCEPT ![c] = None]
  /\ UNCHANGED storeVars

Crash ==
  /\ call' = [c \in Callers |-> None]
  /\ result' = [c \in Callers |-> None]
  /\ UNCHANGED storeVars

Next == Crash \/ \E c \in Callers : Invoke(c) \/ TakeEffect(c) \/ Return(c)

Spec == Init /\ [][Next]_atomicVars

=============================================================================

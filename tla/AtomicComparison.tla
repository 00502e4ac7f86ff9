-------------------------- MODULE AtomicComparison -------------------------
(***************************************************************************)
(* What compareBenchmarkRuns promises its client: the verdict on the runs  *)
(* stored at one moment, the reason being the first obstacle there is,     *)
(* whatever is ingested while the client waits.                            *)
(***************************************************************************)
EXTENDS ComparisonDomain

VARIABLES
  table,  \* benchmark_runs
  asked,  \* the arguments of the comparison under way
  phase,  \* idle, asked or answered
  reply   \* the verdict once there is one, or pending

atomicVars == <<table, asked, phase, reply>>

Init ==
  /\ table = [id \in {} |-> Blank]
  /\ asked = <<>>
  /\ phase = "idle"
  /\ reply = "pending"

Ingest(e) ==
  /\ e.run_id \notin DOMAIN table
  /\ table' = [id \in DOMAIN table \cup {e.run_id} |-> IF id = e.run_id THEN e ELSE table[id]]
  /\ UNCHANGED <<asked, phase, reply>>

\* Arguments that name too few or too many runs are refused as they come.
Ask ==
  /\ phase = "idle"
  /\ \E n \in 0..MaxArguments : asked' \in [1..n -> Arguments]
  /\ \/ /\ Cardinality(FirstOccurrences(asked')) \notin 2..MaxComparisonRuns
        /\ phase' = "answered"
        /\ reply' = "invalid_query"
     \/ /\ Cardinality(FirstOccurrences(asked')) \in 2..MaxComparisonRuns
        /\ phase' = "asked"
        /\ UNCHANGED reply
  /\ UNCHANGED table

\* The one moment.
Compare ==
  /\ phase = "asked"
  /\ phase' = "answered"
  /\ reply' = VerdictOf(asked, table)
  /\ UNCHANGED <<table, asked>>

\* There may be no moment to speak of, as the rows cannot be read.
Fail ==
  /\ phase = "asked"
  /\ phase' = "answered"
  /\ reply' = "failed"
  /\ UNCHANGED <<table, asked>>

Take ==
  /\ phase = "answered"
  /\ asked' = <<>>
  /\ phase' = "idle"
  /\ reply' = "pending"
  /\ UNCHANGED table

Next ==
  \/ \E e \in Documents : Ingest(e)
  \/ Ask
  \/ Compare
  \/ Fail
  \/ Take

Spec == Init /\ [][Next]_atomicVars

=============================================================================

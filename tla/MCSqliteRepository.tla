------------------------ MODULE MCSqliteRepository --------------------------
(***************************************************************************)
(* Instances of SqliteRepository for TLC.                                  *)
(***************************************************************************)
EXTENDS SqliteRepository

Doc(id, metrics) == [run_id |-> id, metrics |-> metrics]
Measured(name, failures) == [name |-> name, failures |-> failures]

\* Two documents that share a run id and differ in their metrics.
Short == Doc("r1", <<Measured("latency", 0)>>)
Long == Doc("r1", <<Measured("latency", 0), Measured("errors", 1)>>)

MCRunIds == {"r1", "r2"}
MCMetricNames == {"latency", "errors"}
MCDocuments == {Short, Long}
MCKeys == {"k1", "k2"}
MCReasons == {"drift"}

Quarantine(id, key) ==
  TransitionFor([command |-> "quarantine", runId |-> id, key |-> key,
                 decision |-> None, reason |-> "drift"], "QUARANTINED")
Revalidate(id, key, status) ==
  TransitionFor([command |-> "revalidate", runId |-> id, key |-> key,
                 decision |-> None, reason |-> None], status)

Inserts == {[op |-> "insert", evidence |-> e] : e \in MCDocuments}
Reads == {[op |-> "findRun", runId |-> "r1"]}
Checks == {[op |-> "check"]}
Transitions ==
  {[op |-> "transition", transition |-> t] :
     t \in {Quarantine("r1", "k1"), Quarantine("r2", "k1"),
            Revalidate("r1", "k1", "ACCEPTED"), Revalidate("r1", "k2", "ACCEPTED")}}

MCCalls == Inserts \cup Reads \cup Checks \cup Transitions

=============================================================================

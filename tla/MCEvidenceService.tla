------------------------- MODULE MCEvidenceService --------------------------
(***************************************************************************)
(* Instances of EvidenceService for TLC.  The ids of the runs are strings; *)
(* every document carries one or two metrics.                              *)
(***************************************************************************)
EXTENDS EvidenceService, TLC

Doc(id, metrics) == [run_id |-> id, metrics |-> metrics]

Measured(name, failures) == [name |-> name, failures |-> failures]

\* A run without failures, another posting under the same id whose second
\* metric has one, and a second run that has failures only in its first.
Clean == Doc("r1", <<Measured("latency", 0)>>)
Failing == Doc("r1", <<Measured("latency", 0), Measured("errors", 1)>>)
Other == Doc("r2", <<Measured("errors", 1)>>)
\* A document with a repeated metric name, which the schema lets through.
Doubled == Doc("r2", <<Measured("latency", 0), Measured("latency", 0)>>)
\* A run whose id is the nil UUID: the contract's "uuid" format accepts it.
Nil == Doc("nil", <<Measured("latency", 0)>>)

Revalidate(id, key) ==
  [command |-> "revalidate", runId |-> id, key |-> key, decision |-> None, reason |-> None]
Quarantine(id, key, why) ==
  [command |-> "quarantine", runId |-> id, key |-> key, decision |-> None, reason |-> why]
Decide(id, key, decision, why) ==
  [command |-> "publication_decision", runId |-> id, key |-> key,
   decision |-> decision, reason |-> why]

MCRunIds == {"r1", "r2", "nil"}
MCOperableIds == {"r1", "r2"}
MCMetricNames == {"latency", "errors"}
MCKeys == {"k1", "k2"}
MoreKeys == {"k1", "k2", "k3"}
MCReasons == {"drift", "noise"}
MCDocuments == {Clean, Failing, Other, Doubled, Nil}
OneRun == {Clean, Failing}
TwoRuns == {Clean, Failing, Other}

\* The contract at boot, and a later one that refuses the failing documents.
MCContracts == {{Clean, Failing, Other, Doubled, Nil}, {Clean, Other}}
OneContract == {Documents}

Valid(ids, keys) ==
  UNION { {Revalidate(id, k), Quarantine(id, k, "drift"),
           Decide(id, k, "approve", "drift"), Decide(id, k, "reject", "drift")}
          : id \in ids, k \in keys }

OnOneRun == Valid({"r1"}, MCKeys)
\* Commands on two runs that contend for two keys.
OnTwoRuns ==
  { Revalidate("r1", "k1"), Quarantine("r1", "k1", "drift"), Quarantine("r1", "k2", "drift"),
    Decide("r1", "k1", "approve", "drift"), Decide("r1", "k2", "approve", "drift"),
    Decide("r1", "k2", "reject", "drift"),
    Quarantine("r2", "k1", "drift"), Decide("r2", "k2", "approve", "drift") }
OnOneRunThreeKeys == Valid({"r1"}, MoreKeys)

\* One command of every kind that the checks before the first await refuse.
Malformed ==
  { Revalidate("nil", "k1"), Revalidate("r1", None), Quarantine("r1", "k1", None),
    Decide("r1", "k1", None, "drift"), Decide("r1", "k1", "approve", None) }

EveryInput == OnOneRunThreeKeys \cup Malformed

SlotSymmetry == Permutations(Slots)
=============================================================================

------------------------- MODULE MCQueryComparison -------------------------
(***************************************************************************)
(* Instances of GraphqlEndpoint and the comparison it runs, for TLC.       *)
(***************************************************************************)
EXTENDS GraphqlEndpoint, TLC

Measured(name, value, unit) == [name |-> name, value |-> value, unit |-> unit]
Doc(id, key, metrics) ==
  [ run_id |-> id, comparability_key |-> key, metrics |-> metrics, iterations |-> MaxInt,
    started_at |-> "time" ]
Wide(doc) == [doc EXCEPT !.iterations = MaxInt + 1]
Leaping(doc) == [doc EXCEPT !.started_at = "leap_second"]

Latency(value) == Measured("latency", value, "ms")
Errors(value) == Measured("errors", value, "count")

MCRunIds == {"r1", "r2", "r3", "r4"}
MCMetricNames == {"latency", "errors"}
MCUnits == {"ms", "s", "count"}
MCKeys == {"load", "soak"}

\* " r1 " is what a client may pass for r1; r4 is never ingested.
MCTrim == ("r1" :> "r1") @@ (" r1 " :> "r1") @@ ("r2" :> "r2") @@ ("r3" :> "r3") @@ ("r4" :> "r4") @@ (" " :> "")
MCArguments == DOMAIN MCTrim

MCDocuments ==
  { Doc("r1", "load", <<Latency(0), Errors(5)>>), Wide(Doc("r1", "load", <<Latency(5)>>)),
    Doc("r2", "load", <<Latency(150), Errors(1)>>), Doc("r2", "soak", <<Latency(3)>>),
    Leaping(Doc("r2", "load", <<Measured("latency", 3, "s")>>)),
    Doc("r3", "load", <<Errors(4), Latency(-150)>>) }

\* Up to two operations, each with a nested set or not, over fragments that
\* nest, repeat, contain each other or themselves, or are not defined.
MCQueries ==
  { [ operations |-> ops,
      fragments  |-> [A |-> "a", B |-> "b"],
      selections |-> [op |-> s1, inOp |-> s2, a |-> s3, inA |-> s4, b |-> s5, other |-> {Spread("A")}] ] :
      ops \in {{"op"}, {"op", "other"}},
      s1 \in {{Field("inOp")}, {Inline("inOp"), Spread("A")}, {Field("inOp"), Spread("A"), Spread("B")}},
      s2 \in {{Field(Leaf)}, {Field(Leaf), Spread("B")}},
      s3 \in {{Field("inA")}, {Inline("inA")}, {Spread("B"), Field("inA")}, {Field(Leaf), Spread("A")}},
      s4 \in {{Field(Leaf)}, {Spread("B")}, {Spread("A")}},
      s5 \in {{Field(Leaf)}, {Spread("A")}, {Spread("C")}} }
=============================================================================

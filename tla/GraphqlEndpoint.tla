-------------------------- MODULE GraphqlEndpoint ---------------------------
(***************************************************************************)
(* POST /graphql for compareBenchmarkRuns: a document passes the rules or  *)
(* is refused, the resolver runs the comparison, and its result is turned  *)
(* into the types of the schema, which cannot carry every result.          *)
(***************************************************************************)
EXTENDS QueryComparison, DepthLimit

CONSTANTS
  Queries,  \* the documents a client may post
  MaxInt,   \* the greatest GraphQL Int
  NoQuery

ASSUME EndpointAssumption ==
  /\ MaxDepth \in Nat
  /\ MaxInt \in Nat
  /\ NoQuery \notin Queries

VARIABLES
  gate,      \* where the request is
  document,  \* the document until it has passed the rules
  reply      \* what the client is told

endpointVars == <<gate, document, reply>>
allVars == <<vars, endpointVars>>

EndpointInit ==
  /\ Init
  /\ gate = "idle"
  /\ document = NoQuery
  /\ reply = "none"

-----------------------------------------------------------------------------
Post(q) ==
  /\ gate = "idle"
  /\ gate' = "validating"
  /\ document' = q
  /\ UNCHANGED <<vars, reply>>

Reply(what) ==
  /\ gate' = "replied"
  /\ reply' = what

Validate ==
  /\ gate = "validating"
  /\ \/ /\ TooDeep(document)
        /\ Reply("QUERY_DEPTH_LIMIT")
        /\ UNCHANGED document
     \/ /\ ~ Sound(document)
        /\ Reply("GRAPHQL_VALIDATION_FAILED")
        /\ UNCHANGED document
     \/ /\ ~ TooDeep(document)
        /\ Sound(document)
        /\ gate' = "resolving"
        /\ document' = NoQuery
        /\ UNCHANGED reply
  /\ UNCHANGED vars

\* The comparison goes on.
Resolve ==
  /\ gate = "resolving"
  /\ \/ \E n \in 0..MaxArguments : \E args \in [1..n -> Arguments] : Ask(args)
     \/ Find
     \/ FindFails
     \/ CompareMetric
     \/ NextCandidate
     \/ Conclude
  /\ UNCHANGED endpointVars

\* Mutant: the greatest Int does not fit.
FitsBelow(run) == run.iterations < MaxInt /\ run.started_at = "time"

\* toRun and the serialisation of its Int and DateTime fields.
Fits(run) == run.iterations <= MaxInt /\ run.started_at = "time"

Magnitude(x) == IF x < 0 THEN -x ELSE x

\* Whether a percentage is one that Float can carry.
PercentFits(percent) ==
  percent # <<>> =>
    /\ IsFinite(percent[1])
    /\ 100 * Magnitude(percent[1]) <= MaxFloat * Magnitude(percent[2])

\* mapErrors, or toComparison.  Which fields are serialised is for the client
\* to select.  If one that may not be null cannot be, there is an error for
\* all of it; percentDelta may be null, and the verdict comes beside the error.
Render ==
  /\ gate = "resolving"
  /\ stage = "done"
  /\ \/ /\ verdict = "invalid_query"
        /\ Reply("BAD_USER_INPUT")
     \/ /\ verdict = "failed"
        /\ Reply("error")
     \/ /\ verdict \notin {"invalid_query", "failed"}
        /\ Reply("data")
     \/ /\ verdict \notin {"invalid_query", "failed"}
        /\ \/ \E i \in DOMAIN runs : ~ Fits(runs[i])
           \/ \E i \in DOMAIN deltas : ~ IsFinite(deltas[i].absoluteDelta)
        /\ Reply("error")
     \/ /\ verdict \notin {"invalid_query", "failed"}
        /\ \E i \in DOMAIN deltas : ~ PercentFits(deltas[i].percentDelta)
        /\ Reply("partial")
  /\ UNCHANGED <<vars, document>>

Collect ==
  /\ gate = "replied"
  /\ gate' = "idle"
  /\ document' = NoQuery
  /\ reply' = "none"
  /\ \/ Take
     \/ stage = "idle" /\ UNCHANGED vars

EndpointNext ==
  \/ \E e \in Documents : Ingest(e) /\ UNCHANGED endpointVars
  \/ \E q \in Queries : Post(q)
  \/ Validate
  \/ Resolve
  \/ Render
  \/ Collect

EndpointSpec == EndpointInit /\ [][EndpointNext]_allVars

-----------------------------------------------------------------------------
(* Properties.                                                             *)

\* Every variable of the endpoint keeps its type.
EndpointTypeOK ==
  /\ TypeOK
  /\ gate \in {"idle", "validating", "resolving", "replied"}
  /\ document \in Queries \cup {NoQuery}
  /\ reply \in {"none", "QUERY_DEPTH_LIMIT", "GRAPHQL_VALIDATION_FAILED", "BAD_USER_INPUT",
                "data", "partial", "error"}
  /\ reply # "none" <=> gate = "replied"
  /\ stage # "idle" => gate \in {"resolving", "replied"}

\* A sound document gets past the rules exactly if none of its operations
\* nests more than MaxDepth fields, through inline fragments and through
\* fragments that are spread several times or nest others, and the depth
\* error is given to no other document, sound or not (createDepthLimitRule).
DepthGateIsExact ==
  [][gate = "validating" /\ gate' # gate =>
       /\ gate' = "resolving" <=> Sound(document) /\ Shallow(document)
       /\ reply' = "QUERY_DEPTH_LIMIT" => ~ Shallow(document)]_allVars

StoredAsked == {table[id] : id \in AskedIds \cap DOMAIN table}

\* Two runs have values of one metric of which P holds.
SomeValues(P(_, _)) ==
  \E base, run \in StoredAsked : \E m \in DOMAIN base.metrics, n \in DOMAIN run.metrics :
    /\ base.metrics[m].name = run.metrics[n].name
    /\ P(base.metrics[m].value, run.metrics[n].value)

TooFarApart(was, is) == ~ IsFinite(is - was)

\* The difference is more than MaxFloat percent, or not even finite.
TooSteep(was, is) ==
  was # 0 /\ (TooFarApart(was, is) \/ 100 * Magnitude(is - was) > MaxFloat * Magnitude(was))

\* A client is told of its own mistakes only if it made them.  It gets an
\* error instead of the verdict only if the runs could not be read, or one
\* of those it asked for, stored as it is, has a count beyond 32 bits or a
\* time that is no Date, or they were compared and two values of a metric are
\* too far apart; and an error beside the verdict only if they were compared
\* and a percentage is too great.  A refusal never fails for a difference,
\* however far the loops had come (mapErrors, toComparison).
RepliesAreTrue ==
  /\ reply = "BAD_USER_INPUT" => Cardinality(AskedIds) \notin 2..MaxComparisonRuns
  /\ reply \in {"data", "partial", "error"} => Cardinality(AskedIds) \in 2..MaxComparisonRuns
  /\ reply = "error" =>
       \/ verdict = "failed"
       \/ \E run \in StoredAsked : run.iterations > MaxInt \/ run.started_at = "leap_second"
       \/ verdict = "comparable" /\ SomeValues(TooFarApart)
  /\ reply = "partial" => verdict = "comparable" /\ SomeValues(TooSteep)

=============================================================================

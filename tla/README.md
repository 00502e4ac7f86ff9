# A TLA+ model of portfolio-evidence-api

The service stores benchmark evidence, answers queries about it, and lets
operators revalidate, quarantine, approve and reject it. This directory holds
TLA+ modules that follow its source, TLC configurations that check them on small
instances, and TLAPS proofs of what matters most for every instance.

## 1. The system

All paths below are relative to `src/src/modules/evidence/` unless they start
with `src/`.

| Component | State | Operations | Modelled by |
| --- | --- | --- | --- |
| Operational commands (`application/use-cases/operate-evidence.ts`, `infrastructure/http/operations.controller.ts`) | none of its own; locals that live across an `await` | revalidate, quarantine, publication decision; input checks; error mapping | `EvidenceService`, `EvidenceDomain` |
| Ingestion (`ingest-benchmark-run.ts`, `evidence.controller.ts`, `metrics.service.ts`) | outcome counters in memory | validate, insert, count in a `finally` block | `EvidenceService` |
| Evidence store (`application/ports`, `sqlite-evidence-repository.ts`) | `benchmark_runs`, `benchmark_metrics`, `evidence_operations`; one connection behind Kysely's mutex | insert, findRun, findRuns, listRuns, transition, check, initialize, close | `EvidenceTables`, `EvidenceStore`, `AtomicRepository`, `SqliteRepository`, `RunListing`, `SchemaBootstrap` |
| Queries (`query-evidence.ts`, `evidence.resolver.ts`, `evidence.graphql-types.ts`) | none | benchmarkRun, benchmarkRuns, compareBenchmarkRuns; mapping to the schema's types | `RunListing`, `QueryComparison`, `GraphqlEndpoint` |
| GraphQL depth limit (`depth-limit.rule.ts`) | none | the depth of a document | `DepthLimit`, `GraphqlEndpoint` |
| Health (`health.controller.ts`) | none | one `check` of the store | `AtomicRepository`, `SqliteRepository` |
| Contract validation (`json-schema-evidence-validator.ts`) | the schema compiled at boot | validate | a set of accepted documents in `EvidenceService` |
| Wiring and lifecycle (`evidence.module.ts`, `database-lifecycle.ts`, `src/src/bootstrap.ts`) | the process | boot, shutdown hook | `Restart`, `Crash`, `Close`, `Start` |
| Benchmark harness (`src/benchmarks/run.ts`, `src/tools/validate-benchmark.ts`) | cursor, failures, samples shared by workers; `latest.json` | warm up, load, probe, publish, validate | `BenchmarkHarness`, `PackageScripts` |
| Dependency audit (`src/tools/audit-dependencies.ts`) | attempt counter | build the payload, fetch with retries, judge | `DependencyAudit`, `PackageScripts` |
| JSON scalar, contracts, CI script, design tokens | none | data, text checks | not modelled (section 8) |

How they interact: a controller or resolver calls a use case, which awaits calls
of the store port. Node runs one handler at a time and switches at every
`await`, so handlers interleave between store calls; inside a store call, the
statements of a transaction are themselves awaited, and Kysely's connection
mutex is what keeps other calls out. The database file is the only state that
outlives the process.

What is hard here, and the properties that answer it:

* a revalidation and a decision read the run in one store call and write its
  status in another; the write has no condition on the old status
  (`StatusFollowsAudit`, `RevalidationInventsNoStatus`, `ApprovalIsEarned`, and
  the two race runs);
* idempotency keys: concurrent duplicates, retries after a lost response, reuse
  with another payload (`KeyAppliedOnce`, `AnswersAreTrue`,
  `UnguardedReplayReturnsReceipt`, `ReplayReturnsReceipt`);
* a status change and its audit row must be one (`AuditIsAppendOnly`,
  `StatusFollowsAudit`, `ImplementsPort`), a run and its metric rows too
  (`RunsComplete`), through failing statements, `close()` and crashes, and what a
  call reads between its statements must be its own (`HolderWritesAlone`);
* one connection for everyone: no call may starve or keep it (`EveryCallReturns`);
* the counters and the database must agree (`IngestionTally`);
* pages and totals come from two statements while runs arrive and change status
  (`OnlyDeparturesHideRuns`, `NextPageHasRows`, `OnlyIngestionRepeatsRuns`);
* a comparison returns early out of nested loops, over runs that were read while
  others arrived (`ImplementsPromise`, `ComparableIsEarned`, `RefusalIsTrue`,
  `RequestedOrderIsKept`);
* a document may nest through fragments that are spread twice, nest or contain
  each other; its depth is that of its longest way through them, and the walk
  must end (`DepthGateIsExact`);
* the contract admits counts, times and values of which the GraphQL types cannot
  carry all, or not their differences; and the read of a comparison may fail
  (`RepliesAreTrue`);
* the schema is built statement by statement, on whatever an earlier start or
  version left (`ReadyMeansComplete`, `IndexesCanBeCreated`, `BootKeepsStatuses`,
  `BootCompletes`);
* workers share a cursor, a failure count and run ids around their awaits, and
  any of their requests may fail (`IterationsAreShared`, `PublishedIsClean`);
* the result file is emptied before it is filled, and the benchmark may die in
  between (`ValidatedIsClean`);
* the audit must fail closed on every lost or malformed answer, and only then
  (`PassMeansNoAdvisory`, `FailureIsJustified`, `ScriptsEnd`).

`PROJECT.json` lists every hazard at its line with the properties that cover it.

## 2. The modules and the code

```
EvidenceDomain            documents, commands, status rules        (no state)
  EvidenceTables          rows; what statements select and write   (no state)
    EvidenceStore         the port's tables and the effect of one call
      EvidenceService     the request handlers over the port
        EvidenceServiceProofs
      AtomicRepository    the port with concurrent callers (abstract)
    SqliteRepository      the adapter, statement by statement
                          |- implements AtomicRepository (ImplementsPort)
      SqliteRepositoryProofs
RankLemmas                positions in a finite set of numbers     (lemmas)
RunListing                listRuns and a client that pages
  RunListingProofs                                         (RankLemmas too)
ComparisonDomain          documents; the verdict as a function     (no state)
  AtomicComparison        a comparison in one step (abstract)
  QueryComparison         compareBenchmarkRuns
                          |- implements AtomicComparison (ImplementsPromise)
DepthLimit                the depth rule, and what depth means     (no state)
  GraphqlEndpoint         a request: rules, comparison, reply  (QueryComparison too)
    QueryComparisonProofs                                  (RankLemmas too)
SchemaBootstrap           initialize
  SchemaBootstrapProofs
BenchmarkHarness          benchmarks/run.ts
  BenchmarkHarnessProofs
DependencyAudit           tools/audit-dependencies.ts
  PackageScripts          the scripts of package.json      (BenchmarkHarness too)
    PackageScriptsProofs                         (BenchmarkHarnessProofs too)
```

**EvidenceDomain** has the rules of `operate-evidence.ts`: `InputsValid` is
`validateIdentifiers` and `validateReason`, `Blocked` the blockers of
`decidePublication`, `TargetStatus` what each command writes, `TransitionFor`
the request passed to `apply()`. A document is its run id and its metrics'
names and failures. An id is a member of `RunIds` if the contract's `uuid`
format admits it and of `OperableIds` if the narrower `UUID_PATTERN` does too.
A missing key, reason or decision, or one of the wrong length, is `None`. The
SHA-256 digest is the payload itself: collisions are taken not to happen.

**EvidenceStore** has one call of the port run alone: `InsertRun`, and the four
results of `transition` (`IsFresh`, `IsReplay`, `IsConflict`, `IsMissing`).

**EvidenceService** has a slot for every request being served. Its actions are
the stretches of code between two awaits:

| Action | Code |
| --- | --- |
| `PostEvidence` | `EvidenceController.create` up to the call of `insert`: contract, unique metric names |
| `Insert` | `insert` takes effect, or finds the run |
| `Finish` | the `finally` block counts the outcome, the response is sent |
| `PostOperation` | controller and use case up to the first await; `readDecision` is outside `mapErrors` |
| `Read` | `findRun` and what follows up to `apply()`: not found, contract, blockers |
| `Transition` | `transition` and the mapping of its result |
| `StoreError` | the store call rejects, its transaction rolled back |
| `Consume` | the client takes the response, or it is lost; a retry is another post |
| `Restart` | the process stops at any point and another boots on the same file, maybe with another contract |

A receipt's random `operationId` is the position of its row in the log. A run
starts `ACCEPTED`. `baseline` is a history variable.

**AtomicRepository** is the abstract promise: a call takes effect at one moment
between its invocation and its return, or is rejected and has none; a crash
forgets calls and keeps effects. **SqliteRepository** has the committed tables
`db`, the connection's view `tx`, the mutex `holder` and the statement each call
is about to run. `Acquire`, `Begin`, `Commit`, `Rollback`, `Release` are
Kysely's, modelled from how the repository uses them; each statement of
`insert`, `findRun`, `check` and `transition` is an action; `StatementFails` may strike
any of them; `Close` does not take the mutex, as `destroy()` does not; `Crash`
restores the committed tables. UNIQUE and PRIMARY KEY constraints are guards,
and their violation is a `StatementFails`.

**RunListing** orders runs by `(started_at, run_id)`, represented by a number;
`SelectRows` and `SelectCount` are the two statements of `listRuns`, with no
transaction around them; `Ingest` and `Operate` are the other handlers. Rows are
read before the total because `Promise.all` starts them in that order and the
mutex serves its waiters in that order. The client goes on at
`offset + number of rows`. The project, benchmark and key filters compare columns
that never change, so they only restrict `Runs`; the status filter is kept.
`departed` is a history variable: how often a run has left the filtered listing
during the walk, which bounds how many the walk may skip.

**ComparisonDomain** says what the verdict on some arguments over some rows should
be, without a loop: `VerdictOf` refuses by count, by missing runs and by keys, in
this order, and then by the first of the `Obstacles`, the pairs of a candidate and
a metric of the baseline for which the candidate has no metric that fits.
**AtomicComparison** asks, gives this verdict at one moment or fails, and is done; runs
may be ingested at any time.

**QueryComparison** has the two loops as actions: `CompareMetric` is the body of
the inner one with its two early returns, `NextCandidate` the step of the outer
one. `Normalized` keeps the arguments at their first occurrences and
`InRequestedOrder` the ids at the positions of those that are stored; both are
`At`, the elements of a sequence at a set of positions, in their order. `Trim`
maps arguments to ids or to the empty string. A metric's unit and
direction are one value, since they are only compared. The JavaScript doubles are
integers up to `MaxFloat`, with one more on each side for the infinities
(`Double`), so rounding and fractions are not modelled; a stored value is always
finite, as the contract's `number` is. The percentage is the pair of numbers it
is the ratio of. `FindFails` is a `findRuns` that rejects. It implements
`AtomicComparison` with the moment of `Find` or `FindFails`: from there on the
client's reply is settled (`Settled`), although the loops have yet to come to it.

**DepthLimit** represents a document as a graph of selection sets. `SelectionDepth`
follows the code: down every way, each fragment once on each. `Under` is what it
should compute: the sets that lie under n fields, as closures, without a walk.
**GraphqlEndpoint** puts the rule and the type mapping around the comparison:
`Validate` is the rule beside GraphQL's own, of which `Sound` keeps the two that
matter to it (fragments exist and do not contain themselves; both rules may
report), `Resolve` the comparison, `Render` its result. That is the code of
`mapErrors` for the client's own mistakes; an error if the read failed; the data;
an error in its place if a selected field that may not be null cannot be
serialised (a count beyond `MaxInt`, a time that `Date` cannot read, an absolute
difference that is not finite); or both (`partial`) if only a percentage cannot,
since `percentDelta` may be null. Which fields are selected is not modelled, so
that data may be the reply to every verdict. A document stands for the shape of a
request only: the arguments are chosen when the resolver runs, and are strings, as
the type of the field says.

**SchemaBootstrap** has one action per statement of `initialize`; PRAGMA and
ALTER TABLE are one action, having no await between them. Its files are new, or
of a version without the status column. Of the columns only `status` is kept.

**BenchmarkHarness** is `benchmarks/run.ts`: `BeginLoad` starts the workers of
`runLoad`, each of which runs up to its first `fetch` as it is created; `Respond`
is one response and its worker's code up to the next `fetch`, which `Take` ends;
`EndWarmup`, `EndIngest`, `EndQuery` and `Probe` are `executeRepeat` between the
loads. `Serve` is what the service and the network may do with a request: it may
fail with or without effect, and succeeds only where the service can answer so.
Latencies are only counted. `flawed` and `answered` are history variables.

**DependencyAudit** has the lockfile as a set of entries, each with the packages
on its path; `Payload` groups versions by name. `ReceiveAnswer` is a body that
decodes: what the registry knows about the payload, or something malformed.
`FailAttempt` is every way in which an attempt throws, `Retry` the end of its
pause. `lost` is a history variable. **PackageScripts** runs one script:
`Benchmark` is a step of the harness together with what it does to
`latest.json`, `Kill` may leave the file emptied or cut short (`torn`) where the
harness writes it, and `ValidateBenchmark` reads what is there afterwards. That
every metric of a written result has no failures is `createEvidenceResult`; so
`Readable` has only to tell whole files from others.

## 3. Runs

| Run | Instance | Shows |
| --- | --- | --- |
| `service_concurrent` | 2 slots, 2 runs, 2 keys, 8 commands, 3 documents (two with the same id, two with failures), `MaxIngests` 2 | the invariants of the service, the inductive invariant `IInv`, and the two action properties, under every interleaving with store errors, lost responses and restarts |
| `service_sequential` | 1 slot, 3 keys, every kind of input, two contracts | without interleaving, revalidation keeps the status and quarantine blocks approval |
| `revalidation_race` | 2 slots, 1 run | finding: the first of these fails when requests interleave |
| `approval_race` | 2 slots, 1 run | finding: so does the second |
| `guarded_replay` | 1 slot, 1 run | finding: replaying an approval may be refused |
| `malformed_decision` | 1 slot | finding: an unreadable decision is a 500 |
| `sqlite_repository` | 2 callers; 2 inserts of one id, a read, a health check, 4 transitions over 2 keys and 2 runs | the adapter implements the port, keeps runs complete, lets only the holder of the mutex write, and serves every call |
| `run_listing` | 4 runs, 2 statuses, pages of 1 and 2, 2 status changes | a walk misses no more runs than left it, repeats only after an ingestion, and ends where it should |
| `query_comparison` | 6 documents over 3 ids, up to 4 arguments, limit 3; 432 shapes of GraphQL documents, depth limit 2; one count beyond `MaxInt`, one leap second, values up to 150 with a `MaxFloat` of 200; reads may fail | the verdict is that of one moment and names the first obstacle, the differences are complete, the depth rule is exact, every error reply has its cause |
| `comparison_mismatch` | the same with 2 arguments | finding: a candidate's extra metrics are not noticed |
| `schema_bootstrap` | 3 runs, 33 initial files, 3 stops | every boot that is not stopped can create its indexes, completes and keeps the statuses |
| `benchmark_harness` | `PackageScripts`: 3 workers, warmups of 2, loads of 4, 2 repeats, any request may fail; 5 lockfiles, 3 levels (one unknown), 3 advisories, 3 attempts | nothing is published or validated after a failure, iterations are shared without loss, the audit passes and fails for a reason, both scripts end |

Why the bounds are enough: the races of the service are between two requests
and one run; a third slot adds no pair of steps that two do not have, and the
proofs of section 5 cover any number. Two keys are the least with which one can
be reused and the other not, two runs the least over which a key can be shared,
and the log is bounded by the number of keys since a key is used once.
`MaxIngests` bounds only the counters: a restart resets it. In the adapter two
callers suffice for one to wait on the other; whatever a third does it does
between their statements, where the mutex lets nobody in. Pages of two over four
runs have a first, a middle and a last page, full and short. Three documents
reach the second iteration of both loops of a comparison, and four ids its
limit. Between their values there are differences beyond `MaxFloat`, percentages
beyond it, and others within; a refusal may come after a difference of each kind. The
document shapes have up to two operations, and
fragments that nest, are spread twice at different depths, contain themselves or
each other, or do not exist; a limit of 2 has documents below, at and above it.
Three attempts are the code's own; the lockfiles have a package twice in
different versions, an aliased one, a link without a version and an unreadable
one, and the advisories reach below, at and above the level. Three stops let a boot be cut at one statement, resumed, cut again at
another, and stopped once more after it has served. Loads of two leave one of three workers without
work and loads of four make one work twice; two repeats carry failures from one
to the next. Deadlock is not checked for the scripts, which end.

Symmetry is used only for the slots of `service_concurrent`, which checks no
liveness and whose properties treat slots alike.

The two properties checked in `service_sequential` and violated in the race runs
are the same definitions: what holds for one request at a time is lost between
the await of `findRun` and the call of `transition`.

## 4. Fairness

Safety runs assume none. `SqliteRepository` (`EveryCallReturns`) assumes weak
fairness of the mutex holder's next step: better-sqlite3 is synchronous, every
statement returns or throws, and every path of Kysely's transaction ends in the
release. It assumes strong fairness of taking the mutex: its waiters wake in the
order they came. A crash may cut every call short, and is never required.
`SchemaBootstrap` (`BootCompletes`) assumes weak fairness of `initialize`: its
statements return or throw. That the service is started again after a stop is
not assumed. `PackageScripts` (`ScriptsEnd`) assumes weak fairness of each script:
`fetch` settles, since it rejects after a while without an answer, and timers
fire. Which way an attempt settles is open, so that a registry may never answer.

## 5. What is proved

Every safety property of the passing runs but `DepthGateIsExact` is a theorem, so
it holds for every value of the constants that the named assumptions of the
modules admit. These assumptions say what the constants are (a document is a
document, no metric name occurs twice in a stored one, `None` is none of the
values it stands in for, the sets of slots and workers are finite); TLC evaluates
them in every run.

### The service (`EvidenceServiceProofs`)

For any slots, documents, keys, reasons and contracts:

| Theorem | States |
| --- | --- |
| `Inductive` | `Spec => []IInv` |
| `TypeCorrect` | `Spec => []TypeOK` |
| `AuditExplainsStatus` | `Spec => []StatusFollowsAudit` |
| `KeysApplyOnce` | `Spec => []KeyAppliedOnce` |
| `RevalidationsAreHarmless` | `Spec => []RevalidationInventsNoStatus` |
| `ApprovalsAreEarned` | `Spec => []ApprovalIsEarned` |
| `ResponsesAreTrue` | `Spec => []AnswersAreTrue` |
| `AuditNeverRewritten` | `Spec => AuditIsAppendOnly` |
| `CounterIsTrue` | `Spec => []IngestionTally` |
| `RetriesAreSafe` | `Spec => UnguardedReplayReturnsReceipt` |
| `AloneRevalidationsKeepStatus` | `OneAtATime` implies `Spec => RevalidationKeepsStatus` |
| `AloneQuarantineBlocksApproval` | `OneAtATime` implies `Spec => QuarantineBlocksApproval` |

The argument. A handler acts on what it read before its await, so the safety of
a transition cannot come from the state it runs in; it has to come from
something the handler knew and that cannot become false. `Admissible(t)` is that
knowledge: the run is stored, a revalidation's target is a status the run has
had, and an approval's run has no failures. Runs are never removed, their
evidence never changes and the log only grows, so `Admissible` is stable under
every step of every other handler. Quarantine is not in it: that check is not
stable, which is what `approval_race` shows. `LogIsSound` says what a committed
operation keeps true, `HandlersAreSound` that pending transitions are admissible,
and `IInv` adds `TypeOK`, the store's invariants and `AnswersAreTrue`, which is
stable for the same reason. Only `Insert` and `Transition` write the tables; the
proof treats these two in full and derives the other actions from the tables
being unchanged.

`ApprovalIsEarned` then follows: a run is approved because its last operation
says so (`StatusFollowsAudit`), and every operation with that target goes back
to an audited approval of a run without failures (`LogIsSound`).

`IngestionTally` is inductive beside `IInv`: a fresh insert adds a run and an
uncounted handler, the `finally` block takes the handler away and counts it.
`RetriesAreSafe` needs one more invariant, `InputsWereChecked`: what is in the
log has passed `InputsValid`, so a retry of it passes too, finds its run, and
meets its own row under its key. The last two theorems are about a service with
at most one slot (`OneAtATime`): then what a handler read is still so when its
transition reaches the store (`ReadIsCurrent`). With `revalidation_race` and
`approval_race` they show that the second handler is what these properties are
lost to, and nothing else.

### The adapter (`SqliteRepositoryProofs`)

For any callers and calls:

| Theorem | States |
| --- | --- |
| `Inductive` | `Spec => []IInv` |
| `TypeCorrect` | `Spec => []TypeOK` |
| `RunsAreWhole` | `Spec => []RunsComplete` |
| `HolderIsAlone` | `Spec => []HolderWritesAlone` |
| `Implements` | `Spec => ImplementsPort` |

`HolderWritesAlone` is the heart of it: without a holder the connection shows
`db`; with one it shows `db` and exactly the writes that the holder's next
statement says are done, and what the holder has read is still so of `db`,
because no other call can write. COMMIT is therefore the one step that changes
`db`, from a whole state to a whole state (`RunsComplete`). The refinement maps
it to the abstract call's taking effect, a read's single SELECT to the effect of
the read, a rolled back call to a rejected one, and every other statement to a
stutter; what the call then answers is what the abstract call answers on `db`,
which is the last part of the invariant.

### Schema bootstrap (`SchemaBootstrapProofs`)

| Theorem | States |
| --- | --- |
| `TypeCorrect` | `Spec => []TypeOK` |
| `ServesOnWholeSchema` | `Spec => []ReadyMeansComplete` |
| `NoBootIsStuck` | `Spec => []IndexesCanBeCreated` |
| `BootsAreHarmless` | `Spec => BootKeepsStatuses` |

For any runs and number of stops. A boot only adds to the file, so what a
statement established is there for the later ones (`BootIsInOrder`), and rows are
only in a table that exists (`RowsHaveTheirTable`): a table that is created
hides no run, and the column is added exactly to rows that have none.

### The listing (`RunListingProofs`, `RankLemmas`)

| Theorem | States |
| --- | --- |
| `TypeCorrect` | `Spec => []TypeOK` |
| `WalksMissOnlyDepartures` | `Spec => []OnlyDeparturesHideRuns` |
| `AnnouncedPagesExist` | `Spec => []NextPageHasRows` |
| `RepeatsNeedIngestion` | `Spec => OnlyIngestionRepeatsRuns` |

For any number of runs, status changes and pages of any size. `Rank` is how many
matching runs stand before one. `RankLemmas` shows that ranks are all different,
that each number below the total is one (by the pigeonhole principle, since no
induction is available), that an arrival only raises them and a departure lowers
each by one at most. A page is a stretch of ranks without gaps. The invariant
behind the first property counts `Passed`, the runs the walk has gone by without
showing them: a page shows all of its ranks, so nothing is added to them but by
a departure, and by one run at a time (`SlipsAreDepartures`). The second rests on
an unfiltered listing never getting shorter (`TotalLasts`), the third on the runs
shown being exactly those passed while no run arrives (`ShownArePassed`).

### Comparison and endpoint (`QueryComparisonProofs`, `RankLemmas`)

| Theorem | States |
| --- | --- |
| `ComparisonInductive` | `EndpointSpec => []EndpointInv` |
| `TypeCorrect` | `EndpointSpec => []EndpointTypeOK` |
| `VerdictsAreEarned` | `EndpointSpec => []ComparableIsEarned` |
| `RefusalsAreTrue` | `EndpointSpec => []RefusalIsTrue` |
| `OrderIsKept` | `EndpointSpec => []RequestedOrderIsKept` |
| `ClientsAreToldTheTruth` | `EndpointSpec => []RepliesAreTrue` |
| `PlacedInductive` | `EndpointSpec => []PlacedInv` |
| `KeepsItsPromise` | `EndpointSpec => ImplementsPromise` |

For any arguments, documents, metrics and limits. `At` takes the elements at some
positions, and `RankLemmas` shows that there is a k-th position for each k and
that the k-th are in order. So `Normalized` has each id asked for once
(`NormalizedFacts`) and as many as there are (`NormalizedCounts`, by a
bijection), and the runs found are those stored, in the order of the first
occurrences (`FoundFacts`, `FindRuns`). Rows that arrive later change neither, as
a stored document stays what it is. `LoopsOK` is the invariant of the loops:
every pair they have passed has its difference at position
`(c - 2) * Metrics + m`; the positions of one candidate stand before those of the
next (`Positions`), so adding a difference disturbs none, and when the loops are
done every pair has one. A refusal is made at the pair that is its obstacle, and
its runs do not change afterwards. `RepliesAreTrue` needs that the runs of a
verdict are the stored ones (`RunsAreAsked`), that the count of ids tells the
client's mistakes from other errors (`CountIsTold`), and that a difference that
cannot be serialised is one of two stored values of one metric (`DeltasAreReal`,
`DifferencesAreStored`) and belongs to comparable runs, because every refusal
drops those gathered before it (`RefusalIsTrue`). What has been said of stored
runs stays true while others arrive (`RepliesStay`).

`KeepsItsPromise` is the refinement. `PlacedInv` says that the k-th run is that of
the k-th argument, as it is stored (`FoundAll`), so that the obstacles of the
abstract verdict are pairs of loop indices (`ObstaclesOfPlaced`). A pair the loops
have passed is none of them, so all that are left lie ahead (`ObstacleIsAhead`):
if the loops end there is none (`ConcludesRightly`), and if they meet one it is the
first in their order (`RefusesRightly`), whose reason is the one given because no
document has a metric name twice. In the meantime an ingestion leaves the verdict
as it was (`VerdictIsStable`). So the steps of the loops change nothing the promise
speaks of, and each other step is one of its own.

### The scripts (`BenchmarkHarnessProofs`, `PackageScriptsProofs`)

| Theorem | States |
| --- | --- |
| `HarnessInductive` | `Spec => []HarnessInv`, of the harness alone |
| `ScriptsTypeCorrect` | `ScriptsSpec => []ScriptsTypeOK` |
| `LoadsAreShared` | `ScriptsSpec => []IterationsAreShared` |
| `PublishesOnlyClean` | `ScriptsSpec => []PublishedIsClean` |
| `ValidatesOnlyClean` | `ScriptsSpec => []ValidatedIsClean` |
| `AuditFailsClosed` | `ScriptsSpec => []PassMeansNoAdvisory` |
| `AuditFailsForAReason` | `ScriptsSpec => []FailureIsJustified` |

For any number of workers, iterations, repeats, lockfiles, advisories, levels and
attempts. The harness shares a cursor, a sample count and run ids between its
workers. Its invariant says that every iteration taken is answered or waited for
by exactly one worker, and a worker rests only when none is left (`SharesOK`);
that the iterations taken are the samples and those on their way (`CountsOK`);
that a request that went wrong is in a sum that keeps the result from being
published, or has ended the benchmark (`FlawIsCounted`); and that otherwise the
service holds exactly the runs that were to be ingested (`StoredIsWhole`). The
scripts add the file: it holds a whole result only if a clean benchmark wrote it,
also when the benchmark was killed while writing, and only whole files are
accepted (`FileOK`).

The audit decides on an answer, and its two properties are about the lockfile.
`AuditInv` ties them together: the payload is what the lockfile has
(`PayloadIsRead`), the answer judged is the registry's own for that payload or a
malformed one (`AnswerIsReal`), and every attempt before the one under way has
failed (`AttemptsCounted`). A malformed answer is never taken for a well-formed
one (`FaultyIsNotWellFormed`), and the registry's own blocks exactly if an
advisory blocks an audited entry (`HonestAnswerIsExact`), which rests on the
payload losing no version (`PayloadIsComplete`).

## 6. What is only model-checked

* Liveness: `EveryCallReturns`, `BootCompletes` and `ScriptsEnd`. The proof
  system does not treat fairness.
* `DepthGateIsExact`: that a walk computes what the closures define is an
  induction over documents, which the provers cannot do.
* That the properties of the five violation runs fail: these are
  counterexamples, and TLC finds them.

## 7. Findings

1. `revalidation_race`: `src/sdd/technical-decision.md:27` says a revalidation
   cannot silently clear a quarantine. It writes back the status it read before
   its await (`operate-evidence.ts:43`); a quarantine in between is overwritten.
2. `approval_race`: `src/sdd/technical-decision.md:26` says approval is blocked
   by quarantine. The check precedes an await (`operate-evidence.ts:81`), and
   `transition` does not repeat it.
3. `guarded_replay`: `src/sdd/spec.md:43` says an exact replay returns the same
   receipt. The blockers are evaluated before the key is looked up, so a replayed
   approval of a run that was quarantined since is refused.
4. `malformed_decision`: the contract gives 400 for a body that fails validation
   (`src/contracts/portfolio-evidence.openapi.yaml:196`); `readDecision` throws
   outside the error mapping (`operations.controller.ts:57`) and the answer is 500.
5. `comparison_mismatch`: `src/sdd/spec.md:46` says mismatched metrics are
   rejected. Only the baseline's metrics are visited (`query-evidence.ts:86`).

What still holds in spite of the first three is what section 5 proves: a run
with measured failures is never approved, and no status lacks its audit row.

## 8. What is not modelled

* JSON Schema evaluation, HTTP parsing, logging, the latency histogram and the
  Prometheus text: libraries, or output without control.
* The renaming of fields in the GraphQL types and the JSON scalar: no control.
  Arguments of a query that GraphQL itself refuses to coerce.
* The Prometheus endpoint: it prints the registry.
* The order of `started_at` as text, collisions of SHA-256, rounding of doubles.
* Walks of the listing that start at a later row, as far as repeated runs go:
  `OnlyIngestionRepeatsRuns` compares the runs stored with those at the start of a
  walk from the first row.
* A registry that leaves out of a well-formed answer what it knows:
  `PassMeansNoAdvisory` rests on its honesty, as the script does.
* `IterationsAreShared` compares the run ids of requests that are on their way at
  once; that none is posted again later is part of `PublishedIsClean`.
* The percentiles of the harness (`statistics.ts`): arithmetic on one array,
  with unit tests; and the fields of the evidence it assembles.
* The text of the audit's messages, and a lockfile path that ends in
  `node_modules/`, which npm does not write.
* Several processes on one file: out of scope in `src/sdd/spec.md` ("multi-writer
  storage").
* Contracts, design tokens, governance documents and the CI script: data.

## 9. Plan

Done, in this order: domain, store and service with proofs; port and adapter;
listing; comparison; bootstrap; harness; audit and package scripts; depth rule
and GraphQL endpoint; health check; then the proofs of the counter, the replays,
the adapter and its refinement, the bootstrap, the harness and the scripts, the
listing, the comparison, and its refinement.

What is left:

1. What `SelectionDepth` of a document is when every selection set has only
   fields, as a bound that needs no induction.
2. The lemmas on `At` and on ranks in one place, for both proofs to cite.

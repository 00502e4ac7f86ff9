---------------------------- MODULE RunListing -----------------------------
(***************************************************************************)
(* Offset pagination over the stored runs.  listRuns sends two statements, *)
(* one for the rows of the page and one for the total, without a           *)
(* transaction around them: other handlers may ingest runs or change their *)
(* status between the two, and between the pages of a client that walks    *)
(* the listing to its end.                                                 *)
(***************************************************************************)
EXTENDS Integers, FiniteSets

CONSTANTS
  Runs,       \* the runs that may be ingested, ordered as started_at, run_id
  Statuses,   \* what the status column may hold
  Accepted,   \* the status a run is ingested with
  NoFilter,   \* a request without a status
  Offsets,    \* the offsets a walk may begin at, or ask for in vain
  Firsts,     \* the page sizes a client may ask for
  MaxFirst,   \* MAX_FIRST
  MaxWrites   \* bound: status changes

ASSUME ListingAssumption ==
  /\ Runs \subseteq Nat
  /\ Accepted \in Statuses
  /\ NoFilter \notin Statuses
  /\ Offsets \subseteq Int
  /\ Firsts \subseteq Int
  /\ MaxFirst \in Nat \ {0}
  /\ MaxWrites \in Nat

VARIABLES
  status,    \* benchmark_runs: the status of every stored run
  writes,    \* status changes so far
  stage,     \* what the reader is about to do
  request,   \* the page it asked for last
  rows,      \* the rows of that page
  hasNext,   \* hasNextPage of that page
  shown,     \* history: the runs the pages of this walk have shown
  atStart,   \* history: what the listing had from there on when the walk began, and kept
  departed   \* history: the times a run has left the listing since

vars == <<status, writes, stage, request, rows, hasNext, shown, atStart, departed>>

tableVars == <<status, writes>>
readerVars == <<stage, request, rows, hasNext, shown, atStart, departed>>

-----------------------------------------------------------------------------
Stored == DOMAIN status

\* WHERE status = ..., the other filters being columns that never change.
Matching(filter) == {r \in Stored : filter \in {NoFilter, status[r]}}

\* The rows before r in ORDER BY started_at DESC, run_id DESC.
Rank(r, filter) == Cardinality({other \in Matching(filter) : other > r})

\* Mutant: OFFSET begins one row early.
PageFromOneEarlier(q) ==
  {r \in Matching(q.status) :
     q.offset <= Rank(r, q.status) + 1 /\ Rank(r, q.status) < q.offset + q.first}

\* LIMIT first OFFSET offset.
PageOf(q) ==
  {r \in Matching(q.status) :
     q.offset <= Rank(r, q.status) /\ Rank(r, q.status) < q.offset + q.first}

\* normalizeFirst and normalizeOffset.
RequestOK(q) == q.first \in 1..MaxFirst /\ q.offset \in Nat

Requests == [offset : Int, first : Int, status : Statuses \cup {NoFilter}]

NoRequest == [offset |-> 0, first |-> 1, status |-> NoFilter]

Init ==
  /\ status = [r \in {} |-> Accepted]
  /\ writes = 0
  /\ stage = "idle"
  /\ request = NoRequest
  /\ rows = {}
  /\ hasNext = FALSE
  /\ shown = {}
  /\ atStart = {}
  /\ departed = 0

-----------------------------------------------------------------------------
(* The writers.                                                            *)

Ingest(r) ==
  /\ r \notin Stored
  /\ status' = [x \in Stored \cup {r} |-> IF x = r THEN Accepted ELSE status[x]]
  /\ UNCHANGED <<writes, readerVars>>

\* The run leaves the listing that is being walked.
Departs(r, new) == stage # "idle" /\ status[r] = request.status /\ new # status[r]

Operate(r, new) ==
  /\ r \in Stored
  /\ writes < MaxWrites
  /\ status' = [status EXCEPT ![r] = new]
  /\ writes' = writes + 1
  /\ \/ /\ Departs(r, new)
        /\ atStart' = atStart \ {r}
        /\ departed' = departed + 1
     \/ /\ ~ Departs(r, new)
        /\ UNCHANGED <<atStart, departed>>
  /\ UNCHANGED <<stage, request, rows, hasNext, shown>>

-----------------------------------------------------------------------------
(* The reader.                                                             *)

\* A walk begins: benchmarkRuns checks the request and calls listRuns.
Ask(q) ==
  /\ stage = "idle"
  /\ request' = q
  /\ stage' = IF RequestOK(q) THEN "rows" ELSE "refused"
  /\ rows' = {}
  /\ hasNext' = FALSE
  /\ shown' = {}
  /\ atStart' = {r \in Matching(q.status) : q.offset <= Rank(r, q.status)}
  /\ departed' = 0
  /\ UNCHANGED tableVars

SelectRows ==
  /\ stage = "rows"
  /\ rows' = PageOf(request)
  /\ shown' = shown \cup PageOf(request)
  /\ stage' = "count"
  /\ UNCHANGED <<tableVars, request, hasNext, atStart, departed>>

\* Mutant: the end of the page is compared with the index of the last run.
SelectCountOffByOne ==
  /\ stage = "count"
  /\ hasNext' = (request.offset + Cardinality(rows) < Cardinality(Matching(request.status)) - 1)
  /\ stage' = "page"
  /\ UNCHANGED <<tableVars, request, rows, shown, atStart, departed>>

\* Mutant: the comparison is not strict.
SelectCountNotStrict ==
  /\ stage = "count"
  /\ hasNext' = (request.offset + Cardinality(rows) <= Cardinality(Matching(request.status)))
  /\ stage' = "page"
  /\ UNCHANGED <<tableVars, request, rows, shown, atStart, departed>>

\* The total; hasNextPage compares it with the end of the page read before.
SelectCount ==
  /\ stage = "count"
  /\ hasNext' = (request.offset + Cardinality(rows) < Cardinality(Matching(request.status)))
  /\ stage' = "page"
  /\ UNCHANGED <<tableVars, request, rows, shown, atStart, departed>>

\* The client goes on behind the rows it was given, or stops.
AskNext ==
  /\ stage = "page"
  /\ hasNext
  /\ request' = [request EXCEPT !.offset = @ + Cardinality(rows)]
  /\ stage' = "rows"
  /\ UNCHANGED <<tableVars, rows, hasNext, shown, atStart, departed>>

\* The last page, a refusal, or a client that loses interest.
Stop ==
  /\ stage \in {"page", "refused"}
  /\ stage' = "idle"
  /\ UNCHANGED <<tableVars, request, rows, hasNext, shown, atStart, departed>>

Write == \E r \in Runs : Ingest(r) \/ \E new \in Statuses : Operate(r, new)

Listing ==
  \/ \E offset \in Offsets, first \in Firsts, filter \in Statuses \cup {NoFilter} :
       Ask([offset |-> offset, first |-> first, status |-> filter])
  \/ SelectRows
  \/ SelectCount
  \/ AskNext
  \/ Stop

Next == Write \/ Listing

Spec == Init /\ [][Next]_vars

-----------------------------------------------------------------------------
(* Properties.                                                             *)

\* Every variable keeps its type, a page never holds more rows than asked
\* for, and a request that is not refused has a page size and an offset
\* within their limits.
TypeOK ==
  /\ Stored \subseteq Runs
  /\ status \in [Stored -> Statuses]
  /\ writes \in 0..MaxWrites
  /\ stage \in {"idle", "rows", "count", "page", "refused"}
  /\ request \in Requests
  /\ rows \subseteq Stored
  /\ Cardinality(rows) <= request.first \/ rows = {}
  /\ hasNext \in BOOLEAN
  /\ shown \subseteq Stored
  /\ atStart \subseteq Stored
  /\ departed \in 0..writes
  /\ stage \in {"rows", "count", "page"} => RequestOK(request)

Unfiltered == request.status = NoFilter

\* A walk misses only as many of the runs it should show as have left the
\* listing meanwhile, so one without a status filter misses none: the total is
\* read after the rows, and a run that is ingested or comes back, between two
\* pages or the two statements of one, only pushes older runs towards the
\* pages still to come (listRuns).
OnlyDeparturesHideRuns ==
  stage = "page" /\ ~ hasNext => Cardinality(atStart \ shown) <= departed

\* A page that announces another one keeps its word: when the client asks
\* for it, whatever was ingested since, it has rows (hasNextPage).
NextPageHasRows ==
  stage = "page" /\ hasNext /\ Unfiltered
    => PageOf([request EXCEPT !.offset = @ + Cardinality(rows)]) # {}

\* A walk that starts at the first row, without a status filter, shows a run
\* a second time only after a run was ingested behind its back (LIMIT and
\* OFFSET of listRuns).
OnlyIngestionRepeatsRuns ==
  [][ stage = "rows" /\ stage' = "count" /\ Unfiltered /\ Stored = atStart
        => rows' \cap shown = {} ]_vars

=============================================================================

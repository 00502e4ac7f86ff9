--------------------------- MODULE DependencyAudit --------------------------
(***************************************************************************)
(* tools/audit-dependencies.ts: the installed packages of the lockfile are *)
(* sent to the registry, whose answer is judged by the severity of its     *)
(* advisories.  An attempt may fail on its way there or back and is made   *)
(* again after a pause; whatever else goes wrong fails the audit.          *)
(***************************************************************************)
EXTENDS Integers, Sequences

CONSTANTS
  Packages,    \* package names
  Versions,    \* versions
  Lockfiles,   \* the lockfiles the audit may find
  Levels,      \* values of --level
  Advisories,  \* what the registry may know of
  Attempts,    \* attempts
  Absent       \* a missing version

SeverityOrder == <<"info", "low", "moderate", "high", "critical">>

Severities == {SeverityOrder[i] : i \in DOMAIN SeverityOrder}

Rank(severity) == CHOOSE i \in DOMAIN SeverityOrder : SeverityOrder[i] = severity

\* An entry's path is the packages on it that follow a node_modules/; the
\* root and workspaces have none.  It may install a package under another name.
Entry == [path : Seq(Packages), package : Packages, version : Versions \cup {Absent}]

Lockfile == [wellFormed : BOOLEAN, entries : SUBSET Entry]

Advisory == [package : Packages, version : Versions, severity : Severities]

ASSUME AuditAssumption ==
  /\ \A l \in Lockfiles : l.wellFormed \in BOOLEAN /\ \A e \in l.entries : e \in Entry
  /\ Advisories \subseteq Advisory
  /\ Attempts \in Nat \ {0}
  /\ Absent \notin Versions

VARIABLES
  auditStage,  \* where the audit is
  lockfile,    \* package-lock.json
  level,       \* --level
  known,       \* the advisories the registry knows of
  payload,     \* versionsByPackage, as sent
  attempt,     \* the attempt under way
  answer,      \* what the registry has answered
  lost,        \* history: the attempts that failed
  exit         \* "passed" or "failed", once the audit has ended

auditInputs == <<lockfile, level, known>>
auditVars == <<auditStage, auditInputs, payload, attempt, answer, lost, exit>>

-----------------------------------------------------------------------------
(* buildAuditPayload.                                                      *)

InstalledAs(e) == e.path[Len(e.path)]

Audited(entries) == {e \in entries : e.path # <<>> /\ e.version # Absent}

\* Mutant: a package that is installed twice keeps one version.
PayloadOneVersion(entries) ==
  [ name \in {InstalledAs(e) : e \in Audited(entries)} |->
      {CHOOSE v \in Versions : \E e \in Audited(entries) : InstalledAs(e) = name /\ e.version = v} ]

\* The versions under each name.
Payload(entries) ==
  [ name \in {InstalledAs(e) : e \in Audited(entries)} |->
      {e.version : e \in {x \in Audited(entries) : InstalledAs(x) = name}} ]

-----------------------------------------------------------------------------
(* The answers of the registry.  The severities of a package's advisories  *)
(* stand for the advisories; "malformed" for one without a severity, with  *)
(* an unknown one, or for what should have been an array of them.          *)

NoPackages == [name \in {} |-> {}]

Affecting(asked) ==
  {a \in known : a.package \in DOMAIN asked /\ a.version \in asked[a.package]}

Honest(asked) ==
  [ object |-> TRUE,
    lists  |-> [ name \in {a.package : a \in Affecting(asked)} |->
                   {a.severity : a \in {x \in Affecting(asked) : x.package = name}} ] ]

Faulty ==
  LET lists == UNION {[{name} -> {{"malformed"}, {"malformed", "critical"}}] : name \in Packages}
  IN  {[object |-> FALSE, lists |-> NoPackages]} \cup {[object |-> TRUE, lists |-> l] : l \in lists}

WellFormed(a) == a.object /\ \A name \in DOMAIN a.lists : a.lists[name] \subseteq Severities

\* The packages findBlockingAdvisories has advisories for.
Blocking(a) ==
  {name \in DOMAIN a.lists : \E severity \in a.lists[name] : Rank(severity) >= Rank(level)}

-----------------------------------------------------------------------------
AuditInit ==
  /\ auditStage = "starting"
  /\ lockfile = [wellFormed |-> FALSE, entries |-> {}]
  /\ level = "none"
  /\ known = {}
  /\ payload = NoPackages
  /\ attempt = 0
  /\ answer = Honest(NoPackages)
  /\ lost = 0
  /\ exit = "none"

Exit(how) ==
  /\ auditStage' = "ended"
  /\ exit' = how

\* main, up to the first fetch.
ReadLockfile ==
  /\ auditStage = "starting"
  /\ known' \in SUBSET Advisories
  /\ \E l \in Lockfiles, v \in Levels :
       /\ lockfile' = l
       /\ level' = v
       /\ \/ /\ v \notin Severities \/ ~ l.wellFormed
             /\ Exit("failed")
             /\ UNCHANGED <<payload, attempt>>
          \/ /\ v \in Severities /\ l.wellFormed
             /\ payload' = Payload(l.entries)
             /\ attempt' = 1
             /\ auditStage' = "asking"
             /\ UNCHANGED exit
  /\ UNCHANGED <<answer, lost>>

\* A body that decodes, whether or not it is compressed.
ReceiveAnswer ==
  /\ auditStage = "asking"
  /\ answer' \in {Honest(payload)} \cup Faulty
  /\ auditStage' = "judging"
  /\ UNCHANGED <<auditInputs, payload, attempt, lost, exit>>

\* Mutant: the last attempt is not made.
GiveUpEarly ==
  /\ auditStage = "asking"
  /\ lost' = lost + 1
  /\ \/ /\ attempt < Attempts - 1
        /\ auditStage' = "pausing"
        /\ UNCHANGED exit
     \/ /\ attempt >= Attempts - 1
        /\ Exit("failed")
  /\ UNCHANGED <<auditInputs, payload, attempt, answer>>

\* fetch rejects, or the status is not 2xx, or the body is empty, cut short
\* or no JSON: the audit pauses or, after the last attempt, gives up.
FailAttempt ==
  /\ auditStage = "asking"
  /\ lost' = lost + 1
  /\ \/ /\ attempt < Attempts
        /\ auditStage' = "pausing"
        /\ UNCHANGED exit
     \/ /\ attempt = Attempts
        /\ Exit("failed")
  /\ UNCHANGED <<auditInputs, payload, attempt, answer>>

\* Mutant: the audit is asked for afresh, with all its attempts.
RetryAfresh ==
  /\ auditStage = "pausing"
  /\ attempt' = 1
  /\ lost' = 0
  /\ auditStage' = "asking"
  /\ UNCHANGED <<auditInputs, payload, answer, exit>>

\* The delay is over.
Retry ==
  /\ auditStage = "pausing"
  /\ attempt' = attempt + 1
  /\ auditStage' = "asking"
  /\ UNCHANGED <<auditInputs, payload, answer, lost, exit>>

Judge ==
  /\ auditStage = "judging"
  /\ Exit(IF WellFormed(answer) /\ Blocking(answer) = {} THEN "passed" ELSE "failed")
  /\ UNCHANGED <<auditInputs, payload, attempt, answer, lost>>

AuditNext == ReadLockfile \/ ReceiveAnswer \/ FailAttempt \/ Retry \/ Judge

-----------------------------------------------------------------------------
(* Properties.                                                             *)

\* Every variable keeps its type, and an attempt is made only after every
\* earlier one has failed.
AuditTypeOK ==
  /\ auditStage \in {"starting", "asking", "pausing", "judging", "ended"}
  /\ auditStage # "starting" => lockfile \in Lockfiles /\ level \in Levels
  /\ known \subseteq Advisories
  /\ DOMAIN payload \subseteq Packages
  /\ \A name \in DOMAIN payload : payload[name] \subseteq Versions
  /\ attempt \in 0..Attempts
  /\ auditStage \in {"asking", "judging"} => lost = attempt - 1
  /\ lost \in 0..attempt
  /\ exit \in {"none", "passed", "failed"}
  /\ exit = "none" <=> auditStage # "ended"

Blocks(e) ==
  \E a \in known :
    a.package = InstalledAs(e) /\ a.version = e.version /\ Rank(a.severity) >= Rank(level)

\* The audit passes only if the registry knows of no advisory, from the
\* requested severity up, for any version of any package in the lockfile
\* that is installed under its own name, wherever in the tree it is; a lost,
\* late, malformed or truncated answer never stands for a clean one (the path
\* from buildAuditPayload over fetchAudit to findBlockingAdvisories).  A
\* well-formed answer is taken to be all that the registry knows.
PassMeansNoAdvisory ==
  exit = "passed" =>
    \A e \in Audited(lockfile.entries) : InstalledAs(e) = e.package => ~ Blocks(e)

\* The audit fails only for a reason: its arguments, its lockfile, a
\* malformed answer, a known advisory for what is installed, or every one
\* of its attempts lost - one that gets through in time is enough.
FailureIsJustified ==
  exit = "failed" =>
    \/ level \notin Severities
    \/ ~ lockfile.wellFormed
    \/ lost = Attempts
    \/ ~ WellFormed(answer)
    \/ \E e \in Audited(lockfile.entries) : Blocks(e)

=============================================================================

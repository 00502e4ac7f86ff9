------------------------ MODULE PackageScriptsProofs ------------------------
(***************************************************************************)
(* The dependency audit fails closed, and only for a reason, whatever the  *)
(* lockfiles, the advisories and the number of attempts; what              *)
(* validate:benchmark accepts is clean, whatever the load, and whenever    *)
(* the benchmark is killed.                                                *)
(***************************************************************************)
EXTENDS PackageScripts, BenchmarkHarnessProofs, SequenceTheorems

\* What is asked of the registry is what the lockfile has.
PayloadIsRead ==
  auditStage \in {"asking", "pausing", "judging"} => payload = Payload(lockfile.entries)

AnswerIsReal ==
  auditStage = "judging" => answer \in {Honest(payload)} \cup Faulty

\* Every attempt but the one under way has failed.
AttemptsCounted ==
  /\ attempt \in Nat
  /\ lost \in Nat
  /\ auditStage = "starting" => lost = 0
  /\ auditStage = "asking" => lost = attempt - 1
  /\ auditStage = "pausing" => lost = attempt

\* The audit's inductive invariant.
AuditInv ==
  /\ AuditTypeOK
  /\ auditStage = "pausing" => attempt < Attempts
  /\ known \subseteq Advisories
  /\ PayloadIsRead
  /\ AnswerIsReal
  /\ AttemptsCounted
  /\ exit # "none" => auditStage = "ended"
  /\ PassMeansNoAdvisory
  /\ FailureIsJustified

\* The payload has a version under a name exactly if an audited entry has.
LEMMA PayloadIsComplete ==
  ASSUME NEW entries, NEW name, NEW version
  PROVE  (name \in DOMAIN Payload(entries) /\ version \in Payload(entries)[name])
           <=> \E e \in Audited(entries) : InstalledAs(e) = name /\ e.version = version
<1> DEFINE names == {InstalledAs(e) : e \in Audited(entries)}
           versions(n) == {e.version : e \in {x \in Audited(entries) : InstalledAs(x) = n}}
<1>1. Payload(entries) = [n \in names |-> versions(n)]
  BY DEF Payload
<1>2. DOMAIN Payload(entries) = names
  BY <1>1
<1>3. ASSUME name \in names PROVE Payload(entries)[name] = versions(name)
  BY <1>1, <1>3
<1>4. name \in names <=> \E e \in Audited(entries) : InstalledAs(e) = name
  OBVIOUS
<1>5. version \in versions(name)
        <=> \E e \in Audited(entries) : InstalledAs(e) = name /\ e.version = version
  OBVIOUS
<1> HIDE DEF names, versions
<1> QED
  BY <1>2, <1>3, <1>4, <1>5

\* A malformed answer is never taken for a well-formed one.
LEMMA FaultyIsNotWellFormed ==
  ASSUME NEW a \in Faulty
  PROVE  ~ WellFormed(a)
<1>1. "malformed" \notin Severities
  BY DEF Severities, SeverityOrder
<1>2. CASE a = [object |-> FALSE, lists |-> NoPackages]
  BY <1>2 DEF WellFormed
<1>3. CASE a # [object |-> FALSE, lists |-> NoPackages]
  <2>1. PICK name \in Packages :
          \E l \in [{name} -> {{"malformed"}, {"malformed", "critical"}}] :
            a = [object |-> TRUE, lists |-> l]
    BY <1>3 DEF Faulty
  <2>2. name \in DOMAIN a.lists /\ "malformed" \in a.lists[name]
    BY <2>1
  <2> QED
    BY <1>1, <2>2 DEF WellFormed
<1> QED
  BY <1>2, <1>3

\* What blocks in the registry's own answer is a known advisory for what was
\* asked about.
LEMMA HonestBlocking ==
  ASSUME NEW asked, NEW name
  PROVE  name \in Blocking(Honest(asked))
           <=> \E a \in Affecting(asked) : a.package = name /\ Rank(a.severity) >= Rank(level)
<1> DEFINE names == {a.package : a \in Affecting(asked)}
           severities(n) == {a.severity : a \in {x \in Affecting(asked) : x.package = n}}
<1>1. Honest(asked).lists = [n \in names |-> severities(n)]
  BY DEF Honest
<1>2. DOMAIN Honest(asked).lists = names
  BY <1>1
<1>3. ASSUME name \in names PROVE Honest(asked).lists[name] = severities(name)
  BY <1>1, <1>3
<1>4. name \in names <=> \E a \in Affecting(asked) : a.package = name
  OBVIOUS
<1>5. \A s : s \in severities(name)
        <=> \E a \in Affecting(asked) : a.package = name /\ a.severity = s
  OBVIOUS
<1> HIDE DEF names, severities
<1>6. name \in Blocking(Honest(asked))
        <=> name \in names /\ \E s \in severities(name) : Rank(s) >= Rank(level)
  BY <1>2, <1>3 DEF Blocking
<1> QED
  BY <1>4, <1>5, <1>6

\* The registry's own answer blocks the audit exactly if an advisory it knows
\* of blocks what the lockfile has.
LEMMA HonestAnswerIsExact ==
  ASSUME NEW entries
  PROVE  Blocking(Honest(Payload(entries))) # {} <=> \E e \in Audited(entries) : Blocks(e)
<1> DEFINE asked == Payload(entries)
<1>1. \A a : a \in Affecting(asked)
               <=> a \in known /\ \E e \in Audited(entries) :
                                    InstalledAs(e) = a.package /\ e.version = a.version
  BY PayloadIsComplete DEF Affecting
<1>2. Blocking(Honest(asked)) # {}
        <=> \E a \in Affecting(asked) : Rank(a.severity) >= Rank(level)
  <2>1. Blocking(Honest(asked)) \subseteq {a.package : a \in Affecting(asked)}
    BY HonestBlocking
  <2> QED
    BY <2>1, HonestBlocking
<1> QED
  BY <1>1, <1>2 DEF Blocks

-----------------------------------------------------------------------------
LEMMA AuditInitially == AuditInit => AuditInv
<1> SUFFICES ASSUME AuditInit PROVE AuditInv
  OBVIOUS
<1> USE DEF AuditInit
<1>1. PayloadIsRead /\ AnswerIsReal /\ AttemptsCounted
  BY DEF PayloadIsRead, AnswerIsReal, AttemptsCounted
<1>2. PassMeansNoAdvisory /\ FailureIsJustified
  BY DEF PassMeansNoAdvisory, FailureIsJustified
<1>3. AuditTypeOK /\ auditStage # "pausing"
  BY AuditAssumption DEF AuditTypeOK, NoPackages
<1> QED
  BY <1>1, <1>2, <1>3 DEF AuditInv

\* While the audit has not ended there is nothing to show of its exit.
LEMMA NothingToShow ==
  exit = "none" => PassMeansNoAdvisory /\ FailureIsJustified
BY DEF PassMeansNoAdvisory, FailureIsJustified

\* What is sent names packages and versions.
LEMMA PayloadType ==
  ASSUME NEW l \in Lockfiles
  PROVE  /\ DOMAIN Payload(l.entries) \subseteq Packages
         /\ \A name \in DOMAIN Payload(l.entries) : Payload(l.entries)[name] \subseteq Versions
<1>1. \A e \in Audited(l.entries) : InstalledAs(e) \in Packages /\ e.version \in Versions
  <2> SUFFICES ASSUME NEW e \in Audited(l.entries)
               PROVE  InstalledAs(e) \in Packages /\ e.version \in Versions
    OBVIOUS
  <2>1. e \in Entry /\ e.path # <<>> /\ e.version # Absent
    BY AuditAssumption DEF Audited
  <2>2. e.path \in Seq(Packages) /\ e.version \in Versions
    BY <2>1 DEF Entry
  <2>3. Len(e.path) \in 1..Len(e.path)
    BY <2>1, <2>2, LenProperties, EmptySeq
  <2> QED
    BY <2>2, <2>3, ElementOfSeq DEF InstalledAs
<1>2. Payload(l.entries) =
        [ name \in {InstalledAs(e) : e \in Audited(l.entries)} |->
            {e.version : e \in {x \in Audited(l.entries) : InstalledAs(x) = name}} ]
  BY DEF Payload
<1> QED
  BY <1>1, <1>2

LEMMA AuditTypeStep ==
  ASSUME AuditInv, [AuditNext]_auditVars
  PROVE  AuditTypeOK' /\ (auditStage' = "pausing" => attempt' < Attempts)
<1> USE DEF AuditInv, AuditTypeOK
<1>1. CASE ReadLockfile
  <2> USE <1>1 DEF ReadLockfile
  <2>1. PICK l \in Lockfiles, v \in Levels :
          /\ lockfile' = l
          /\ level' = v
          /\ \/ Exit("failed") /\ UNCHANGED <<payload, attempt>>
             \/ /\ payload' = Payload(l.entries)
                /\ attempt' = 1
                /\ auditStage' = "asking"
                /\ UNCHANGED exit
    OBVIOUS
  <2>2. lost = 0 /\ lost' = 0 /\ known' \subseteq Advisories
    BY DEF AttemptsCounted
  <2>3. CASE Exit("failed") /\ UNCHANGED <<payload, attempt>>
    BY <2>1, <2>2, <2>3 DEF Exit
  <2>4. CASE payload' = Payload(l.entries) /\ attempt' = 1 /\ auditStage' = "asking" /\ UNCHANGED exit
    <3>1. DOMAIN payload' \subseteq Packages
          /\ \A name \in DOMAIN payload' : payload'[name] \subseteq Versions
      BY <2>4, PayloadType
    <3> QED
      BY <2>1, <2>2, <2>4, <3>1, AuditAssumption
  <2> QED
    BY <2>1, <2>3, <2>4
<1>2. CASE ReceiveAnswer
  BY <1>2 DEF ReceiveAnswer, auditInputs
<1>3. CASE FailAttempt
  <2> USE <1>3 DEF FailAttempt, auditInputs
  <2>1. lost' = attempt /\ attempt' = attempt /\ attempt \in 0..Attempts
    OBVIOUS
  <2>2. CASE attempt < Attempts /\ auditStage' = "pausing" /\ UNCHANGED exit
    BY <2>1, <2>2, AuditAssumption
  <2>3. CASE Exit("failed")
    BY <2>1, <2>3, AuditAssumption DEF Exit
  <2> QED
    BY <2>2, <2>3
<1>4. CASE Retry
  <2>1. /\ attempt' = attempt + 1 /\ lost' = lost /\ lost = attempt /\ attempt < Attempts
        /\ auditStage' = "asking"
        /\ UNCHANGED <<lockfile, level, known, payload, exit>>
    BY <1>4 DEF Retry, auditInputs, AttemptsCounted
  <2> QED
    BY <1>4, <2>1, AuditAssumption DEF Retry
<1>5. CASE Judge
  BY <1>5 DEF Judge, Exit, auditInputs
<1>6. CASE UNCHANGED auditVars
  BY <1>6 DEF auditVars, auditInputs
<1> QED
  BY <1>1, <1>2, <1>3, <1>4, <1>5, <1>6 DEF AuditNext

LEMMA AuditStep ==
  ASSUME AuditInv, [AuditNext]_auditVars
  PROVE  AuditInv'
<1> USE DEF AuditInv
<1>0. AuditTypeOK' /\ (auditStage' = "pausing" => attempt' < Attempts)
  BY AuditTypeStep
<1>1. CASE ReadLockfile
  <2> USE <1>1 DEF ReadLockfile
  <2>1. PayloadIsRead' /\ AnswerIsReal' /\ AttemptsCounted'
    BY DEF PayloadIsRead, AnswerIsReal, AttemptsCounted, Exit
  <2>2. known' \subseteq Advisories /\ (exit' # "none" => auditStage' = "ended")
    BY DEF Exit
  <2>3. PassMeansNoAdvisory'
    BY DEF PassMeansNoAdvisory, Exit
  <2>4. FailureIsJustified'
    BY DEF FailureIsJustified, Exit
  <2> QED
    BY <1>0, <2>1, <2>2, <2>3, <2>4
<1>2. CASE ReceiveAnswer
  <2> USE <1>2 DEF ReceiveAnswer
  <2>1. exit' = "none" /\ known' = known
    BY DEF auditInputs
  <2>2. PassMeansNoAdvisory' /\ FailureIsJustified'
    BY <2>1 DEF PassMeansNoAdvisory, FailureIsJustified
  <2>3. PayloadIsRead' /\ AttemptsCounted'
    BY DEF PayloadIsRead, AttemptsCounted, auditInputs
  <2>4. AnswerIsReal'
    BY DEF AnswerIsReal, auditInputs, Honest, Affecting, Faulty
  <2> QED
    BY <1>0, <2>1, <2>2, <2>3, <2>4
<1>3. CASE FailAttempt
  <2> USE <1>3 DEF FailAttempt
  <2>1. known' = known /\ (exit' # "none" => auditStage' = "ended")
    BY DEF auditInputs, Exit
  <2>2. PassMeansNoAdvisory'
    BY DEF PassMeansNoAdvisory, Exit
  <2>3. FailureIsJustified'
    BY AuditAssumption DEF FailureIsJustified, Exit, AttemptsCounted
  <2>4. PayloadIsRead' /\ AnswerIsReal' /\ AttemptsCounted'
    BY DEF PayloadIsRead, AnswerIsReal, AttemptsCounted, auditInputs, Exit
  <2> QED
    BY <1>0, <2>1, <2>2, <2>3, <2>4
<1>4. CASE Retry
  <2> USE <1>4 DEF Retry
  <2>1. exit' = "none" /\ known' = known
    BY DEF auditInputs
  <2>2. PassMeansNoAdvisory' /\ FailureIsJustified'
    BY <2>1 DEF PassMeansNoAdvisory, FailureIsJustified
  <2>3. PayloadIsRead' /\ AnswerIsReal' /\ AttemptsCounted'
    BY DEF PayloadIsRead, AnswerIsReal, AttemptsCounted, auditInputs
  <2> QED
    BY <1>0, <2>1, <2>2, <2>3
<1>5. CASE Judge
  <2> USE <1>5 DEF Judge
  <2>1. UNCHANGED <<lockfile, level, known, payload, attempt, answer, lost>>
    BY DEF auditInputs
  <2>2. WellFormed(answer) => answer = Honest(Payload(lockfile.entries))
    BY FaultyIsNotWellFormed DEF AnswerIsReal, PayloadIsRead
  <2>3. exit' = IF WellFormed(answer) /\ Blocking(answer) = {} THEN "passed" ELSE "failed"
    BY DEF Exit
  <2>4. PassMeansNoAdvisory'
    <3> SUFFICES ASSUME exit' = "passed"
                 PROVE  \A e \in Audited(lockfile.entries) : ~ Blocks(e)
      BY <2>1 DEF PassMeansNoAdvisory, Blocks
    <3> QED
      BY <2>2, <2>3, HonestAnswerIsExact
  <2>5. FailureIsJustified'
    <3> SUFFICES ASSUME exit' = "failed", WellFormed(answer)
                 PROVE  \E e \in Audited(lockfile.entries) : Blocks(e)
      BY <2>1 DEF FailureIsJustified, Blocks, WellFormed
    <3> QED
      BY <2>2, <2>3, HonestAnswerIsExact
  <2>6. PayloadIsRead' /\ AnswerIsReal' /\ AttemptsCounted'
    BY <2>1 DEF PayloadIsRead, AnswerIsReal, AttemptsCounted, Exit
  <2> QED
    BY <1>0, <2>1, <2>4, <2>5, <2>6 DEF Exit
<1>6. CASE UNCHANGED auditVars
  BY <1>0, <1>6 DEF auditVars, auditInputs, PayloadIsRead, AnswerIsReal, AttemptsCounted,
     PassMeansNoAdvisory, FailureIsJustified, Blocks, Honest, Affecting, WellFormed
<1> QED
  BY <1>1, <1>2, <1>3, <1>4, <1>5, <1>6 DEF AuditNext

LEMMA AuditInvariant == ScriptsSpec => []AuditInv
<1>1. ScriptsInit => AuditInv
  BY AuditInitially DEF ScriptsInit
<1>2. AuditInv /\ [ScriptsNext]_allVars => AuditInv'
  <2> SUFFICES ASSUME AuditInv, [ScriptsNext]_allVars PROVE AuditInv'
    OBVIOUS
  <2>1. [AuditNext]_auditVars
    BY DEF ScriptsNext, allVars, auditVars, Benchmark, Kill, ValidateBenchmark, AuditDependencies
  <2> QED
    BY <2>1, AuditStep
<1> QED
  BY <1>1, <1>2, PTL DEF ScriptsSpec

\* An audit that passes has asked about everything in the lockfile and heard
\* of no advisory that blocks, for any lockfile, any advisories, any threshold
\* and any number of attempts.
THEOREM AuditFailsClosed == ScriptsSpec => []PassMeansNoAdvisory
<1>1. AuditInv => PassMeansNoAdvisory
  BY DEF AuditInv
<1> QED
  BY <1>1, AuditInvariant, PTL

\* An audit that fails has a reason to, and has made all its attempts if it is
\* that none got through.
THEOREM AuditFailsForAReason == ScriptsSpec => []FailureIsJustified
<1>1. AuditInv => FailureIsJustified
  BY DEF AuditInv
<1> QED
  BY <1>1, AuditInvariant, PTL

-----------------------------------------------------------------------------
(* The benchmark and the file it writes.                                   *)

\* A result in the file is clean, and there is no benchmark left to change it
\* once it is there or has been looked at.
FileOK ==
  /\ script \in Scripts
  /\ killed \in BOOLEAN
  /\ latest \in Files
  /\ checked \in {"none", "accepted", "rejected"}
  /\ latest = "result" => Clean /\ (stage = "closed" \/ killed)
  /\ checked # "none" => stage = "closed" \/ killed
  /\ checked = "accepted" => latest \in {"earlier", "result"}

ScriptsInv == HarnessInv /\ FileOK

\* A benchmark that has ended takes no further step.
LEMMA ClosedIsFinal == Next => stage # "closed"
BY DEF Next, Start, Respond, EndWarmup, EndIngest, EndQuery, LoadEnds, Probe, Report, Loads

\* A benchmark that has no failures and is about to write has a clean result.
LEMMA WritingIsClean == HarnessInv /\ Writing => Clean
<1> SUFFICES ASSUME HarnessInv, Writing PROVE Clean
  OBVIOUS
<1>1. stage = "report" /\ measured = 0 /\ outcome = "none"
  BY DEF Writing, Reportable, HarnessInv, StateOK
<1>2. ~ flawed
  BY <1>1 DEF HarnessInv, FlawIsCounted, Loads
<1>3. \A p \in (1..Repeats) \X (1..Measured) : p[1] < repeat \/ p[1] = repeat
  <2>1. repeat \in Nat /\ repeat >= Repeats
    BY <1>1 DEF HarnessInv, StateOK
  <2>2. \A p \in (1..Repeats) \X (1..Measured) : p[1] \in 1..Repeats
    OBVIOUS
  <2> QED
    BY <2>1, <2>2, HarnessAssumption
<1> QED
  BY <1>1, <1>2, <1>3 DEF HarnessInv, StoredIsWhole, Measuring, Clean

LEMMA ScriptsStep ==
  ASSUME ScriptsInv, [ScriptsNext]_allVars
  PROVE  ScriptsInv'
<1> USE DEF ScriptsInv
<1>1. HarnessInv'
  <2>1. [Next]_vars
    BY DEF ScriptsNext, Benchmark, Kill, ValidateBenchmark, AuditDependencies, allVars
  <2> QED
    BY <2>1, HarnessStep
<1>2. CASE Benchmark
  <2>1. ~ killed /\ stage # "closed" /\ UNCHANGED <<script, killed, checked>>
    BY <1>2, ClosedIsFinal DEF Benchmark
  <2>2. checked = "none" /\ latest # "result"
    BY <2>1 DEF FileOK
  <2>3. CASE outcome' = "published" /\ latest' = "result"
    <3>1. Clean' /\ stage' = "closed"
      BY <1>1, <2>3 DEF HarnessInv, StateOK
    <3> QED
      BY <1>1, <2>1, <2>2, <2>3, <3>1 DEF FileOK, Files
  <2>4. CASE latest' = "torn" \/ UNCHANGED latest
    BY <1>1, <2>1, <2>2, <2>4 DEF FileOK, Files
  <2> QED
    BY <1>2, <2>3, <2>4 DEF Benchmark
<1>3. CASE Kill
  <2>1. /\ ~ killed /\ stage # "closed" /\ killed' = TRUE
        /\ UNCHANGED <<stage, stored, flawed, script, checked>>
        /\ latest' \in {latest} \cup (IF Writing THEN {"torn", "result"} ELSE {})
    BY <1>3 DEF Kill, vars
  <2>2. checked = "none" /\ latest # "result"
    BY <2>1 DEF FileOK
  <2>3. latest' = "result" => Clean'
    BY <2>1, <2>2, WritingIsClean DEF Clean
  <2>4. latest' \in Files
    BY <2>1 DEF FileOK, Files
  <2> QED
    BY <1>1, <2>1, <2>2, <2>3, <2>4 DEF FileOK
<1>4. CASE ValidateBenchmark
  <2>1. /\ stage = "closed" \/ killed
        /\ checked' = IF Readable(latest) THEN "accepted" ELSE "rejected"
        /\ UNCHANGED <<stage, stored, flawed, script, killed, latest>>
    BY <1>4 DEF ValidateBenchmark, vars
  <2> QED
    BY <1>1, <2>1 DEF FileOK, Files, Readable, Clean
<1>5. CASE AuditDependencies \/ UNCHANGED allVars
  <2>1. UNCHANGED <<stage, stored, flawed, script, killed, latest, checked>>
    BY <1>5 DEF AuditDependencies, allVars, vars, scriptVars
  <2> QED
    BY <1>1, <2>1 DEF FileOK, Clean
<1> QED
  BY <1>2, <1>3, <1>4, <1>5 DEF ScriptsNext

LEMMA ScriptsInvariant == ScriptsSpec => []ScriptsInv
<1>1. ScriptsInit => ScriptsInv
  BY HarnessInitially DEF ScriptsInit, ScriptsInv, FileOK, Files
<1>2. ScriptsInv /\ [ScriptsNext]_allVars => ScriptsInv'
  BY ScriptsStep
<1> QED
  BY <1>1, <1>2, PTL DEF ScriptsSpec

\* Every variable of the scripts keeps its type, and no load takes more
\* iterations than it was given, nor the audit more attempts than it has.
THEOREM ScriptsTypeCorrect == ScriptsSpec => []ScriptsTypeOK
<1>1. ScriptsInv /\ AuditInv => ScriptsTypeOK
  BY HarnessTypes DEF ScriptsInv, FileOK, AuditInv, ScriptsTypeOK
<1> QED
  BY <1>1, ScriptsInvariant, AuditInvariant, PTL

\* Workers share the iterations of a load out among themselves without loss
\* or repetition, for any number of workers and of iterations.
THEOREM LoadsAreShared == ScriptsSpec => []IterationsAreShared
<1>1. ScriptsInv => IterationsAreShared
  BY HarnessShares DEF ScriptsInv
<1> QED
  BY <1>1, ScriptsInvariant, PTL

\* A benchmark is published only if no request of any load or repeat failed
\* and the service holds every run that was measured.
THEOREM PublishesOnlyClean == ScriptsSpec => []PublishedIsClean
<1>1. ScriptsInv => PublishedIsClean
  BY DEF ScriptsInv, HarnessInv, Clean, PublishedIsClean
<1> QED
  BY <1>1, ScriptsInvariant, PTL

\* What validate:benchmark accepts is a whole result, whenever the benchmark
\* was killed and however its writing failed.
THEOREM ValidatesOnlyClean == ScriptsSpec => []ValidatedIsClean
<1>1. ScriptsInv => ValidatedIsClean
  BY DEF ScriptsInv, FileOK, Clean, ValidatedIsClean
<1> QED
  BY <1>1, ScriptsInvariant, PTL

=============================================================================

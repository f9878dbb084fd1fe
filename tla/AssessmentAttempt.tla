-------------------------- MODULE AssessmentAttempt --------------------------
(***************************************************************************)
(* One student's attempts at one assessment, from start to Evidence        *)
(* (services/api/src/assessment-attempts.ts, assessment-recovery.ts,       *)
(* readiness.ts, competency.ts, assessment-evidence.ts).                   *)
(*                                                                         *)
(* Requests of the student run concurrently, each one round trip after     *)
(* another, and may be cut off at any of them; operators retry failed      *)
(* Evidence consumption.  An attempt is named by the assessment version it *)
(* was started at and its number.                                          *)
(***************************************************************************)
EXTENDS EvidenceIntake

CONSTANTS
    MaxVersion,          \* bound: versions of the assessment that get published
    MaxNumber,           \* bound: attempt numbers at one version
    MaxAttempts,         \* max_attempts of the definition
    TestOut,             \* versions with test_out_enabled
    EvidenceProducing,   \* versions whose purpose is evidence_producing
    Mapping,             \* [Versions -> SUBSET Competencies]
    Operators            \* workers that retry consumption; the others serve the student

Versions == 1..MaxVersion

ASSUME AssessmentAssumption ==
    /\ MaxVersion \in Nat \ {0} /\ MaxNumber \in Nat /\ MaxAttempts \in Nat
    /\ Sources = Versions \X (1..MaxNumber)
    /\ Results = {"passed", "failed"}
    /\ EvidenceProducing \subseteq Versions
    /\ TestOut \subseteq EvidenceProducing    \* assessment_test_out_requires_evidence_purpose
    /\ Mapping \in [Versions -> SUBSET Competencies]
    /\ Operators \subseteq Workers

VARIABLES
    version,     \* the latest published version
    attempts,    \* [Sources -> attempt state]
    answers,     \* [Sources -> BOOLEAN]: do the saved answers reach the passing score
    outcomes,    \* [Sources -> result or "none"]: assessment_readiness_outcomes
    grants,      \* competencies demonstrated, and Readiness if satisfied
    review,      \* student_review_state.needs_review of the mapped competencies
    handoffs     \* [Sources -> result or "none"]: assessment_evidence_handoffs

attemptVars == <<attempts, answers>>
readinessVars == <<outcomes, grants, review>>
vars == <<intakeVars, approved, work, version, attemptVars, readinessVars, handoffs>>

AttemptState == {"none", "in_progress", "interrupted"} \cup Results

Readiness == "readiness_assessment"

Handler == Workers \ Operators

AttemptJob ==
    [step : {"prior"}, version : Versions]
    \cup [step : {"create", "version", "score", "interrupt", "resume", "outcome",
                  "handoff", "facts"}, source : Sources]
    \cup [step : {"save"}, source : Sources, answer : BOOLEAN]
    \cup [step : {"persist", "grant", "satisfy", "review", "conclude", "build"},
          source : Sources, result : Results]

TypeOK ==
    /\ IntakeTypeOK
    /\ work \in [Workers -> {Idle} \cup IntakeJob \cup AttemptJob]
    /\ version \in Versions
    /\ attempts \in [Sources -> AttemptState]
    /\ answers \in [Sources -> BOOLEAN]
    /\ outcomes \in [Sources -> Results \cup {"none"}]
    /\ grants \in SUBSET (Competencies \cup {Readiness})
    /\ review \in BOOLEAN
    /\ handoffs \in [Sources -> Results \cup {"none"}]

Init ==
    /\ IntakeInit
    /\ approved \in SUBSET Competencies
    /\ version = 1
    /\ attempts = [a \in Sources |-> "none"]
    /\ answers = [a \in Sources |-> FALSE]
    /\ outcomes = [a \in Sources |-> "none"]
    /\ grants = {}
    /\ review = FALSE
    /\ handoffs = [a \in Sources |-> "none"]

Terminal(a) == attempts[a] \in Results

Begin(w, job) == work[w] = Idle /\ work' = [work EXCEPT ![w] = job]

Continue(w, job) == work' = [work EXCEPT ![w] = job]

Job(step, a) == [step |-> step, source |-> a]

JobWith(step, a, r) == [step |-> step, source |-> a, result |-> r]

KeepAttempts == UNCHANGED <<intakeVars, approved, version, attemptVars, readinessVars, handoffs>>

-----------------------------------------------------------------------------
(* startAssessmentAttempt *)
Start(w) ==
    /\ Begin(w, [step |-> "prior", version |-> version])
    /\ KeepAttempts

Numbers(v, states) == {n \in 1..MaxNumber : attempts[<<v, n>>] \in states}

NextNumber(v) ==
    LET taken == Numbers(v, AttemptState \ {"none"})
    IN  CHOOSE n \in 1..(MaxNumber + 1) :
            /\ \A m \in taken : m < n
            /\ n = 1 \/ n - 1 \in taken

\* An attempt in progress is returned; completed ones count against the limit.
ReadPrior(w) ==
    /\ At(w, "prior")
    /\ LET v == work[w].version
       IN  IF \/ Numbers(v, {"in_progress"}) # {}
              \/ Cardinality(Numbers(v, Results)) >= MaxAttempts
           THEN Finish(w)
           ELSE /\ NextNumber(v) <= MaxNumber
                /\ Continue(w, Job("create", <<v, NextNumber(v)>>))
    /\ KeepAttempts

\* Of two requests with the same number the unique constraint lets one insert.
Create(w) ==
    /\ At(w, "create")
    /\ IF attempts[Source(w)] = "none"
       THEN attempts' = [attempts EXCEPT ![Source(w)] = "in_progress"]
       ELSE UNCHANGED attempts
    /\ Finish(w)
    /\ UNCHANGED <<intakeVars, approved, version, answers, readinessVars, handoffs>>

-----------------------------------------------------------------------------
(* saveAssessmentAnswer, interrupt- and resumeInterruptedAssessmentAttempt:  *)
(* the attempt is read, then written.                                        *)
Save(w, a, answer) ==
    /\ attempts[a] = "in_progress"
    /\ Begin(w, [step |-> "save", source |-> a, answer |-> answer])
    /\ KeepAttempts

StoreAnswer(w) ==
    /\ At(w, "save")
    /\ answers' = [answers EXCEPT ![Source(w)] = work[w].answer]
    /\ Finish(w)
    /\ UNCHANGED <<intakeVars, approved, version, attempts, readinessVars, handoffs>>

Interrupt(w, a) ==
    /\ attempts[a] = "in_progress"
    /\ Begin(w, Job("interrupt", a))
    /\ KeepAttempts

Resume(w, a) ==
    /\ attempts[a] = "interrupted"
    /\ Begin(w, Job("resume", a))
    /\ KeepAttempts

\* UPDATE ... WHERE state = from: no row is no error.
Move(a, from, to) ==
    attempts' = IF attempts[a] = from THEN [attempts EXCEPT ![a] = to] ELSE attempts

StoreInterruption(w) ==
    /\ At(w, "interrupt")
    /\ Move(Source(w), "in_progress", "interrupted")
    /\ Finish(w)
    /\ UNCHANGED <<intakeVars, approved, version, answers, readinessVars, handoffs>>

StoreResumption(w) ==
    /\ At(w, "resume")
    /\ Move(Source(w), "interrupted", "in_progress")
    /\ Finish(w)
    /\ UNCHANGED <<intakeVars, approved, version, answers, readinessVars, handoffs>>

-----------------------------------------------------------------------------
(* submitAssessmentAttempt *)
Submit(w, a) ==
    /\ attempts[a] = "in_progress"
    /\ Begin(w, Job("version", a))
    /\ KeepAttempts

CheckVersion(w) ==
    /\ At(w, "version")
    /\ IF Source(w)[1] = version THEN GoTo(w, "score") ELSE Finish(w)
    /\ KeepAttempts

Score(w) ==
    /\ At(w, "score")
    /\ Continue(w, JobWith("persist", Source(w),
                           IF answers[Source(w)] THEN "passed" ELSE "failed"))
    /\ KeepAttempts

\* Mutant: the UPDATE of the result does not repeat the condition.
PersistAnyway(w) ==
    /\ At(w, "persist")
    /\ attempts' = [attempts EXCEPT ![Source(w)] = work[w].result]
    /\ Continue(w, Job("outcome", Source(w)))
    /\ UNCHANGED <<intakeVars, approved, version, answers, readinessVars, handoffs>>

\* The request goes on whether or not its UPDATE found the row.
Persist(w) ==
    /\ At(w, "persist")
    /\ Move(Source(w), "in_progress", work[w].result)
    /\ Continue(w, Job("outcome", Source(w)))
    /\ UNCHANGED <<intakeVars, approved, version, answers, readinessVars, handoffs>>

-----------------------------------------------------------------------------
(* processReadinessAssessmentOutcome: what was stored decides, not what this *)
(* request computed.                                                         *)
ReadOutcome(w) ==
    /\ At(w, "outcome")
    /\ LET a == Source(w)
       IN  IF ~Terminal(a) \/ a[1] \notin TestOut \/ outcomes[a] # "none"
           THEN GoTo(w, "handoff")
           ELSE Continue(w, JobWith(IF attempts[a] = "passed" THEN "grant" ELSE "review",
                                    a, attempts[a]))
    /\ KeepAttempts

\* recordAuthoritativeCompetencyEvidence and the satisfaction of the
\* competency requirement, for each mapped competency.
GrantCompetencies(w) ==
    /\ At(w, "grant")
    /\ grants' = grants \cup Mapping[Source(w)[1]]
    /\ GoTo(w, "satisfy")
    /\ UNCHANGED <<intakeVars, approved, version, attemptVars, outcomes, review, handoffs>>

SatisfyReadiness(w) ==
    /\ At(w, "satisfy")
    /\ grants' = grants \cup {Readiness}
    /\ GoTo(w, "review")
    /\ UNCHANGED <<intakeVars, approved, version, attemptVars, outcomes, review, handoffs>>

SetReview(w) ==
    /\ At(w, "review")
    /\ review' = (work[w].result = "failed")
    /\ GoTo(w, "conclude")
    /\ UNCHANGED <<intakeVars, approved, version, attemptVars, outcomes, grants, handoffs>>

\* The second insert of an outcome violates its unique constraint, and the
\* request ends there.
InsertOutcome(w) ==
    /\ At(w, "conclude")
    /\ IF outcomes[Source(w)] = "none"
       THEN /\ outcomes' = [outcomes EXCEPT ![Source(w)] = work[w].result]
            /\ Continue(w, Job("handoff", Source(w)))
       ELSE /\ Finish(w)
            /\ UNCHANGED outcomes
    /\ UNCHANGED <<intakeVars, approved, version, attemptVars, grants, review, handoffs>>

-----------------------------------------------------------------------------
(* buildAssessmentEvidenceHandoff and the first half of                      *)
(* consumeAssessmentEvidenceHandoff.                                         *)
ReadResult(w) ==
    /\ At(w, "handoff")
    /\ LET a == Source(w)
       IN  IF Terminal(a) THEN Continue(w, JobWith("build", a, attempts[a]))
                          ELSE GoTo(w, "facts")
    /\ KeepAttempts

BuildHandoff(w) ==
    /\ At(w, "build")
    /\ handoffs' = [handoffs EXCEPT ![Source(w)] = work[w].result]
    /\ Continue(w, Job("facts", Source(w)))
    /\ UNCHANGED <<intakeVars, approved, version, attemptVars, readinessVars>>

\* Without a handoff there is nothing to consume, which counts as a failure.
ReadFacts(w) ==
    /\ At(w, "facts")
    /\ LET a == Source(w)
       IN  IF handoffs[a] = "none" THEN FailJob(w)
           ELSE IF a[1] \in EvidenceProducing /\ Terminal(a)
           THEN Continue(w, Ingest(a, [result |-> handoffs[a], mapping |-> Mapping[a[1]]]))
           ELSE GoTo(w, "skip")
    /\ KeepAttempts

\* retryFailedAssessmentEvidenceConsumption
Retry(w, a) ==
    /\ w \in Operators
    /\ consumption[a] = "failed"
    /\ Begin(w, Job("facts", a))
    /\ KeepAttempts

\* A later version of the assessment is published.
PublishVersion ==
    /\ version < MaxVersion
    /\ version' = version + 1
    /\ UNCHANGED <<intakeVars, approved, work, attemptVars, readinessVars, handoffs>>

-----------------------------------------------------------------------------
Ask(w) ==
    \/ Start(w)
    \/ \E a \in Sources :
        \/ Submit(w, a) \/ Interrupt(w, a) \/ Resume(w, a)
        \/ \E answer \in BOOLEAN : Save(w, a, answer)

Serve(w) ==
    \/ ReadPrior(w) \/ Create(w)
    \/ StoreAnswer(w) \/ StoreInterruption(w) \/ StoreResumption(w)
    \/ CheckVersion(w) \/ Score(w) \/ Persist(w)
    \/ ReadOutcome(w) \/ GrantCompetencies(w) \/ SatisfyReadiness(w)
    \/ SetReview(w) \/ InsertOutcome(w)
    \/ ReadResult(w) \/ BuildHandoff(w) \/ ReadFacts(w)

KeepSurroundings == UNCHANGED <<version, attemptVars, readinessVars, handoffs>>

Next ==
    \/ \E w \in Handler : Ask(w)
    \/ \E w \in Workers :
        \/ Serve(w)
        \/ IntakeStep(w) /\ KeepSurroundings
        \/ \E a \in Sources : Retry(w, a)
    \/ \E c \in Competencies : PublishCompetency(c) /\ KeepSurroundings
    \/ PublishVersion

Spec == Init /\ [][Next]_vars

-----------------------------------------------------------------------------
\* A result, once stored, is never changed or taken back: not by a second
\* submission that scored other answers, nor by an interruption or resumption
\* that read the attempt while it was in progress.
ResultsStay ==
    [][\A a \in Sources : Terminal(a) => attempts'[a] = attempts[a]]_vars

\* Everything derived from an attempt repeats its stored result: the readiness
\* outcome, the handoff, and the canonical Evidence.
DerivedFromResult ==
    \A a \in Sources :
        /\ outcomes[a] # "none" => outcomes[a] = attempts[a]
        /\ handoffs[a] # "none" => handoffs[a] = attempts[a]
        /\ evidence[a] # NoEvidence => evidence[a].result = attempts[a]

\* Prerequisites and competencies are granted by a passed attempt at a
\* test-out version only, though several submissions of one attempt may have
\* scored different answers.
GrantsAreEarned ==
    grants # {} => \E a \in Sources : attempts[a] = "passed" /\ a[1] \in TestOut

\* No more attempts are completed than the definition allows.
WithinLimit ==
    \A v \in Versions : Cardinality(Numbers(v, Results)) <= MaxAttempts
=============================================================================

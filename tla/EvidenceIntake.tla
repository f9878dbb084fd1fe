--------------------------- MODULE EvidenceIntake ---------------------------
(***************************************************************************)
(* The part of Evidence ingestion that assessments and labs share          *)
(* (services/api/src/evidence.ts, evidence-competency.ts, and the          *)
(* consumption rows): a worker finds or inserts the canonical record, links*)
(* it competency by competency, and records how it ended.  Every step is a *)
(* round trip to the database; several workers may hold the same event.    *)
(*                                                                         *)
(* A worker's job is a record in work; the modules that extend this one    *)
(* add the steps before ingestion.                                         *)
(***************************************************************************)
EXTENDS FiniteSets, Naturals

CONSTANTS
    Sources, Results, Competencies, NoEvidence,
    Workers

VARIABLES
    evidence, links, consumption,
    approved,       \* competencies whose exact version is published
    work            \* [Workers -> job]

intakeVars == <<evidence, links, consumption>>

Ledger == INSTANCE EvidenceLedger

Proof == [result : Results, mapping : SUBSET Competencies]

Idle == [step |-> "idle"]

IntakeJob ==
    [step : {"find", "insert", "reread", "link", "conflict"},
     source : Sources, proof : Proof, pending : SUBSET Competencies]
    \cup [step : {"skip", "failed"}, source : Sources]

ASSUME IntakeAssumption == NoEvidence \notin Proof

IntakeTypeOK ==
    /\ evidence \in [Sources -> Proof \cup {NoEvidence}]
    /\ links \in SUBSET (Sources \X Competencies)
    /\ consumption \in [Sources -> Ledger!ConsumptionState]
    /\ approved \in SUBSET Competencies

IntakeInit ==
    /\ Ledger!LedgerInit
    /\ work = [w \in Workers |-> Idle]

At(w, step) == work[w].step = step

Source(w) == work[w].source

Finish(w) == work' = [work EXCEPT ![w] = Idle]

GoTo(w, step) == work' = [work EXCEPT ![w].step = step]

FailJob(w) ==
    work' = [work EXCEPT ![w] = [step |-> "failed", source |-> Source(w)]]

Ingest(s, p) ==
    [step |-> "find", source |-> s, proof |-> p, pending |-> p.mapping]

-----------------------------------------------------------------------------
\* createCanonicalEvidence: what is there must be what is offered.
Compare(w) ==
    IF evidence[Source(w)] = work[w].proof THEN GoTo(w, "link") ELSE GoTo(w, "conflict")

FindEvidence(w) ==
    /\ At(w, "find")
    /\ IF evidence[Source(w)] = NoEvidence THEN GoTo(w, "insert") ELSE Compare(w)
    /\ UNCHANGED <<intakeVars, approved>>

InsertEvidence(w) ==
    /\ At(w, "insert")
    /\ IF evidence[Source(w)] = NoEvidence
       THEN /\ evidence' = [evidence EXCEPT ![Source(w)] = work[w].proof]
            /\ GoTo(w, "link")
       ELSE /\ GoTo(w, "reread")
            /\ UNCHANGED evidence
    /\ UNCHANGED <<links, consumption, approved>>

RereadEvidence(w) ==
    /\ At(w, "reread")
    /\ Compare(w)
    /\ UNCHANGED <<intakeVars, approved>>

\* linkEvidenceToCompetency, one competency of the mapping after another.  An
\* existing link is the same link; a competency that is not published is a
\* conflict.
LinkCompetency(w, c) ==
    /\ At(w, "link")
    /\ c \in work[w].pending
    /\ IF c \in approved
       THEN /\ links' = links \cup {<<Source(w), c>>}
            /\ work' = [work EXCEPT ![w].pending = @ \ {c}]
       ELSE /\ FailJob(w)
            /\ UNCHANGED links
    /\ UNCHANGED <<evidence, consumption, approved>>

-----------------------------------------------------------------------------
\* recordConsumptionState is an upsert without a condition, and best effort:
\* its own failure is swallowed.
Upsert(s, state) ==
    consumption' \in {consumption, [consumption EXCEPT ![s] = state]}

\* Mutant: consumption is recorded as soon as the record is there.
RecordEarly(w) ==
    /\ At(w, "link")
    /\ Upsert(Source(w), "consumed")
    /\ Finish(w)
    /\ UNCHANGED <<evidence, links, approved>>

RecordConsumed(w) ==
    /\ At(w, "link")
    /\ work[w].pending = {}
    /\ Upsert(Source(w), "consumed")
    /\ Finish(w)
    /\ UNCHANGED <<evidence, links, approved>>

RecordSkipped(w) ==
    /\ At(w, "skip")
    /\ Upsert(Source(w), "skipped")
    /\ Finish(w)
    /\ UNCHANGED <<evidence, links, approved>>

RecordFailure(w) ==
    /\ work[w].step \in {"failed", "conflict"}
    /\ Upsert(Source(w), "failed")
    /\ Finish(w)
    /\ UNCHANGED <<evidence, links, approved>>

\* A round trip of the ingestion fails: the worker goes on to record it.
LoseRoundTrip(w) ==
    /\ work[w].step \in {"find", "insert", "reread", "link"}
    /\ FailJob(w)
    /\ UNCHANGED <<intakeVars, approved>>

\* The process dies, or the connection is lost for good.
Crash(w) ==
    /\ work[w] # Idle
    /\ Finish(w)
    /\ UNCHANGED <<intakeVars, approved>>

\* Competencies are published by the authoring service and stay published.
PublishCompetency(c) ==
    /\ approved' = approved \cup {c}
    /\ UNCHANGED <<intakeVars, work>>

IntakeStep(w) ==
    \/ FindEvidence(w) \/ InsertEvidence(w) \/ RereadEvidence(w)
    \/ \E c \in Competencies : LinkCompetency(w, c)
    \/ RecordConsumed(w) \/ RecordSkipped(w) \/ RecordFailure(w)
    \/ LoseRoundTrip(w) \/ Crash(w)

-----------------------------------------------------------------------------
(* Properties of ingestion, checked where it is composed.                  *)

\* A worker never finds that the record of its event proves something else:
\* every delivery of one event offers the same provenance (evaluateExisting-
\* EvidenceRecord would refuse it for good).
NoConflict == \A w \in Workers : ~At(w, "conflict")

\* An event marked consumed has its record and every link of the mapping it
\* was recorded under, whatever workers failed, crashed or raced on it.
ConsumedIsComplete ==
    \A s \in Sources : consumption[s] = "consumed" => Ledger!Complete(s)

\* Ingestion by several workers implements the indivisible ledger.
ImplementsLedger == Ledger!LedgerSpec
=============================================================================

# Technical Learning Platform: TLA+ models and proofs

This directory specifies the parts of the platform in which several people, browser tabs,
background cycles and database transactions decide about one thing: what a student's work is
worth as Evidence, what a certificate demands and what becomes of it, who may use a lab and
on what, what of the curriculum is published, and what a learner is shown of all that. It
holds TLA+ modules translated from the TypeScript services, the web application and the SQL
migrations, TLC configurations that check them on small instances, and theorems with proofs
that TLAPS checks for every value of the constants.

Paths below are relative to the repository. `PROJECT.json` lists, for every definition, the
source lines it stands for, for every run what it checks, for every hazard the properties
that would catch it, and for every property a variant of the model (a definition commented
`Mutant:`) that breaks it.

Contents: 1 the system, 2 the modules, 3 the runs, their bounds and fairness, 4 what is known
to fail, 5 the proofs, 6 the plan, 7 what is not modelled.

## 1. The system

A Node HTTP service (`services/api`) works on a PostgreSQL database through Supabase
(`supabase/migrations`); a React application (`apps/web`) asks it. The pure rules both share
are in `packages/shared-types`. There is no queue and no lock in the service: every HTTP
request is a handler that makes one database round trip after another, each a READ COMMITTED
transaction of its own, and what it read in one may be old in the next. What must be atomic
is a database function; what must hold whoever writes is a constraint or a row trigger.

### 1.1 Components

| Component | State it keeps | Operations | Where |
| --- | --- | --- | --- |
| Canonical Evidence | `evidence_records`, unique (user, source type, source reference) | create once, compare provenance on retry | `evidence.ts` |
| Evidence linking | `evidence_competency_links` | link (idempotent, never removed), derive outcome | `evidence-competency.ts` |
| Evidence review | `evidence_correction_events`, append-only | place under review, confirm, invalidate, supersede, restore | `evidence-correction.ts` |
| Evidence portfolio, export | `evidence_verification_references`; filters and answers in the browser | read, filter, group, export, mint references | `evidence-portfolio.ts`, `evidence-export.ts`, `apps/web/src/evidence` |
| Certificate Definitions | `certificate_definitions` and two child tables | draft a version, edit, replace requirements and policies, change publication state, supersede | `certificate-admin.ts` |
| Eligibility and issuance | `certificates` with their snapshot | evaluate, decide, pin, issue | `certificate-eligibility.ts`, `certificate-issuance.ts`, `certificate_issue` |
| Certificate lifecycle | `certificate_lifecycle_events`, `certificate_correction_events`, append-only | revoke, correct, supersede, restore; expiry is derived | `certificate-correction.ts`, `certificate_apply_correction` |
| Verification, portfolio, export, presentation | filters and answers in the browser | read and derive | `certificate-verification.ts` and others, `apps/web/src/certificates` |
| Assessments | attempts, answers, results, interruption events | start, save, submit, interrupt, resume | `assessment-attempts.ts`, `assessment-recovery.ts`, `readiness.ts` |
| Evidence consumption | `assessment_evidence_consumptions`, `lab_evidence_handoffs` and consumptions | hand a result over, retry failures | `assessment-evidence.ts`, `lab-evidence.ts` |
| Lab sessions | sessions, provider references, operations, queue | request, provision, start, reset, end, expire, clean up, recover | `lab-sessions.ts`, `lab-runtime.ts`, `lab-operations.ts`, `lab-automation.ts` |
| Lab authoring, validation | definitions, validation checks, runs and results | draft, add checks, publish, retire; validate a session | `lab-admin.ts`, `validateLabSession` |
| Lab providers, rollout | the registry, a cached copy of it, containers | canary, activate, suspend, disable, select | `container-*.ts`, `lab-provider-*.ts` |
| Curriculum | paths, courses, modules, missions, competencies and their parts | import a document, validate, publish a tree | `curriculum-*.ts` |
| A mission's lesson | published step versions; the lesson's state in the browser | open, work through, judge, complete | `curriculum.ts`, `apps/web/src/learning` |
| Learning progress | progress rows, events, satisfactions | start, complete, resume, recommend | `learning-*.ts`, `record_mission_progress` |
| Curriculum search | none on the server; query, filters, answers in the browser | search, filter, correct, recover | `curriculum-*search.ts`, `apps/web/src/search` |
| Notes and bookmarks | notes, blocks, contexts, tags, bookmarks | create, save, replace parts, delete, search, export | `notes.ts`, `note-*.ts` |
| AI tutor | none beyond a turn | check, ground, call a provider, verify | `ai-tutor*.ts` |
| HTTP server, authorization | its configuration; a request under way | route, check origin and identity, read the body, answer | `server.ts`, `auth-context.ts`, `authorization.ts`, `cors.ts`, `config.ts`, `apps/web/src/lib/api-client.ts` |

### 1.2 How they interact

```
 labs: authoring ──► sessions ──► validation runs ─┐       administrators ── review ──► histories
          providers ──┘                            ├─► Evidence ──► links ──► eligibility ◄──┘
 assessments: attempts ──► results ────────────────┘     │                    │
        │ competencies, requirements                     │                    ▼
        ▼                                                │   definitions ─► certificate_issue
 learning progress ──► guidance ──► course page          │                    │
        ▲                                                ▼                    ▼
 curriculum: import ─► tree ─► missions ─► lesson    portfolio, export    certificate ◄─ corrections
                 └──► search ◄── notes ──► tutor                              │
                                                             verification, portfolio, export
```

* Sources hand results to canonical Evidence by calls that may fail and are retried.
* Eligibility reads links, Evidence and the replayed correction histories, several queries
  per competency; issuance reads the definition, evaluates, reads *pins* of the Evidence it
  relied upon, and passes them to `certificate_issue`, which checks them again.
* Publication of a curriculum tree makes competencies, missions and their versions visible:
  to definitions, lab authoring, lab Evidence, lessons, guidance and search.
* A page of the web application asks several of these at once, aborts what it no longer
  wants, and shows what arrives.

### 1.3 What is hard

* **Read in one transaction, written in another.** Evidence corrections, definition and
  curriculum transitions, issuance, submissions, lab operations and imports all judge on rows
  that may have changed since. What stands in between is different each time: a unique
  number, a row trigger, a `FOR UPDATE`, a compare-and-set, or nothing.
* **Half done.** No transaction spans an import, an ingestion, a provisioning or the
  replacement of a note's parts; whatever cut it off, the next run finds what is left.
* **Retries and idempotency.** A lost answer is harmless only if looking a key up, the unique
  constraint and the second look after a violation fit together.
* **Late answers.** A provider answers after its call timed out; a canary ends after the
  provider was disabled; a response arrives for a filter, a query or a mission that is no
  longer on screen; an aborted request still runs its `finally`.
* **Copies.** The registry is cached; handlers keep closures over renders; readings are put
  together from several queries.
* **Several histories of one fact, walks over chains, and row locks** in the certificate and
  Evidence histories.

`PROJECT.json` lists these as hazards at the lines where they bite, with the properties that
would catch them.

### 1.4 What makes each component correct

* *Evidence review*: histories replay; an answer is backed by the database; the replacement
  shown matches the state; all of it is indistinguishable from indivisible corrections.
* *Evidence from its sources*: one record per source event, written once, under one mapping;
  consumed means recorded and linked; what is recorded follows from the stored result.
* *Assessment attempts*: a stored result stays, whatever requests race.
* *Evidence and certificate readings*: what is told of one record was so at one moment; what
  cannot be read withholds nothing else; a view shows the answer to its own filters; a
  reference once told is for good.
* *Certificate Definitions*: a published version keeps its meaning, whoever races.
* *Issuance*: issued while published, on the student's own Evidence.
* *Certificate lifecycle*: both histories agree; decisions are indivisible; no request waits
  for ever.
* *Lab sessions*: a session gets one resource, and nothing late brings it back to ready.
* *Lab validation*: what counts as passed saw a required check pass.
* *Provider rollout*: an enabled provider has earned it since it was last off; nobody is
  given a container on an authorization older than the copy allows.
* *Curriculum*: published nodes are not revised; references resolve; what an interrupted
  import leaves can be imported again.
* *A lesson*: it belongs to the mission on screen; a verdict is of the answer and version
  shown; a journey goes in order; a learner is stranded only where its author stops the traffic.
* *Learning progress*: nothing is recorded before what it builds on; the stored events
  account for the state; what the page offers was right while it asked.
* *Search, notes, tutor*: the page shows what was searched last, in an order that no bound of
  a read decides; a note's blocks are of one edit; a turn ends, with an answer its grounding
  backs.
* *HTTP server*: nobody acts who was not trusted while the request lasted; no route takes a
  request from one whose path says more.

## 2. Modules

| Module | What it is |
| --- | --- |
| `EvidenceRules` | The pure rules of Evidence review: permitted corrections, replay of a history. |
| `EvidenceTrust` | Abstract specification: trust state, review flag, spent keys; one indivisible `Correct`. |
| `EvidenceCorrection` | The service and the table: a request as a sequence of round trips. Implements `EvidenceTrust`. |
| `EvidenceCorrectionProofs` | Theorems about `EvidenceCorrection` and `EvidenceReading`. |
| `RecordView` | A view of one's own records in the browser: loads, aborts, late `finally` clauses. |
| `EvidenceReading` | The projections of a student's Evidence; portfolio and export read query by query over `EvidenceCorrection`, with their views. |
| `EvidenceLedger` | Abstract specification of ingestion: a source event has at most one record, written once. |
| `EvidenceIntake` | Finding, inserting and linking a record, shared by both sources. |
| `AssessmentAttempt` | Attempts from start to Evidence. Implements `EvidenceLedger` through `EvidenceIntake`. |
| `EvidenceIntakeProofs` | Theorems about the two sources of ingestion, `AssessmentAttempt` and `LabEvidence`. |
| `LabEvidence` | Validation runs turned into Evidence. Implements `EvidenceLedger` likewise. |
| `DefinitionRows` | Abstract specification of definition rows: created once, one column changed at a time, their meaning kept while published. |
| `CertificateDefinition` | The authoring handlers and row triggers. Implements `DefinitionRows`. |
| `CertificateDefinitionProofs` | Theorems about `CertificateDefinition` and `LabAuthoring`. |
| `CertificateIssuance` | Issuance, composed with `EvidenceTrust` and `DefinitionRows`. |
| `CertificateIssuanceProofs` | Theorems about `CertificateIssuance`. |
| `CertificateRules` | Statuses, approved edges, the status an action leads to. |
| `CertificateStatus` | Abstract specification of a certificate's status: one indivisible `Decide`. |
| `CertificateLifecycle` | Certificate corrections with their row locks. Implements `CertificateStatus`. |
| `CertificateLifecycleProofs` | Theorems about `CertificateLifecycle` and `CertificateReading`. |
| `CertificateReading` | Verification, portfolio, presentation and export read over `CertificateLifecycle`. |
| `LabSession` | The lifecycle table of sessions; sessions, operations and the automation cycle over a provider. |
| `LabAuthoring` | Lab definitions, validation profiles, and validations under what is published. |
| `ProviderRollout` | The control plane of the container provider and selection from its cached copy. |
| `LabProofs` | Theorems about `LabSession` and `ProviderRollout`. |
| `CurriculumImport` | The pure planner of an import; imports and the lifecycle of a path. |
| `PacketJourney`, `MissionLesson` | The pure model of the packet-journey activity; a browser reading missions against the server. |
| `LearningProgress` | Aggregation, resume, recommendation; recording progress and reading guidance. |
| `LearningProofs` | Theorems about `LearningProgress` and `MissionLesson`. |
| `TutorTurn` | The pure contracts of the tutor; one turn. |
| `CurriculumSearch` | Variants, matching and ranking; a search and its page. |
| `StudentNotes` | The requests that change notes, blocks, contexts, tags and bookmarks. |
| `HttpServer` | The route table, and one request from its sender to the answer. |
| `ContentProofs` | Theorems about `TutorTurn`, `CurriculumSearch`, `StudentNotes`, `HttpServer` and `CurriculumImport`. |
| `MC...` | Instances for TLC: small sets, inputs, symmetry. |

Composition is of two kinds. *By contract*: `EvidenceCorrection` is shown to implement
`EvidenceTrust` and `CertificateDefinition` to implement `DefinitionRows`;
`CertificateIssuance` then EXTENDS the two abstract modules and runs its many small steps
against their indivisible ones. *By extension*: `EvidenceReading` and `CertificateReading`
extend the very modules that write what they read, `AssessmentAttempt` and `LabEvidence`
extend `EvidenceIntake`, so that writers and readers interleave step by step.

An MC module may hold two or three components that share no data (its header says so), each
in behaviours of its own: a variable chosen in the initial state says which one moves. What
is checked of each is what a run of its own would check.

### 2.1 Conventions

* A request in flight is a record (`req[actor]`, `work[w]`, `job[o]`, `call[r]`) whose `step`
  names the round trip it will make next, with what it has read so far. An action is one
  round trip; its guard, early returns and refusals are its disjuncts.
* Where a trigger looks at other rows, the statement is two steps (`Guard`/`Commit`,
  `IssueCheck`/`IssueInsert`, `LockCertificate`/`Commit`): a trigger runs after the lock of
  its own row is taken and sees what is committed, and the new row is visible at commit.
  Between the two, other transactions run. Unique constraints are enforced at the insert.
* `Lose`, `Crash`, `Fail`, `Stop`, `LoseRoundTrip` are a lost connection, a failed query or a
  restart of the service: an open transaction is rolled back, what was committed stays, the
  caller learns nothing and may send the same request again. One of them is possible at every
  step of every request.
* In the browser a press is a discrete event that reads the last *rendered* state; an answer
  updates state in one step and is rendered in a later one; effects of a render that no press
  caused run later still; an aborted request shows nothing but settles.
* Values that only have to be told apart (terms, policies, reasons, students, texts) are model
  values. Wording, presentation fields, metadata and timestamps that nothing compares are
  left out, as are the queries that only build an answer.
* Authorisation is taken as given: actors are `founder_admin`s or the student concerned, and
  row-level security lets each see what it should.

### 2.2 Evidence review: `EvidenceCorrection`

`log[e]` is the record's rows of `evidence_correction_events` in sequence order; `req[a]` is
where the request of administrator `a` stands.

| Action | Code |
| --- | --- |
| `Receive` | input accepted by `validateCreateEvidenceCorrectionInput` |
| `LookupKey` | the first `findByIdempotencyKey` |
| `LoadHistory` | loads and replays the history; stale, denied and invalid answers |
| `GuardInsert` | `guard_evidence_correction_event`: the walk of the supersession chain |
| `CommitInsert`, `RejectInsert` | the insert meets the unique constraints, or does not |
| `LookupKeyAgain` | the second `findByIdempotencyKey` after a unique violation |
| `Respond`, `Lose` | the answer arrives, or does not |

The replay of the code is a loop that stops at the first incoherent event. `EvidenceRules`
states it event by event: until the loop stops, the state before event *i* is the successor
recorded by event *i - 1*. `evidence_records.state` is `active` at creation and no path
changes it. The code loads both records before the history; nothing it reads of them can
change except through the history.

### 2.3 Reading Evidence: `EvidenceReading`

The projections come first, as operators; a competency is named by its exact reference. The
state is that of `EvidenceCorrection` with `recorded`, `linked`, `reference` (the verification
references) and, per view, what it shows and which requests it has under way.

| Action | Code |
| --- | --- |
| `ReadRecords`, `ReadHistories`, `ReadLinks`, `ResolveContext` | the queries of `getStudentEvidencePortfolio`, in order |
| `LinksFail`, `ContextFails`, `ListingFails` | the failures it survives, and the one it does not |
| `LoadReferences`, `MintReferences`, `ReadBack`, `ReferencesFail` | `ensureVerificationReferences` |
| `Arrive`, `NetworkFails`, `AbortSettles` | what a view makes of an answer, an error, an abort |
| `SetFilters`, `RequestExport` | the controls |
| `RecordEvidence`, `LinkEvidence`, `Corrections` | the world: new records, links, and every step of `EvidenceCorrection` |

### 2.4 Evidence from its sources: `EvidenceIntake`, `AssessmentAttempt`, `LabEvidence`

`EvidenceIntake` is what both sources share: `FindEvidence`, `InsertEvidence`,
`RereadEvidence` (`createCanonicalEvidence` with its unique violation), `LinkCompetency` one
competency per step, and `RecordConsumed`, `RecordSkipped`, `RecordFailure` (the upsert of the
consumption row). `LoseRoundTrip` is an error the worker records as failed, `Crash` one that
records nothing.

| `AssessmentAttempt` | Code |
| --- | --- |
| `Start`, `ReadPrior`, `Create` | `startAssessmentAttempt` |
| `Save`, `StoreAnswer` | `saveAssessmentAnswer`: judged, then upserted |
| `Interrupt`, `StoreInterruption`, `Resume`, `StoreResumption` | `assessment-recovery.ts` |
| `Submit`, `CheckVersion`, `Score`, `Persist` | `submitAssessmentAttempt` up to the conditional UPDATE |
| `ReadOutcome`, `GrantCompetencies`, `SatisfyReadiness`, `SetReview`, `InsertOutcome` | `processReadinessAssessmentOutcome` |
| `ReadResult`, `BuildHandoff`, `ReadFacts` | the handoff and `loadAssessmentEvidenceFacts`; the steps of `EvidenceIntake` follow |
| `Retry` | `retryFailedAssessmentEvidenceConsumption` |

| `LabEvidence` | Code |
| --- | --- |
| `Validate`, `Retry` | the end of `validateLabSession`; the retry of failures |
| `ReadFacts`, `ReadFrozen`, `ReadMission`, `ReadMapping` | who consumes, under which authority |
| `Capture`, `ReadBack`, `LoseCapture` | `captureLabEvidenceHandoff`: the first writer freezes the authority, others read it back |
| `PublishMission` | the mission in force moves on |

An attempt is named by version and number, and whether the saved answers reach the passing
score is all that is kept of them; scoring of single questions is left out. A competency grant
is one step.

### 2.5 Certificate Definitions: `DefinitionRows`, `CertificateDefinition`

`row[d]` is a definition with its child rows; a request carries the statements it leads to
(one patch, or the insert and the two replacements of a create). `DefinitionRows` promises
that one column changes at a time, states move along `ValidTransition`, and a published row
keeps its meaning (`SameMeaning`). Which columns the trigger compares to keep that promise
(`Frozen`) is `CertificateDefinition`'s.

| Action | Code |
| --- | --- |
| `ReceiveEdit`, `ReadRow` | the handler's read and what it refuses on it |
| `ReadRequirements`, `CheckCompetency`, `CompetenciesChecked` | `validateCertificateDefinitionForPublication`, one competency per query |
| `Guard` | the row lock, the freeze trigger and the supersession trigger |
| `Commit` | the UPDATE (by id alone) becomes visible |
| `ReceiveDraft`, `ReadVersion`, `InsertDraft` | `createDraftCertificateDefinition`; its requirements follow as further requests |
| `PublishCompetency` | `curriculum_publish_learning_path_tree`; nothing takes publication back |

`terms` stands for the material scalars. Every requirement row is taken as required. Both
chain walks (TypeScript and SQL) are stated as reachability; the bounds on their length are
longer than any chain here.

### 2.6 Issuance: `CertificateIssuance`

| Action | Code |
| --- | --- |
| `Begin`, `FindExisting` | resolve the definition, look for a certificate |
| `ReadDefinition`, `ReadEligibilityRow`, `ReadRequirements` | the three reads of the definition |
| `ReadReferences` | `getAuthoritativeCompetencyEvidenceReferences`, one competency per step |
| `Decide` | `evaluateCertificateEligibility` and `decideCertificateIssuance` |
| `ReadPins` | `readEvidencePins` |
| `IssueCheck`, `IssueInsert` | the transaction `certificate_issue` |
| `LoadAndAudit`, `Respond`, `Lose` | load by id, audit, answer |
| `LinkEvidence`, `CorrectEvidence`, `DraftDefinition`, `WriteDefinition` | the surroundings, steps of the two abstract modules |

The queries of one competency's references are one step: links only grow, so what a later
query of the same competency would see is what the step could have seen if taken later. Of
what the code pins, base state, integrity and result never change after creation, so only
the number of corrections is kept. A policy asks for one record of its source type. The
definition's administrators are modelled as not racing *one another* here (their races are
`CertificateDefinition`'s subject), but their writes fall between any two steps of an
issuance and wait for its row lock.

### 2.7 Certificate lifecycle and reading: `CertificateLifecycle`, `CertificateReading`

| Action | Code |
| --- | --- |
| `Receive` | validation of the input |
| `LockCertificate` | `FOR UPDATE` on the certificate, then key lookup, lifecycle trigger, correction trigger: all reads under the lock |
| `ShareReplacement` | the `KEY SHARE` of the foreign key on the replacement |
| `AbortDeadlocked` | PostgreSQL's deadlock detector (external) |
| `Commit` | both rows become visible together |
| `WriteAudit`, `Respond`, `Lose` | audit event, answer, or neither |
| `Lapse` | a pinned expiry date passes; nothing is recorded |
| `ReadCertificates`, `ReadEvents`, `Resolve`, `QueryFails` | verification, portfolio, presentation, export: the queries, the look at the clock |
| `Arrive`, `NetworkFails`, `AbortSettles`, `SetFilters`, `Reopen`, `RequestExport` | the four views |

In PL/pgSQL each statement after the lock takes a fresh snapshot, and nobody else can write
this certificate's rows, so everything read under the lock is one step. Verification looks at
the clock before its queries, the others after; each takes its step there.
`recordCertificateLifecycleTransition` is wired to no route and left out, as is
`listStudentCertificateRecords`. The eligibility page is not modelled.

### 2.8 Lab sessions: `LabSession`

`state[s]` is `lifecycle_state`, `resource[s]` what the provider holds, `reference` the
sessions whose provider reference is stored, `cleanup` and `open` the open operations, and
`work[w]` what a handler or an automation cycle is at.

| Action | Code |
| --- | --- |
| `Request`, `Insert`, `Queue`, `Drain`, `Claim` | `requestLabSession`; `drainQueuedLabSessions` |
| `Provision`, `SaveReference`, `MarkReady`, `MarkFailed` | the provider call and what is written after it |
| `Start`, `StartResource`, `Activate` | `startLabSession` |
| `Reset`, `RemoveResource`, `RecreateResource`, `CountReset`, `Restore` | `resetLabSession` and the runtime's `resetSession` |
| `End`, `Drop`, `ClaimEnd`, `Destroy`, `MarkTerminated`, `MarkSpoiled` | `endLabSession` |
| `FindExpired`, `ClaimExpired`, `OpenExpire`, `Expire`, `CloseExpire`, `Schedule`, `Reschedule` | expiry, in a cycle |
| `Cleanup`, `OpenCleanup`, `Clean`, `CloseCleanup`, `OpenRecover`, `CountAttempt`, `Escalate` | cleanup, recovery and their retries |
| `LoseResource`, `LoseRoundTrip`, `Crash` | the provider loses a resource; a call is lost; the worker stops |

`Transition` writes with a compare-and-set on the state read, `Overwrite` by id alone, and
`MayEnter` is the unique index on live sessions that may refuse either.

### 2.9 Lab authoring and validation: `LabAuthoring`

`definitions[v]` and `checks[p][k]` are the rows an administrator writes (a profile is no row
but the checks that name it), `sessions` and `runs` what a student does with them.

| Action | Code |
| --- | --- |
| `AskForDraft`, `ReadVersion`, `InsertDraft` | `createDraftLabDefinition`, version by `nextLabDefinitionVersion` |
| `AddChecks` | `addLabValidationChecks` |
| `AskForState`, `ReadDefinition`, `CheckReference`, `ReferencesChecked`, `ReadChecks`, `UpdateDefinition` | `transitionLabDefinitionState` |
| `AskForProfileState`, `ReadProfile`, `UpdateProfile` | `transitionLabValidationProfileState`: the UPDATE names the profile only |
| `ChooseDefinition`, `InsertSession`, `EndSession` | a session rests on the definition published when it was asked for |
| `AskForValidation`, `ReadProfileOf`, `ReadPublishedChecks`, `Probe`, `StoreRun`, `StoreResults`, `ReferToRun` | `validateLabSession` |
| `MoveCurriculum` | publication of what a definition refers to, and retirement |

A definition's body never changes after its insert; what its normalisers ask besides
competencies is one flag (`sound`). A check added to a published profile stays a draft, and
cannot be published without retiring the whole profile. `PassedShowsSomething` holds because
all checks of a profile move together and additions are drafts: once a required check was
published with a definition, every later published set contains it. Worth knowing: retiring a
profile or a definition under a live session makes its validations NOT_FOUND; a crash may
leave a run without results; the session may refer to an older run than the last; references
may be unpublished between check and UPDATE.

### 2.10 Provider rollout: `ProviderRollout`

`row` is the container's row of the registry, `canary` and `acting` what runs and operators
are at, `cache` this instance's copy, `picking` the requests choosing a provider.

| Action | Code |
| --- | --- |
| `ActivateRead`, `ActivateWrite` | `activateContainerProvider`: judged on a row read earlier, written by id |
| `SuspendContainerProvider`, `DisableContainerProvider`, `OperatorCutOff` | the other commands |
| `CanaryBegin`, `CanaryProvision`, `CanaryProbe`, `CanaryDestroy`, `CanaryCleanup`, `PersistPass`, `CanaryCutOff` | `runContainerProviderCanary` and its trigger |
| `ReadCopy`, `AskRegistry`, `RegistryAnswers`, `LoadRegistryRecords` | the cached copy with its overlapping and failing queries |
| `ChooseLabProvider`, `Probe`, `ProvisionChecks`, `ProvisionCreates`, `RetryQueued`, `EndSession` | selection, capacity, provisioning |
| `Tick` | the clock; the registry answers within `Latency` |

### 2.11 Curriculum: `CurriculumImport`

The planner of `curriculum-reconciliation` comes first, as operators on a document and what
was read. `rows[n]` is the sequence of versions of a stable id; `pieces`, `links`, `edges`,
`rules` are the parts; `job[o]` is what an operator's command or a lifecycle request is at,
its plan turned into the list of round trips still to do.

| Action | Code |
| --- | --- |
| `Import`, `Find`, `Content`, `Children`, `Relations` | reading what is stored, and `planCurriculumReconciliation` |
| `Number`, `Insert`, `Update` | nodes, in document order |
| `Edge`, `CheckDraft`, `Link`, `Piece`, `Rule` | their parts |
| `Validate`, `From`, `Move`, `Publish`, `Event` | `validateLearningPathForPublication`, `transitionLearningPathState`, the tree publication |
| `Transition` | the same over HTTP |
| `Stop` | a command is interrupted, or a query fails |

`text` stands for title, description and minutes; positions of steps and assets inside a
mission, optional links and unreadable content are left out; the reads after the nodes are two
steps; validation and quality report are one each, without the acyclicity they check again.
Dry runs and authoring over HTTP are left out.

### 2.12 A mission's lesson: `PacketJourney`, `MissionLesson`

`PacketJourney` is the observation model of one activity as operators on records.
`MissionLesson` has the server's published versions and one browser: `fetch`/`request`/`due`
are the instruction request in flight, the tagged state the view keeps of it, and the effect
that will start one; `lesson` is the mounted lesson's state and `seen` its near-transfer state
as last rendered; `checks` are answers being judged.

| Action | Code |
| --- | --- |
| `SelectMission`, `RefreshSession`, `ReloadInstruction`, `FetchEffect` | `LearningView`: a render, then its effect |
| `ResolveMission`, `InstructionLoaded`, `InstructionFailed` | the server's two reads; the answer |
| `Report`, `ReportEffect` | what a lesson tells the view of its required instruction |
| `WorkJourney`, `StartOver`, `FinishActivity` | the packet journey's controls |
| `Toggle`, `Submit`, `Settle`, `Acknowledge`, `RenderAnswers` | near-transfer questions |
| `ResolveExactVersion`, `VersionUnavailable`, `CheckAnswered`, `CheckFailed` | `checkLearnerNearTransferAnswer` |
| `RecordProgress`, `RecordAnswered` | beginning and completing the mission |
| `Publish`, `Retire` | the curriculum, meanwhile |

Unmounting drops checks under way; displayed progress is over-approximated (`started` always
true); options, wording of verdicts and the topology are left out.

### 2.13 Learning progress: `LearningProgress`

| Action | Code |
| --- | --- |
| `Ask`, `ReadContent`, `ReadSatisfactions` | `evaluateMissionPrerequisites`, before the transaction |
| `Begin`, `Look`, `Write`, `Lose` | `record_mission_progress`: the row lock (if there is a row), the look, the upsert with its event |
| `LoadGuidance`, `ReadModule`, `ReadRows`, `GuideFails`, `Settled`, `Leave` | the course page's two requests, module by module |
| `PublishMission`, `RetireMission`, `Satisfy` | the world |

`now()` is the start of a transaction, so `completed_at` may precede `started_at`, and `events` is a
set of dated events: nothing else of their order is stored. No two transactions begin at once. Rules are
constant and read in `Ask`; `curriculum_version`, `recoveredFromMissingTarget` and percentages
are left out. The MC module assumes `CountsAgree`. `ever` and `always` are history: what was
true at some, at every moment of a reading.

### 2.14 The tutor: `TutorTurn`

A text is what screening makes of it: clean, a credential that redaction masks, a residue in
which a mask completes another credential, or blank. The contracts are operators; the actions
follow `runTutorTurn`: `ResolveOwnership`, `Refuse`, `Defer`, `Accept`, `SourceResolves`, `SourceUnavailable`,
`SourceTimesOut`, `NotSent`, `Call`, `ProviderCompletes`, `ProviderFails`, `ProviderTimesOut`,
and `LateEnd` for work given up on. No HTTP route serves it; the turn is composed as
`ai-tutor.test.ts:718` composes it. Logs, wording, rendering and `privacyClass` are left out.

### 2.15 Curriculum search: `CurriculumSearch`

How terms occur in texts is given by constants; operators say which variants of a query
are looked for, where they count and how results are ordered. `published` is what row-level
security lets a learner read, `searches` the requests under way, `page` the view.

| Action | Code |
| --- | --- |
| `RunSearch`, `Type`, `Submit`, `ToggleContentType`, `ClearFilters`, `ShowOriginal` | `CurriculumSearchView` |
| `ReadPage`, `StepHits` within it, `FinishPass`, `SearchFails` | `searchCurriculum`: a type at a time, then step bodies, then perhaps a pass for a typo |
| `Settle`, `NotesSettle` | the answers arrive, in any order |
| `Release` | publication and retirement, meanwhile |

Left out: the trail read (`published_mission_contexts`), snippets, escaping, freshness,
permission decisions; bodies of steps and their pages are one read; a module's publication is
folded into `CourseOf`; the typo rule is the constant `Correction`.

### 2.16 Notes and bookmarks: `StudentNotes`

| Action | Code |
| --- | --- |
| `ReplaceBlocks`, `DeleteBlocks`, `InsertBlocks`, `ListBlocks` | `replaceNoteBlocks`, `listNoteBlocks` |
| `ReplaceTags`, `DeleteTags`, `InsertTags` | `replaceNoteTags` |
| `CreateNote`, `UpdateNote`, `DeleteContexts`, `InsertContexts` | `createStudentNote`, `updateStudentNote`, `replaceContexts` |
| `DeleteNote`, `SetPinned`, `CreateTag`, `RenameTag`, `DeleteTag`, `CreateBookmark`, `DeleteBookmark` | one statement each |
| `Fail` | any query fails, or the server stops |

An id is given once, so a request under way for a deleted note meets nothing. Reads that only
answer are left out, except the one that ends a replacement of blocks.

### 2.17 The HTTP server: `HttpServer`

The route table is data (`Routes`, in the order of the handler); an operation is its name.

| Action | Code |
| --- | --- |
| `Start`, `Shutdown` | `loadRuntimeConfig`, `validateRuntimeConfig`, `server.listen`, `server.close` |
| `Send` | `apiRequest` of the web application, or a program's request |
| `Preflight`, `AnswerOptions` | `resolveCors` |
| `Dispatch`, `FallThrough` | `handleRequest` finds the route that answers, or none |
| `GetUser`, `ReadProfile`, `ReadAssurance` | `resolveTrustedRequestIdentity`, `requireFounderAdmin` |
| `ReadBody`, `CallOperation` | `readJsonBody`, the coercions of the route, the operation |
| `Deliver`, `Lose` | the answer, or the lack of one, as `normalizeApiError` and the verification page tell it |
| `ChangeRole`, `SignOut` | the accounts, meanwhile |

One behaviour is one request: requests share nothing in the server. What an operation needs
of the database is the matter of the other modules; logging and correlation ids are left out.
So is a request whose URL or host `new URL` cannot parse (`server.ts:250`): that line is before the
`try`, so nothing answers it, no identity is looked at and nothing is called.

## 3. Runs

Each passing run explores its instance to the end. Symmetry is used only over actors whose
identity no property tells apart, and not in a run with a liveness property.

| Run | Instance | What it shows |
| --- | --- | --- |
| `EvidenceReview` | 2 administrators on one record; or a reader of the portfolio under one administrator; or exports from two tabs | Histories replay, answers are backed, the replacement matches the state, the service implements `EvidenceTrust`. What a reader is told of a record was so at one moment (`ToldTogether`), nothing of it is withheld when supplementary queries fail (`NothingWithheld`), and a reference once told stays (`ReferencesAreForGood`). |
| `EvidenceIntake` | two requests of a student and a retrying operator on attempts; or several consumers of one validation run while the mission is republished | Outcome, handoff and Evidence follow the stored result (`DerivedFromResult`); all consumers of a run record under one frozen authority (`OneLabAuthority`); both sources implement `EvidenceLedger`. |
| `Authoring` | definitions: 2 administrators on one version or 1 on three; or a lab and its profile under 2 administrators and a student | Authoring of definitions implements `DefinitionRows`, so a published version keeps its meaning whoever races. A validation that counts as passed saw a required check pass (`PassedShowsSomething`). |
| `Issuance` | 2 requests of one student, records of 2 students, 2 competencies, a definition that lives its whole life but is not reopened | Issued only while published, on the student's own Evidence. |
| `LifecycleCorrections` | 2 administrators, 3 certificates of 2 students, a key used again, supersession both ways, expiry; or a view under one administrator | Histories agree, every request ends, `CertificateStatus` is implemented. A status told was so while the reading ran (`ToldAsItWas`), and a view that is at rest shows the answer to its filters (`ShowsItsFilters`). |
| `LabSessions` | 2 sessions, 2 requests of a student, 2 automation cycles, a provider that fails | A session is provisioned once (`ProvisionedOnce`) and becomes ready only from provisioning or by a reset (`NotRevived`). |
| `CurriculumImports` | 2 operators and lifecycle requests on the second edition of a document | References resolve, what an interrupted import leaves can be imported again, published nodes are not revised. |
| `MissionLessons` | 2 missions: one with a required journey with a fault and a question whose second version has another answer and a journey that ends in a stop; or a challenge sent without its repair | What is on screen belongs to the mission selected; a verdict is of the answer and version shown; a journey goes in order; a learner is stuck in a required one only where its author stops the traffic and neither a repair nor a prediction leads on. |
| `LearnerProgress` | 3 missions in a path, a requirement, 2 tabs; or one tab and the course page | Nothing is started before what it builds on; the stored events account for the recorded row, each once (`HistoryExplainsRow`); what the page offers was right at some moment of its reading. |
| `ProgressRegression` | a start and a completion of a mission without a row | **Violated**: `NoRegression`. The first two requests find no row to lock; the completion commits first and the start writes `in_progress` over it. |
| `Rollouts` | 2 operators, 1 canary run, 2 requests of users in different buckets | An enabled provider passed a canary since it was last off (`EnabledIsEarned`); whoever is given a container was allowed one within `TTL + Latency` (`FreshAuthorization`). |
| `LearnerQuestions` | a turn of the tutor with 16 shapes of request; or searches of 5 queries; or 2 devices on one note; or one request to the API, of any route and token, in 4 configurations | Every turn ends (`TurnEnds`) with an answer its grounding backs (`AnswersAreGrounded`). The page shows what its own words and filters found (`ShowsItsSearch`), in the order an unbounded search would give (`RankedAsIfUnbounded`). The blocks of a note are those of one edit, whole, or none (`BlocksAreOfOneEdit`). Only a sender trusted during the request gets anything done (`OnlyTheTrustedAct`), and no route shadows another (`NoneIsShadowed`). |

`findings` in `PROJECT.json` holds the violated run with the sentence of the repository that
says otherwise. Section 4 lists what else is known to fail, and how to see it.

### 3.1 Bounds

Two actors are enough for every race here: each is between a request and *something committed
meanwhile*. Where a third matters it is there (the retrying operator, the reader).

* *Evidence review*: `MaxHistory` 3: three events suffice to leave a state, come back to it
  and leave again; two of the corrections are sent under a key too. Under a reader at most two, by one administrator; `e2` is
  recorded and linked meanwhile, `e3` of another student recorded; the page is read once; exports run alone, with two panels;
  filters are none and one competency. `Limit` 2 is the number of the student's records, so
  nothing is cut off.
* *Evidence intake*: `MaxVersion` 2, `MaxNumber` 1, `MaxAttempts` 1, one competency; one
  validation run, `MaxMission` 3. The number of attempts is no concern of these properties.
* *Authoring*: 3 versions, enough for a circle of supersessions and one reached by walking.
  The lab has one version that two creators race for, one profile with one required and one
  advisory check; two administrators race only while the student has nothing under way, one
  works under a request of the student's, and nobody once a validation is stored
  (`MaxRuns` 1).
* *Issuance*: one correction, no reopening (see `IssuedAsRequired` below).
* *Lifecycle*: `MaxHistory` 2, and two administrators admitted before it is reached make
  three. The bound stops new requests, so that none is stuck because of it. Readings: one view
  open at a time, one administrator revoking and restoring `c1` under a reader who waits for a
  correction to commit, two filters, one aborted request.
* *Lab sessions*: `RetryLimit` 2, `ResetLimit` 1, `MaxCalls` 5: a session can be provisioned,
  reset, claimed for expiry, fail to be destroyed and be recovered within five calls.
* *Curriculum*: two editions of a small document; `Budget` 5 for commands and lifecycle
  requests begun, an import costing more than a request.
* *Missions*: level `ask_me` and one journey at `challenge_me`; journeys of three stages with
  a fault at the first, and of one that stops without a fault;
    `MaxGeneration` 3, `MaxReleases` 2.
* *Progress*: one mission moves in and out of publication, `MaxClock` 3; two tabs record only
  while nobody reads guidance, and the page is opened while a transaction may still begin.
* *Rollouts*: `TTL` 2, `Latency` 1, `MaxTime` 4, `MaxActs` 2, `MaximumSessions` 1; the bound of
  `FreshAuthorization` is tight (with one tick less it fails).
* *Questions*: two provider attempts; search with `Limit` 1, `OverFetch` 1 (4 in the code),
  `PageSize` 2 (100), `MaxSearches` 3, `MaxReleases` 1, one version of each record. Notes: one
  note, one tag with two names, edits of no, one and two blocks and one that numbers two
  blocks alike, `MaxAsked` 4 requests of several queries: a note can be created, given blocks
  and then be edited by two devices at once.
* *API*: five tokens of three users (one revoked, one without a second factor, one of an
  unconfirmed administrator), every route with its parameter an id, a number, a word of a
  route, empty or not decodable, every method, `MaxChanges` 1: accounts matter only from the
  moment the token is looked at.

Deadlock is checked except where a bound on what may be begun lets the system stop:
`LabSessions` (calls), `CurriculumImports` (budget), `LearnerProgress` and
`ProgressRegression` (the clock), `Rollouts` (the clock and operations).

### 3.2 Fairness

Safety runs assume none. `RequestsEnd` uses weak fairness of serving a request (the database
executes what it has been sent) and strong fairness of the two lock acquisitions, since
PostgreSQL queues waiters of a row lock and does not let others overtake them for ever. New
requests, `Lose` and `Lapse` are not fair. `TurnEnds` uses weak fairness of `Progress` alone:
steps of the event loop and timers; neither the grounding source nor the provider need ever
answer. Nothing justifies fairness of the automation cycle (it is started from outside, and
may crash each time), so nothing is said of what it must eventually do.

## 4. Known to fail

Properties the modules state that the code does not keep, beside the run above. None has a
run: each needs the instance named here. They are stated because a reader would expect them.

| Property | Module | To see it |
| --- | --- | --- |
| `NoSupersessionCycle` | `EvidenceCorrection` | 2 administrators: two walks before either commits. |
| `NeverPulledBack`, `PublishedIsSupported`, `NoDefinitionCycle` | `CertificateDefinition` | 2 administrators: a stale transition; requirements replaced between validation and publication; two walks. With one administrator all three hold. |
| `AuditedOnce`, `ConfirmsTrusted` | `CertificateIssuance` | 2 requests; Evidence invalidated before the pins are read. |
| `IssuedAsRequired` | `CertificateIssuance` | a definition reopened and edited during a request (`AllWrites`, `LegalMoves`). |
| `AuditNamesTheAction` | `CertificateLifecycle` | one key used for two actions. |
| `WithinLimit` | `AssessmentAttempt` | 1 request at a time, `MaxVersion` 1, `MaxNumber` 2, `MaxAttempts` 1, no operators: only completed attempts count. |
| `MappingWasInForce` | `LabEvidence` | a retry after the mission was published again. |
| `EscalatedAfterAttempt` | `LabSession` | a cycle hands a session over to operators before its resource was asked to be destroyed. |
| `PublishedFromReview` | `LabAuthoring` | 2 administrators; contradicts `lab-admin.ts` near 318 ("A lab is never published directly from draft — review is where the Founder looks"). |
| `CapacityKept` | `ProviderRollout` | containers are counted, then created. |
| `PlannedWritesLand` | `CurriculumImport` | a document in which two modules change places (`PairSwapped` after `Pair`), one operator, `Targets = {}`, `Budget` 4: positions are unique row by row. |
| `RepairComesFirst` | `MissionLesson` | `AskedAfterStop = TRUE`: committing a prediction reveals the stage after the fault (`packet-journey-presentation.ts:349`; its test at 723 says otherwise). |
| `NeverStranded` | `MissionLesson` | as an invariant of `MissionLessons`. At `challenge_me` the actions that repair a fault are withheld and a required journey stays stopped (contradicts `mission-steps.test.ts:590`); and a stage may be authored `stops` and not be the fault's, which validation permits (`instruction-interaction.ts:1021`, `:1364`), so that no repair concerns it. `OnlyAuthoringStrands`, which holds, says that there is nothing else. |
| `CommittedStays` | `MissionLesson` | a press computed from a render without the verdict puts the question back (`MissionInstruction.tsx:766`; `near-transfer-presentation.ts:197`). |
| `HistoryEndsInState` | `LearningProgress` | as an invariant of `LearnerProgress`: the stored order of events is that of `occurred_at`, the begin of their transactions. A completion begins, a start begins after it, sees no row and commits first: the row is completed, and the latest event says it was started. |
| `OfferCanBeStarted` | `LearningProgress` | guidance never evaluates prerequisites, though `learning-service.ts:148` says it folds them in. |
| `LoadingIsSaid`, `ExportIsOfTheView` | `CertificateReading` | a filter changed while a request is under way. |
| `AnswerIsShown`, `NothingFoundIsTrue` | `CurriculumSearch` | "Search for original instead" pressed while a search runs; another query submitted after nothing was found (comment at 262 of the view says otherwise). |
| `HighestIsTold` | `CurriculumSearch` | two published versions of a record of which only the lower matches. |
| `TagsAreOfOneEdit`, `ContextsAreOfOneEdit` | `StudentNotes` | two devices replace at once: both delete, both insert. |
| `NoWordIsAnId` | `HttpServer` | `PUT /notes/search` is answered by the route of one note. |

Observed while modelling, beyond these properties:

* *Evidence*: with a competency or course filter, records whose links could not be read are
  filtered out and the page says that none matches, though `evidence-portfolio.ts:86` says the
  broader portfolio is preserved; more records than the limit are cut off silently, and
  `totalCount` counts only what is shown (with `Limit` 1 `NothingWithheld` fails);
  `isCurrentProof` ignores a pending review. Reopening a retired definition rewrites what its
  certificates point at. An expired certificate, final to its readers, can still be revoked.
* *Assessments*: a crash between the stored result and the handoff leaves an attempt whose
  resubmission is a conflict and that no retry finds. `demonstrated_at` is overwritten by a
  later grant; a crash loses the transition event, two concurrent grants write it twice.
* *Labs*: a resource created for a session that ended meanwhile runs on until a cleanup.
* *Rollout*: the seeded registry ranks the mock provider before the container, so rollout
  reaches nobody while the mock fits (the instance has `ContainerFirst`); a failed latest
  canary does not revoke eligibility, and one in flight at a disablement arms it again; an
  error of `getIsolationStatus` or `runValidationProbe` escapes and leaks the container; a
  choice made before a suspension is provisioned after it.
* *Curriculum*: a failure between review and publication leaves the path in review though the
  command prints that rows remain drafts, and refuses to run again; two concurrent imports may
  store two versions that no later plan accepts; rules are upserted without a look at their
  target's publication.
* *Lessons*: at `show_me` and `help_me` predictions gate the advance though comments say
  otherwise; feedback on the last stage is never shown; a refreshed token remounts the lesson
  and loses its state.
* *Progress*: of the states a competency or mission may have, three are never written; a
  module whose missions are all retired keeps its course in progress; a failed reload keeps
  earlier answers though `LearningView.tsx:516` says the value becomes null; overlapping loads
  may show older progress.
* *Tutor*: the text of an excerpt is not checked to be part of the note; citations are keyed by
  id without kind; a permitted request may exceed the local provider's context; a resolution
  of `{}` throws, which `ai-tutor.ts:469` rules out.
* *Search*: the outcome `stale` of SEARCH-007 is unreachable; filters hidden while there are no
  results stay in force; for queries without an alias the bounded read by stable id may cut
  off a match in a title. The notes search reads blocks only of notes whose title or body
  matched, and takes its window before it filters by tag or context.
* *Notes*: the contents of a note are lost when the second query of a replacement fails; a mix
  of edits is possible once clients number blocks differently; the answer to a replacement of
  tags is what was asked, not what is stored; bookmarks without a version may repeat.
* *Certificates*: the portfolio's `totalCount` leaves out unavailable entries
  (`certificate-portfolio.ts:87`). Of the eligibility page, which is not modelled: a message
  about one certificate stays when another is selected.

Stated without a run of their own, because others say more. Proved: the type invariants of
section 5, `PublishedFrozen`, `OneLive` (under an index that `OneLiveSession` shows to
suffice), `OneEventPerKey`, `OneDecisionPerKey`, `ConstraintsNeverHit`, `ConstraintNeverHit`,
`AnnouncedIsIssued`, `MeetsDefinition` (without reopening), `GrantsAreEarned`, `NoConflict`,
`ResultsStay`, `ProviderConfirmed`, `CompletionEarned`, `StepsStayRevealed`. Checked while
modelling: the other type invariants, `FinalStatusStays`, `ReportedIsStored`,
`AttemptsAreEarned`, `SentIsPermitted`.

## 5. Proofs

Each theorem holds for every value of the constants, under the named assumption of its module
(`EvidenceCorrectionAssumption` and so on) alone: null values are outside the sets they stand
beside, inputs are what the validators let through, bounds are natural numbers. TLC evaluates
these assumptions in every run. Five theorems have a hypothesis of their own, stated with
them: `AllIsPresented`, `CertificatesMeetDefinitions`, `BlocksOfOneEdit`, `WorkedInOrder`
and `StaysReimportable`.

The arguments have one shape. A property relates what a request *writes* to what it *read*
some round trips earlier, so it is not inductive; the invariant adds what of the reading is
still so at each step, and why: because what was read never changes, because a lock is held,
or because a constraint will refuse the write otherwise. Proofs that go through many actions
classify them first (which steps write which table, where a handler may go from each step),
so that each conjunct is proved against a handful of cases.

**Evidence review** (`EvidenceCorrectionProofs`)

* `TypeCorrect`, and `AlwaysReplays`: `HistoriesReplay`. The strengthening
  (`RequestsKnowAPrefix`) says of a request about to insert that *if its sequence number is
  still free*, its history is as long as it was when read, so that the state it replayed to is
  still the state at the end and its transition still permitted. Histories only grow and
  sequence numbers are 1..n, so a request whose history grew finds its number taken.
* `AtMostOncePerKey`: `OneEventPerKey`, from the key constraint at the insert.
* `ReplacementIsShown`: `ReplacementMatchesState`; the last event of a history that replays
  decides both the state and the replacement.
* `SuccessIsBacked`: `AnswersAreBacked`; an event found or inserted under a key stays in the
  history, which only grows.
* `Implements`: every step is a `Correct` of `EvidenceTrust` or leaves its variables alone,
  from the invariant of `AlwaysReplays`.

**Reading Evidence** (`EvidenceCorrectionProofs`)

* `ReferencesStay`: `ReferencesAreForGood`; `ToldFromOneMoment`: `ToldTogether`;
  `AllIsPresented`: `NothingWithheld`, *if* the student's records fit in one portfolio
  (`FewEnough`; more are cut off, see section 4); `ImplementsUnderReaders`: `ImplementsTrust`
  of the composition. `ReadInv` says of a view that it has one request or none (`ViewFit`), and
  of a request, step by step (`LoadFit`), what it has in hand: the rows are distinct records of
  the student and miss none that was there when the reading began; the states read are those of
  one moment since, because all histories come from one query; a panel's answer carries
  references read back after the mint, and a reference once stored is never changed.
* What filters show of a list is a recursive function over it (`Picked`); that it keeps order,
  membership and distinctness is an induction over numbers (`NumberInduction`, as in the
  imports below).

**Attempts, lab runs and ingestion** (`EvidenceIntakeProofs`)

* The invariant is about three things at once: the tables repeat the stored result
  (`ProvenOnly`, `OutcomesRepeat`), what a request carries from a result is still the stored
  one (`Carries`), and how far a worker's ingestion has come (`Ingests`: until it links, all
  of the mapping is pending; what is not pending is linked; who rereads or links finds a
  record). `GoodStays` is the heart of it: a stored result, a record and a link are never
  taken back (`Grows`), so whatever one worker does, the jobs of the others stay sound.
* `TypeCorrect`; `ResultIsKept`: `ResultsStay`, from the conditional updates;
  `DerivedRepeats`: `DerivedFromResult`; `GrantedByPassing`: `GrantsAreEarned`;
  `NeverInConflict`: `NoConflict`, because every delivery offers the one proof of its attempt.
* `Implements`: `ImplementsLedger`, step by step: inserting is `Record`, linking `Link`, and
  the upserts `Consume` (nothing is pending and what is not pending is linked), `Skip` (an
  attempt whose version produces no Evidence is never recorded) and `Fail`.
* Lab runs: `LabTypeCorrect`; `OneAuthorityEach`: `OneLabAuthority`; `LabNeverInConflict`;
  `LabImplements`, the refinement of the same ledger. Where an attempt's stored result decides
  what every delivery offers, here the mission may be published again between deliveries, and
  it is the authority frozen with the handoff that decides: the first capture wins, later ones
  read it back. `RunsProven` (what is recorded proves the run under the frozen authority, links
  stay within its mapping) and `LabCarries` (a worker past the capture offers exactly that)
  hold each other up; a decided run and a frozen authority never change, so what a worker
  carries stays true while others work.

**Certificate Definitions** (`CertificateDefinitionProofs`)

* `TypeCorrect`; `Implements`: `ImplementsRows`, and with it `StaysFrozen`: `PublishedFrozen`.
  The invariant: the row that was judged is there (`JudgedIsThere`), one transaction at a time
  has run the triggers of a row (`OneCommits`, the row lock), and so what the freeze trigger
  saw is still so at the commit (`CommitIsLawful`). Everything read before the trigger may be
  stale; the refinement does not rest on it. That there is a next version number needs the
  least-number principle, which comes from `NatLessThanWellFounded`.
* Labs: `LabAuthoringTypeCorrect`; `PassedMeansDemonstrated`: `PassedShowsSomething`. Every
  UPDATE rests on a stale read, so the invariant cannot say that a published definition has a
  required check published now (a profile may be retired under it). It says that its profile is
  `Anchored`: some required check is published *whenever any check of the profile is*. Checks
  that were published together move together, none is removed, and what is added meanwhile
  starts as a draft, so an anchor is never lost (`ChecksNext`); a request that read the checks
  found one and keeps it until its UPDATE (`AdminKnows`), and a validation that read published
  checks of a visible definition has a required one among them (`StudentKnows`).

**Issuance** (`CertificateIssuanceProofs`), over the two abstract modules

* `TypeCorrect`; `NeverTwice`: `ConstraintNeverHit`, and `PublishedWhenIssued`:
  `IssuedWhilePublished`, from `LocksHeld` and `InsertIsDue` (under the lock nothing changes
  what `IssueCheck` saw).
* `RestsOnEvidence`: `RestsOnOwnEvidence`, from `FoundIsOwn` (links, owners and outcomes never
  change) and `RequiredIsFound` (the decision left no requirement without a record).
* `AnnouncementsAreTrue`: `AnnouncedIsIssued`, from `LoadsWhatIsThere`.
* `CertificatesMeetDefinitions`: `MeetsDefinition`, *if* administrators make the transitions
  the authoring service permits except the reopening of a retired definition
  (`NothingReopened`, which the instance of `Issuance` satisfies). It rests on `ReadIsPublic`
  and `CertifiedIsPublic`: requirements are read of a definition that is or was published, and
  the trigger keeps those. With reopening it is false (`IssuedAsRequired` in section 4).

**Certificate lifecycle** (`CertificateLifecycleProofs`)

* `TypeCorrect`, `LockedReadsStay`, `AlwaysAgree`, `DecidesOnce`, `Implements`: `TypeOK`,
  `ConstraintsNeverHit`, `HistoriesAgree`, `OneDecisionPerKey` and the refinement of
  `CertificateStatus`. The invariant adds that row locks exclude one another (`LocksExclude`:
  two requests past the lock are about different certificates) and that what a request holds
  is still so (`HeldIsCurrent`: the history is as long as it was, of the status read, the edge
  is approved and the key unspent). `Quiet` collects the steps that neither write a history
  nor grant a lock; they keep all of it. Granting a lock establishes `Current` from what is
  there; a commit changes one certificate, which by exclusion nobody else holds.
* Readers: `ReadingTypeCorrect`; `AlwaysToldAsItWas`: `ToldAsItWas`; `FiltersAreAnswered`:
  `ShowsItsFilters`; `ImplementsUnderReaders`: `ImplementsStatus` of the composition. `Truthful`
  follows a reading through its queries: what it read was recorded at some moment since it
  began, a moment of lateness it computed with has passed, and "expired" is never recorded, so
  that what it tells is one or the other. `Sound` adds that a view that is open has at most one
  live request, the one its displayed filters were sent with.

**Lab sessions** (`LabProofs`)

* `TypeCorrect`, which needs `Counted`: one handler at most runs the open operation of a
  session, and a reset counts from below the limit.
* `OneProvisions`: `ProvisionedOnce`. `InsertedFirst`, `Unclaimed`, `Claimed`, `Held`: a
  session that may still be claimed has no resource, the claim is one handler's alone, and the
  session leaves the states that can be claimed for good. The compare-and-set of the claim is
  what carries it; every other write may be late.
* `GivenUpStays`: `NotRevived`. `OneLiveSession`: `OneLive`. `ConfirmedByProvider`:
  `ProviderConfirmed`, from `Held` (what is referenced has been provisioned).

**Provider rollout** (`LabProofs`)

* `RolloutTypeCorrect`; `EnabledOnlyEarned`: `EnabledIsEarned`, from `EligibleIsEarned`: wherever an
  activation may take the provider from, a canary passed since it was last off.
* `AuthorizedRecently`: `FreshAuthorization`. `CopyIsBacked`, `QueryIsYoung`,
  `ReadingIsBacked` and `ChoiceIsFresh` follow an authorization from the registry through a
  query that takes at most `Latency`, into the copy, and out of it within `TTL`, however
  queries overlap, fail or arrive out of order.

**Learning progress** (`LearningProofs`)

* `TypeCorrect`; `BegunWhenEntitled`: `StartedIsEntitled`, from `EvaluationHolds`: completion
  times and satisfactions are never taken back, so what was evaluated in earlier transactions
  is still so at the write. `RowsAreDated` is needed because a state *may* be taken back
  (`ProgressRegression`) and only the date stays.
* `EventsExplainTheRow`: `HistoryExplainsRow`, for any number of tabs and events. The order it
  claims is the order of commits, which is not stored; the proof extends it by the event each
  write adds (`ToldLast`, `ExplainsLonger`). That this tells every event once needs
  `EventsAreFresh`: no event stored, and no other request under way, has the time of a request
  that is yet to write. What was seen of a row is current because it is locked
  (`SeenIsLocked`), so an event goes on from the one before it, and none is due only where the
  row already says what is written (`ExplainsAgain`). `CompletionIsKept`: the time of the first
  completion never changes.
* `OffersAreTrue`: `OfferIsTrue`, for any tree of missions. Two readings go on at once and each
  takes a query per module. `GuideInv` ties them to what was so while the page was loaded: the
  ghosts `ever` and `always` begin when the readings do (`ReadTogether`); what a reading of the
  tree has found was published at some moment, and what was published all the time it has
  found or has yet to read (`TrueReading`); an answer is true of these when it is given, and
  stays so, since `ever` only grows and `always` only shrinks. What an answer picks from the
  tree, the first mission of an order or the last one worked on, is `FlattenSeq` as a recursive
  function (`TreeHolds`), and a largest and a smallest element (`NatLessThanWellFounded`).

**A mission's lesson** (`LearningProofs`)

* `LessonTypeCorrect`; `BelongsToItsMission`: `InstructionBelongs`, and `VerdictsAreTrue`:
  `VerdictIsOfAnswer`. `LessonInv`: a lesson is mounted only under an answer of the open
  mission (`Remounted`: every change of the request or the selection renders again); what was
  last rendered and what is stored are both `Judged`, so a press computed from a stale render
  can put back only verdicts that are true; and a check under way is of a question of the
  mounted lesson, in its version (`ChecksOpen`). That the active question is one of the step
  needs the least-number principle again.
* `PredictedFirst`, and `WorkedInOrder`: `JourneyInOrder`, *if* no journey asks for a
  prediction of the stage after its stop (`NoPredictionPastStop`; without it `RepairComesFirst`
  is false, as section 4 says). `MovesInOrder` goes through the controls of the pane, for every
  journey that passes the authoring rules, as the server sends it at every level.
* `StepsAreKept`: `StepsStayRevealed`, and `CompletedWhenDone`: `CompletionEarned`. `GoesOn`:
  no step of a lesson that stays mounted takes back an acknowledgement or a finished activity,
  so what a report called done is still done while its generation lasts (`ReportHolds`).
* `StrandedOnlyWhereAuthored`: `OnlyAuthoringStrands`, of every lesson authors may write, at
  every level, without a hypothesis. `MovesOn` shows of any journey in any state a learner can
  bring it to that some beat offers a control that takes it further (another stage, another
  check, the repair: none of which is lost but by starting over) unless the stage shown stops,
  its repair is not sent or it is not the fault's, and the next asks no prediction. That the
  state is one a learner can reach is `LessonInv` with `InOrder`, whose part on predictions
  (only of stages that are shown) is what rules out a stage that waits for a
  prediction already given.

**Notes, search, the server and the tutor** (`ContentProofs`)

* `BlocksOfOneEdit`: `BlocksAreOfOneEdit`, *if* edits number their blocks alike
  (`NumberedAlike`: two edits that have blocks have two at the same position, as when both
  number from zero; the instance's edits do). The API asks only that positions are natural
  numbers, and without this two edits may be mixed. The unique constraint then lets a second
  edit in only where there are no blocks (`InsertsIntoNone`).
* `OnlyTheTrusted`: `OnlyTheTrustedAct`. `Recorded` ties the ghosts to the accounts: the role
  now held is one that was held, and a token still valid was valid when the request arrived.
  Each read then adds what it found (`Asking`), and what acts (`Acting`) has passed the guard
  of its route. Nothing is assumed of the route table: any route may answer.
* `ShowsWhatWasAsked`: `ShowsItsSearch`. `SearchInv`: at most one search runs, the page waits
  for it exactly as long, and its words and filters are those the page displays.
* `AnswersStayGrounded`: `AnswersAreGrounded`, for any sources and providers, which may return
  anything at any moment. `TurnInv`: from resolution to the end the grounding is `Grounded`: it
  is general exactly when nothing was asked for, and its segments are of references that were.
  The latter goes through the selection: what normalisation leaves is what was asked (`Where`),
  what is ordered has such a reference, and what the budget takes (`Take`, one segment after
  another) was in the order.

**Curriculum imports** (`ContentProofs`), for any document that passes its validator, any
number of operators and any transitions between their round trips

* `PublishedStay`: `PublishedNodesStay`. `RowsListed` says that the versions of a stable id
  are a list; the UPDATE of a node is conditional on its being a draft, whatever the plan was
  computed from.
* `ReferencesStay`: `ReferencesResolve`. `ImportInv` is about what each job has still to do:
  its round trips are `Ready`, that is, the assets a step names are written earlier in the
  list, or are stored with the mission's row and no insert can change which row that is. What
  is stored is `Closed` under references, and grows; so one operator's round trip keeps the
  lists of all others ready. The heart is that a plan computed from stale reads is ready too:
  what it skips as "reuse" was stored when read and is not removed.
* `StaysReimportable`: `Reimportable`, *if* the document only adds to its earlier edition
  (`OnlyAdds`: it keeps parents, pieces, links, edges and the keys of rules; what it drops the
  planner refuses by design, and no import can change that). `SoundInv`: everything stored,
  and everything a job is about to store, is authored by the document, under the parent the
  document gives it. With one version of each stable id and all drafts, no action of a plan
  can then be a refusal.
* The list of round trips is a chain of lists, a recursive function over the sections of the
  document (`Chain`). What the proofs need of it (`ChainInTurn`: each entry comes from one of
  the lists, all entries of a list are there, and lists follow one another in turn) is an
  induction over numbers, from `NatLessThanWellFounded` applied to a *set* of numbers
  (`NumberInduction`), which needs no theorem with an operator parameter.
* `InLists`, in the module's assumption, says that the sections of a document are sequences,
  in the order in which an import goes through them: parents before children and assets before
  the steps that name them. The document's format and `executeReconciliationPlan` give this;
  the model keeps the order as data so that TLC and the proofs see it.

Only model-checked, and why:

* Liveness (`RequestsEnd`, `TurnEnds`): fairness and `ENABLED` are beyond the prover.
* The absence of circles: reachability in chains needs induction over paths.
* `RankedAsIfUnbounded` compares a bounded search with a ranking of everything. It holds where
  the bounds suffice for the records there are and each has one published version
  (`HighestIsTold` in section 4), so it is a statement about the instance's sizes; and its
  order is that of `SetToSortSeq`, an operator that takes an operator.
* `NoneIsShadowed` is about one route table, of the code and not of the constants: the run goes
  through all of it.

No module declares a RECURSIVE operator: chains use `TransitiveClosure` of the community
module `Relation`, recursion over data is a recursive function or a fold.

## 6. Plan

1. *Done*: all components of 1.1, as far as 7 says; the theorems of section 5.
2. *Proofs next*: `RankedAsIfUnbounded`, with its sorting written as a recursive function;
   `ReportedIsStored`, `AttemptsAreEarned` and `SentIsPermitted`, which have no run of their own.
3. *Models*: the eligibility page over `RecordView`; the search over notes; authoring of
   curriculum over HTTP.

## 7. Not modelled

* Drawing, wording and layout of the web application, its other views and sign-in; the
  eligibility page (`CertificateEligibilityView`).
* Audit, logging, correlation ids: no protocol among actors.
* Scoring of single questions, authoring of assessments, topology layout: pure computations on
  data that nothing here depends on.
* The search over notes beyond its being answered, the export of notes, search documents and
  freshness: they read.
* Dry runs of imports, single-item authoring over HTTP (it uses the writers modelled).
* The container engine, the mock provider's internals, PostgreSQL itself, except row locks,
  snapshots, unique constraints and deadlock detection as the code relies on them.

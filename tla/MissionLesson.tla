----------------------------- MODULE MissionLesson -----------------------------
(***************************************************************************)
(* One learner's browser reading missions (LearningView, MissionInstruction*)
(* and the activities inside a lesson) against the server that serves and  *)
(* judges them while missions are published and retired.                   *)
(*                                                                         *)
(* React is modelled where the code leans on it.  A press is a discrete    *)
(* event: its handler reads the last RENDERED state and its own render and *)
(* effects come before anything else.  The answer of a request updates the *)
(* state in one step and is rendered in a later one, and the effects of a  *)
(* render that no press caused run later still.                            *)
(***************************************************************************)
EXTENDS PacketJourney, FiniteSetsExt

CONSTANTS
    MissionIds, NoneOpen,
    Lesson,            \* Lesson[m][v]: the authored steps of version v of m
    Published0,        \* the versions published at the start, per mission
    NoQuestion,
    MaxGeneration,     \* bound: renderings of a lesson in one behaviour
    MaxReleases        \* bound: publications and retirements in one behaviour

ASSUME MissionsAssumption ==
    /\ NoneOpen \notin MissionIds
    /\ DOMAIN Published0 = MissionIds
    /\ \A m \in MissionIds : Published0[m] \subseteq DOMAIN Lesson[m]
    /\ \A m \in MissionIds : \A v \in DOMAIN Lesson[m] : Lesson[m][v] \in Seq(ToSet(Lesson[m][v]))
    /\ \A m \in MissionIds : \A v \in DOMAIN Lesson[m] : \A i \in DOMAIN Lesson[m][v] :
          LET step == Lesson[m][v][i]
          IN  /\ step.kind \in {"prose", "interaction", "near_transfer"}
              /\ step.kind = "interaction" => ValidInteractionStep(step)
              /\ step.kind = "near_transfer" => DOMAIN step.questions \subseteq Nat

ASSUME BoundsAssumption == MaxGeneration \in Nat /\ MaxReleases \in Nat

VARIABLES
    publishedVersions,   \* the server's published versions, per mission
    releases,    \* how many publications and retirements there were
    selected,    \* the mission open in the browser
    fetch,       \* the instruction request in flight, as the server has it
    request,     \* the tagged state the view holds of it
    generation,  \* which rendering of a lesson this is
    due,         \* a render whose fetch effect has not run
    reported,    \* the last word of a lesson on its required instruction
    lesson,      \* the mounted lesson's own state, or NoLesson
    seen,        \* its near-transfer state as last rendered
    checks,      \* answers the server was asked to judge
    recording    \* the progress call in flight

server == <<publishedVersions, releases>>
view == <<selected, request, generation, due, reported>>
lessonVars == <<server, view, fetch, lesson, seen, checks, recording>>

NoLesson == [mission |-> NoneOpen]
NoFetch == [at |-> "none"]
NotRecording == [mission |-> NoneOpen, action |-> "none"]
NoReport == [mission |-> NoneOpen, generation |-> 0, state |-> "none"]
NotAsked == [status |-> "idle", mission |-> NoneOpen]

Steps(m, v) == Lesson[m][v]

-----------------------------------------------------------------------------
(* Near-transfer: one step's state, by question.                           *)

Questions(step) == {step.questions[i].id : i \in DOMAIN step.questions}
Question(step, q) == step.questions[CHOOSE i \in DOMAIN step.questions : step.questions[i].id = q]

InitialNearTransfer(step) ==
    [selection |-> [q \in Questions(step) |-> {}], committed |-> {}, acknowledged |-> {},
     results |-> [q \in Questions(step) |-> "none"],
     checking |-> NoQuestion, checkFailed |-> NoQuestion, versionUnavailable |-> NoQuestion]

ToggleOption(state, question, option) ==
    IF question.id \in state.committed \/ state.checking = question.id THEN state
    ELSE [state EXCEPT !.selection[question.id] =
            IF ~question.multiple THEN {option}
            ELSE IF option \in @ THEN @ \ {option} ELSE @ \cup {option}]

CanCommit(state, q) ==
    q \notin state.committed /\ state.checking # q /\ state.selection[q] # {}

BeginCheck(state, q) ==
    IF ~CanCommit(state, q) THEN state
    ELSE [state EXCEPT !.checking = q, !.checkFailed = NoQuestion,
                       !.versionUnavailable = NoQuestion]

FailCheck(state, q) ==
    IF state.checking # q THEN state
    ELSE [state EXCEPT !.checking = NoQuestion, !.checkFailed = q]

FailCheckVersionUnavailable(state, q) ==
    IF state.checking # q THEN state
    ELSE [state EXCEPT !.checking = NoQuestion, !.versionUnavailable = q]

Unless(q, value) == IF value = q THEN NoQuestion ELSE value

CommitAnswer(state, q, chosen, result) ==
    IF q \in state.committed \/ chosen = {} THEN state
    ELSE [state EXCEPT !.selection[q] = chosen, !.committed = @ \cup {q},
                       !.results[q] = result, !.checking = Unless(q, @),
                       !.checkFailed = Unless(q, @), !.versionUnavailable = Unless(q, @)]

AcknowledgeAnswer(state, q) ==
    IF q \notin state.committed THEN state
    ELSE [state EXCEPT !.acknowledged = @ \cup {q}]

Unacknowledged(step, state) ==
    {i \in DOMAIN step.questions : step.questions[i].id \notin state.acknowledged}

IsSettled(step, state) == Unacknowledged(step, state) = {}

(* The first question not acknowledged, in authored order.                 *)
ActiveQuestion(step, state) == step.questions[Min(Unacknowledged(step, state))]

Asking(step, state) ==
    ~IsSettled(step, state) /\ ActiveQuestion(step, state).id \notin state.committed

-----------------------------------------------------------------------------
(* Which steps wait, and what the lesson reports.                          *)

LessonSteps == Steps(lesson.from, lesson.version)

Required(step) ==
    step.kind = "near_transfer" \/ (step.kind = "interaction" /\ step.required)

Satisfied(steps, nt, settled, i) ==
    IF steps[i].kind = "near_transfer" THEN IsSettled(steps[i], nt[i]) ELSE i \in settled

RequiredInstruction(steps, nt, settled) ==
    LET required == {i \in DOMAIN steps : Required(steps[i])}
    IN  IF \E i \in required : ~Satisfied(steps, nt, settled, i) THEN "outstanding"
        ELSE IF required = {} THEN "none" ELSE "satisfied"

(* The steps up to and including the first required one not satisfied.     *)
Visible(steps, nt, settled) ==
    {i \in DOMAIN steps :
        \A k \in 1..(i - 1) : Required(steps[k]) => Satisfied(steps, nt, settled, k)}

OnScreen == IF lesson = NoLesson THEN {} ELSE Visible(LessonSteps, seen, lesson.settled)

-----------------------------------------------------------------------------
(* The view's reading of its tagged state.                                 *)

(* Mutant: the answer's own mission is not asked for. *)
SourceOfAnyMission(r, m) ==
    IF r.status # "loaded" THEN "bundled"
    ELSE IF r.answer = "available" THEN "structured" ELSE "legacy"

(* The mission whose steps are rendered under mission m, if any. *)
InstructionSource(r, m) ==
    IF r.status # "loaded" \/ r.mission # m THEN "bundled"
    ELSE IF r.answer = "available" THEN "structured" ELSE "legacy"

ExpectsStructuredInstruction(r, m) ==
    \/ r.status = "idle"
    \/ r.mission # m
    \/ r.status = "loading"
    \/ r.status = "loaded" /\ r.answer = "available"

ResolveReportedRequiredInstruction(m) ==
    IF reported.mission = m /\ reported.generation = generation THEN reported.state
    ELSE IF ExpectsStructuredInstruction(request, m) THEN "outstanding" ELSE "none"

(* Loading, saving and the progress on record only narrow this further.    *)
CanComplete == ResolveReportedRequiredInstruction(selected) # "outstanding"

(* The lesson a render of request r under mission m leaves mounted.        *)
Mounted(r, m) ==
    IF m = NoneOpen \/ InstructionSource(r, m) # "structured" THEN NoLesson
    ELSE IF lesson # NoLesson /\ lesson.mission = m THEN lesson
    ELSE LET steps == Steps(r.mission, r.version)
             of(kind) == {i \in DOMAIN steps : steps[i].kind = kind}
         IN  [mission  |-> m,
              from     |-> r.mission,
              version  |-> r.version,
              nt       |-> [i \in of("near_transfer") |-> InitialNearTransfer(steps[i])],
              settled  |-> {},
              journeys |-> [i \in of("interaction") |-> InitialJourney]]

Remount(r, m) ==
    /\ lesson' = Mounted(r, m)
    /\ seen' = IF lesson' = NoLesson THEN << >> ELSE lesson'.nt
    /\ checks' = IF lesson' = lesson THEN checks ELSE {}

-----------------------------------------------------------------------------
(* The server's side: which versions are published.                        *)

Publish(m, v) ==
    /\ releases < MaxReleases
    /\ v \in DOMAIN Lesson[m] \ publishedVersions[m]
    /\ \A w \in publishedVersions[m] : w < v
    /\ publishedVersions' = [publishedVersions EXCEPT ![m] = @ \cup {v}]
    /\ releases' = releases + 1
    /\ UNCHANGED <<view, fetch, lesson, seen, checks, recording>>

Retire(m, v) ==
    /\ releases < MaxReleases
    /\ v \in publishedVersions[m]
    /\ publishedVersions' = [publishedVersions EXCEPT ![m] = @ \ {v}]
    /\ releases' = releases + 1
    /\ UNCHANGED <<view, fetch, lesson, seen, checks, recording>>

-----------------------------------------------------------------------------
(* Opening a mission, and its instruction request.                         *)

(* The outline, Continue, or no mission: a press, so no effect is due.     *)
SelectMission(m) ==
    /\ ~due
    /\ m # selected
    /\ generation < MaxGeneration
    /\ selected' = m
    /\ due' = TRUE
    /\ Remount(request, m)
    /\ UNCHANGED <<server, fetch, request, generation, reported, recording>>

(* A refreshed session: no press, and the handlers stay those of the last  *)
(* render until the effect has run.                                        *)
RefreshSession ==
    /\ ~due
    /\ selected # NoneOpen
    /\ generation < MaxGeneration
    /\ due' = TRUE
    /\ UNCHANGED <<server, selected, request, generation, reported, fetch, lesson, seen,
                   checks, recording>>

(* The reload offered beside an answer whose version is gone.              *)
ReloadInstruction(i) ==
    /\ ~due
    /\ generation < MaxGeneration
    /\ i \in OnScreen
    /\ LessonSteps[i].kind = "near_transfer"
    /\ Asking(LessonSteps[i], seen[i])
    /\ seen[i].versionUnavailable = ActiveQuestion(LessonSteps[i], seen[i]).id
    /\ due' = TRUE
    /\ UNCHANGED <<server, selected, request, generation, reported, fetch, lesson, seen,
                   checks, recording>>

(* The fetch effect: the old request is aborted, the state tagged, a new   *)
(* generation minted, and the render this causes unmounts the lesson.      *)
FetchEffect ==
    /\ due
    /\ due' = FALSE
    /\ IF selected = NoneOpen
       THEN /\ request' = NotAsked
            /\ fetch' = NoFetch
            /\ UNCHANGED generation
       ELSE /\ request' = [status |-> "loading", mission |-> selected]
            /\ fetch' = [at |-> "asked", mission |-> selected]
            /\ generation' = generation + 1
    /\ Remount(request', selected)
    /\ UNCHANGED <<server, selected, reported, recording>>

(* readPublishedMissionSteps: the highest published version ...            *)
ResolveMission ==
    /\ fetch.at = "asked"
    /\ publishedVersions[fetch.mission] # {}
    /\ fetch' = [at |-> "resolved", mission |-> fetch.mission,
                 version |-> Max(publishedVersions[fetch.mission])]
    /\ UNCHANGED <<server, view, lesson, seen, checks, recording>>

(* ... then its steps, for which the publication is asked again: a version *)
(* retired in between has no rows, and none is a mission of briefs.        *)
InstructionLoaded ==
    /\ ~due
    /\ fetch.at = "resolved"
    /\ LET m == fetch.mission
           found == fetch.version \in publishedVersions[m] /\ Steps(m, fetch.version) # << >>
       IN  request' = IF found
                      THEN [status |-> "loaded", mission |-> m, answer |-> "available",
                            version |-> fetch.version]
                      ELSE [status |-> "loaded", mission |-> m, answer |-> "legacy_brief"]
    /\ fetch' = NoFetch
    /\ Remount(request', selected)
    /\ UNCHANGED <<server, selected, generation, due, reported, recording>>

(* Nothing published, or a failure on the way.                             *)
InstructionFailed ==
    /\ ~due
    /\ fetch # NoFetch
    /\ request' = [status |-> "error", mission |-> fetch.mission]
    /\ fetch' = NoFetch
    /\ Remount(request', selected)
    /\ UNCHANGED <<server, selected, generation, due, reported, recording>>

-----------------------------------------------------------------------------
(* The lesson's report, an effect of its render.                           *)

Report ==
    [mission    |-> lesson.mission,
     generation |-> generation,
     state      |-> RequiredInstruction(LessonSteps, seen, lesson.settled)]

ReportEffect ==
    /\ lesson # NoLesson
    /\ reported # Report
    /\ reported' = Report
    /\ UNCHANGED <<server, selected, request, generation, due, fetch, lesson, seen, checks,
                   recording>>

-----------------------------------------------------------------------------
(* The activities of the lesson on screen.                                 *)

OnStep(i, kind) ==
    /\ ~due
    /\ i \in OnScreen
    /\ LessonSteps[i].kind = kind

Parameters(i) == Projected(LessonSteps[i].journey, LessonSteps[i].level)

KeepView == UNCHANGED <<server, view, fetch, recording>>

WorkJourney(i) ==
    /\ OnStep(i, "interaction")
    /\ ~WithholdsEntireInteraction(LessonSteps[i].level)
    /\ \E next \in JourneyMoves(Parameters(i), lesson.journeys[i], LessonSteps[i].level)
                   \cup BeatMoves(Parameters(i), lesson.journeys[i], LessonSteps[i].level) :
          lesson' = [lesson EXCEPT !.journeys[i] = next]
    /\ UNCHANGED <<seen, checks>> /\ KeepView

StartOver(i) ==
    /\ OnStep(i, "interaction")
    /\ ~WithholdsEntireInteraction(LessonSteps[i].level)
    /\ lesson' = [lesson EXCEPT !.journeys[i] = ResetJourney(@)]
    /\ UNCHANGED <<seen, checks>> /\ KeepView

(* Finish: offered at the authored end, to an activity something waits on. *)
OffersFinish(i) ==
    /\ LessonSteps[i].required
    /\ i \notin lesson.settled
    /\ Finished(Parameters(i), lesson.journeys[i])

FinishActivity(i) ==
    /\ OnStep(i, "interaction")
    /\ ~WithholdsEntireInteraction(LessonSteps[i].level)
    /\ OffersFinish(i)
    /\ lesson' = [lesson EXCEPT !.settled = @ \cup {i}]
    /\ UNCHANGED <<seen, checks>> /\ KeepView

(* onChange: what the rendered state becomes replaces the state.           *)
Change(i, next) ==
    /\ lesson' = [lesson EXCEPT !.nt[i] = next]
    /\ seen' = lesson'.nt
    /\ UNCHANGED checks /\ KeepView

Toggle(i) ==
    /\ OnStep(i, "near_transfer")
    /\ Asking(LessonSteps[i], seen[i])
    /\ LET question == ActiveQuestion(LessonSteps[i], seen[i])
       IN  \E option \in question.options : Change(i, ToggleOption(seen[i], question, option))

Acknowledge(i) ==
    /\ OnStep(i, "near_transfer")
    /\ ~IsSettled(LessonSteps[i], seen[i])
    /\ ~Asking(LessonSteps[i], seen[i])
    /\ Change(i, AcknowledgeAnswer(seen[i], ActiveQuestion(LessonSteps[i], seen[i]).id))

Submit(i) ==
    /\ OnStep(i, "near_transfer")
    /\ Asking(LessonSteps[i], seen[i])
    /\ LET q == ActiveQuestion(LessonSteps[i], seen[i]).id
       IN  /\ CanCommit(seen[i], q)
           /\ lesson' = [lesson EXCEPT !.nt[i] = BeginCheck(@, q)]
           /\ seen' = lesson'.nt
           /\ checks' = checks \cup {[at |-> "asked", step |-> i, question |-> q,
                                      version |-> lesson.version,
                                      chosen |-> seen[i].selection[q]]}
    /\ KeepView

(* The answer of a check updates the state, and is rendered later.         *)
Settle(check, next) ==
    /\ lesson' = [lesson EXCEPT !.nt[check.step] = next]
    /\ checks' = checks \ {check}
    /\ UNCHANGED seen /\ KeepView

RenderAnswers ==
    /\ lesson # NoLesson
    /\ seen # lesson.nt
    /\ seen' = lesson.nt
    /\ UNCHANGED <<lesson, checks>> /\ KeepView

-----------------------------------------------------------------------------
(* Judging an answer: exactly the version the learner opened, asked for    *)
(* again if its steps come back empty.                                     *)

ResolveExactVersion(check) ==
    /\ check.at = "asked"
    /\ check.version \in publishedVersions[lesson.from]
    /\ checks' = (checks \ {check}) \cup {[check EXCEPT !.at = "resolved"]}
    /\ UNCHANGED <<lesson, seen>> /\ KeepView

VersionUnavailable(check) ==
    /\ check.version \notin publishedVersions[lesson.from]
    /\ Settle(check, FailCheckVersionUnavailable(lesson.nt[check.step], check.question))

(* Mutant: what is published now decides. *)
JudgedHighest(check) == Max(publishedVersions[lesson.from])

(* The version whose authored answer decides: the one resolved. *)
JudgedVersion(check) == check.version

Verdict(m, v, i, q, chosen) ==
    IF chosen = Question(Steps(m, v)[i], q).key THEN "right" ELSE "wrong"

CheckAnswered(check) ==
    /\ check.at = "resolved"
    /\ check.version \in publishedVersions[lesson.from]
    /\ Settle(check,
              CommitAnswer(lesson.nt[check.step], check.question, check.chosen,
                           Verdict(lesson.from, JudgedVersion(check), check.step,
                                   check.question, check.chosen)))

CheckFailed(check) ==
    Settle(check, FailCheck(lesson.nt[check.step], check.question))

-----------------------------------------------------------------------------
(* Recording progress: one call at a time.                                 *)

RecordProgress(action) ==
    /\ selected # NoneOpen
    /\ recording = NotRecording
    /\ action = "complete" => CanComplete
    /\ recording' = [mission |-> selected, action |-> action]
    /\ UNCHANGED <<server, view, fetch, lesson, seen, checks>>

RecordAnswered ==
    /\ recording # NotRecording
    /\ recording' = NotRecording
    /\ UNCHANGED <<server, view, fetch, lesson, seen, checks>>

-----------------------------------------------------------------------------
LessonInit ==
    /\ publishedVersions = Published0
    /\ releases = 0
    /\ selected = NoneOpen
    /\ fetch = NoFetch
    /\ request = NotAsked
    /\ generation = 0
    /\ due = FALSE
    /\ reported = NoReport
    /\ lesson = NoLesson
    /\ seen = << >>
    /\ checks = {}
    /\ recording = NotRecording

Release ==
    \E m \in MissionIds : \E v \in DOMAIN Lesson[m] : Publish(m, v) \/ Retire(m, v)

Open ==
    \/ \E m \in MissionIds : SelectMission(m)
    \/ RefreshSession
    \/ \E i \in OnScreen : ReloadInstruction(i)
    \/ FetchEffect
    \/ ResolveMission
    \/ InstructionLoaded
    \/ InstructionFailed
    \/ ReportEffect

Study ==
    \/ \E i \in OnScreen : WorkJourney(i) \/ StartOver(i) \/ FinishActivity(i)
    \/ \E i \in OnScreen : Toggle(i) \/ Acknowledge(i) \/ Submit(i)
    \/ RenderAnswers

Judge ==
    \E check \in checks :
        \/ ResolveExactVersion(check)
        \/ VersionUnavailable(check)
        \/ CheckAnswered(check)
        \/ CheckFailed(check)

LessonNext ==
    \/ Release
    \/ Open
    \/ Study
    \/ Judge
    \/ \E action \in {"start", "complete"} : RecordProgress(action)
    \/ RecordAnswered

LessonSpec == LessonInit /\ [][LessonNext]_lessonVars

-----------------------------------------------------------------------------
(* Properties.                                                             *)

LessonTypeOK ==
    /\ \A m \in MissionIds : publishedVersions[m] \subseteq DOMAIN Lesson[m]
    /\ releases \in 0..MaxReleases
    /\ selected \in MissionIds \cup {NoneOpen}
    /\ request.status \in {"idle", "loading", "loaded", "error"}
    /\ generation \in 0..MaxGeneration
    /\ due \in BOOLEAN
    /\ reported.state \in {"none", "outstanding", "satisfied"}
    /\ lesson # NoLesson =>
          /\ DOMAIN seen = DOMAIN lesson.nt
          /\ lesson.settled \subseteq DOMAIN LessonSteps
    /\ recording.action \in {"none", "start", "complete"}

(* A lesson on screen is the open mission's: neither an answer that was in *)
(* flight nor one already held is ever rendered under another mission.     *)
InstructionBelongs ==
    lesson # NoLesson => lesson.mission = selected /\ lesson.from = selected

(* "Complete" is only ever sent for the open mission, and only when this   *)
(* rendering's own request has come back and nothing its lesson requires   *)
(* is outstanding: not on an earlier visit's word, nor another mission's,  *)
(* nor while the lesson is still on its way.                               *)
CompletionEarned ==
    [][(recording' # recording /\ recording'.action = "complete") =>
          /\ request.mission = selected
          /\ request.status \in {"loaded", "error"}
          /\ lesson # NoLesson =>
                RequiredInstruction(LessonSteps, lesson.nt, lesson.settled) # "outstanding"
      ]_lessonVars

(* A verdict on screen is the one the version the learner opened gives to  *)
(* the selection it is shown beside, whatever was published since.         *)
VerdictIsOfAnswer ==
    lesson # NoLesson =>
        \A i \in DOMAIN lesson.nt : \A q \in lesson.nt[i].committed :
            lesson.nt[i].results[q] =
                Verdict(lesson.from, lesson.version, i, q, lesson.nt[i].selection[q])

(* Traffic never passes a fault that is not repaired: no stage after the   *)
(* one where it stops is shown before the remediation.                     *)
RepairComesFirst ==
    lesson # NoLesson =>
        \A i \in DOMAIN lesson.journeys :
            LET p == Parameters(i)
                s == lesson.journeys[i]
            IN  p.fault # 0 /\ s.revealed > p.fault => FaultResolved(p, s)

(* At the strict sequencing no stage is shown that asks for a prediction   *)
(* the learner has not committed.                                          *)
PredictionComesFirst ==
    lesson # NoLesson =>
        \A i \in DOMAIN lesson.journeys :
            LET p == Parameters(i)
                s == lesson.journeys[i]
            IN  Sequencing(LessonSteps[i].level) = "commit_first" =>
                    \A k \in 1..s.revealed : p.stages[k].asks => k \in s.predicted

(* The activity is worked through in the order its author wrote.           *)
JourneyInOrder == RepairComesFirst /\ PredictionComesFirst

(* What the learner has reached stays on screen for as long as the lesson  *)
(* is: starting an activity over un-finishes nothing.                      *)
StepsStayRevealed ==
    [][lesson # NoLesson /\ lesson' # NoLesson /\ generation' = generation
       /\ lesson'.mission = lesson.mission => OnScreen \subseteq OnScreen']_lessonVars

(* A press takes the learner further: to another stage, past another       *)
(* check, or to the repair of the fault.  None of it is lost but by        *)
(* starting over, so enough such presses finish an activity.               *)
TakesFurther(p, before, after) ==
    \/ after.revealed > before.revealed
    \/ ~(after.answered \subseteq before.answered)
    \/ FaultResolved(p, after) /\ ~FaultResolved(p, before)

(* An activity the lesson waits on can neither be finished nor taken       *)
(* further by any control of any beat.                                     *)
Stuck(i) ==
    /\ LessonSteps[i].kind = "interaction" /\ LessonSteps[i].required
    /\ i \notin lesson.settled
    /\ ~OffersFinish(i)
    /\ LET p == Parameters(i)
           s == lesson.journeys[i]
           level == LessonSteps[i].level
       IN  \A b \in DOMAIN Beats(p, s, level) :
              \A next \in JourneyMoves(p, [s EXCEPT !.beat = b], level) :
                  ~TakesFurther(p, s, next)

(* Whatever was pressed in whatever order, a learner is stuck only where   *)
(* the authored traffic stops and nothing authored leads on: not before    *)
(* the first stage, not where traffic proceeds, not at a fault whose       *)
(* remediation is sent, and not where the next stage asks a prediction.    *)
OnlyAuthoringStrands ==
    lesson # NoLesson =>
        \A i \in OnScreen : Stuck(i) =>
            LET j == LessonSteps[i].journey
                k == lesson.journeys[i].revealed
            IN  /\ k > 0 /\ j.stages[k].outcome = "stops"
                /\ k = j.fault => WithholdsAnswers(LessonSteps[i].level)
                /\ k < Len(j.stages) => ~j.stages[k + 1].asks

(* Nothing blocks a learner permanently.  Not so: a challenge withholds    *)
(* the remediation, and any other stage may be authored to stop.           *)
NeverStranded == lesson # NoLesson => \A i \in OnScreen : ~Stuck(i)

(* "Idempotent, and never undone": a committed answer stays committed.  A  *)
(* press computed from a state rendered before the verdict puts back the   *)
(* check that was answered, so this does not hold.                         *)
CommittedStays ==
    [][lesson # NoLesson /\ lesson' # NoLesson /\ generation' = generation =>
          \A i \in DOMAIN lesson.nt :
              i \in DOMAIN lesson'.nt => lesson.nt[i].committed \subseteq lesson'.nt[i].committed
      ]_lessonVars
=============================================================================

---------------------------- MODULE LabEvidence ----------------------------
(***************************************************************************)
(* Lab validation runs turned into Evidence while the curriculum is        *)
(* republished (services/api/src/lab-evidence.ts, the end of               *)
(* validateLabSession in lab-runtime.ts, and lab_evidence_handoffs of      *)
(* migration 20260813000400).                                              *)
(*                                                                         *)
(* The competencies a run is linked to come from the mission version in    *)
(* force; the first consumer freezes them in the handoff, and every other  *)
(* one reads them back.                                                    *)
(***************************************************************************)
EXTENDS EvidenceIntake

CONSTANTS
    MaxMission,        \* bound: versions of the lab's mission that get published
    MissionMapping,    \* [1..MaxMission -> SUBSET Competencies]: mission_competencies
    Declared,          \* competencies the lab definition declares
    NoAuthority,       \* no handoff captured yet
    Operators          \* workers that retry consumption; the others serve students

RunState == {"none", "passed", "incomplete", "technical_error"}

\* The mapping authority of a run: the mission version (0: none published)
\* and the exact competency versions it maps to.
Authority == [mission : 0..MaxMission, mapping : SUBSET Competencies]

\* What the constants have to be.  The module is used through INSTANCE, and
\* the module that gives the constants their values assumes it there.
LabConstants ==
    /\ MaxMission \in Nat
    /\ MissionMapping \in [1..MaxMission -> SUBSET Competencies]
    /\ Declared \subseteq Competencies
    /\ NoAuthority \notin Authority
    /\ NoEvidence \notin Proof
    /\ Operators \subseteq Workers
    /\ Results = {"passed", "incomplete"} \X (0..MaxMission)

VARIABLES
    mission,     \* latest published version of the mission, 0 if none
    runs,        \* [Sources -> RunState]: lab_validation_runs
    inForce,     \* [Sources -> Authority]: what was in force when the run was stored
    frozen       \* [Sources -> Authority \cup {NoAuthority}]: lab_evidence_handoffs

labVars == <<mission, runs, inForce, frozen>>
vars == <<intakeVars, approved, work, labVars>>

LabJob ==
    [step : {"facts", "frozen", "mission", "readback"}, source : Sources]
    \cup [step : {"mapping"}, source : Sources, mission : 0..MaxMission]
    \cup [step : {"capture"}, source : Sources, authority : Authority]

TypeOK ==
    /\ IntakeTypeOK
    /\ work \in [Workers -> {Idle} \cup IntakeJob \cup LabJob]
    /\ mission \in 0..MaxMission
    /\ runs \in [Sources -> RunState]
    /\ inForce \in [Sources -> Authority]
    /\ frozen \in [Sources -> Authority \cup {NoAuthority}]

\* What resolveCurrentMappingAuthority yields from a mission version: declared
\* and published competencies only, and nothing without either.
Resolve(m) ==
    IF Declared = {} \/ m = 0
    THEN [mission |-> 0, mapping |-> {}]
    ELSE [mission |-> m, mapping |-> MissionMapping[m] \cap Declared \cap approved]

Init ==
    /\ IntakeInit
    /\ mission \in 0..MaxMission
    /\ approved = UNION {MissionMapping[m] : m \in 1..mission}
    /\ runs = [s \in Sources |-> "none"]
    /\ inForce = [s \in Sources |-> [mission |-> 0, mapping |-> {}]]
    /\ frozen = [s \in Sources |-> NoAuthority]

Continue(w, job) == work' = [work EXCEPT ![w] = job]

KeepLab == UNCHANGED <<intakeVars, approved, labVars>>

IngestUnder(w, authority) ==
    Continue(w, Ingest(Source(w), [result |-> <<runs[Source(w)], authority.mission>>,
                                   mapping |-> authority.mapping]))

-----------------------------------------------------------------------------
\* validateLabSession stores the run and its results, then has it consumed.
Validate(w, s, state) ==
    /\ work[w] = Idle
    /\ w \notin Operators
    /\ runs[s] = "none"
    /\ runs' = [runs EXCEPT ![s] = state]
    /\ inForce' = [inForce EXCEPT ![s] = Resolve(mission)]
    /\ Continue(w, [step |-> "facts", source |-> s])
    /\ UNCHANGED <<intakeVars, approved, mission, frozen>>

\* retryFailedLabEvidenceConsumption
Retry(w, s) ==
    /\ work[w] = Idle
    /\ w \in Operators
    /\ consumption[s] = "failed"
    /\ Continue(w, [step |-> "facts", source |-> s])
    /\ KeepLab

\* A validator outage never becomes Evidence.
ReadFacts(w) ==
    /\ At(w, "facts")
    /\ GoTo(w, IF runs[Source(w)] \in {"passed", "incomplete"} THEN "frozen" ELSE "skip")
    /\ KeepLab

\* captureLabEvidenceHandoff: a frozen authority wins.
ReadFrozen(w) ==
    /\ At(w, "frozen")
    /\ IF frozen[Source(w)] # NoAuthority
       THEN IngestUnder(w, frozen[Source(w)])
       ELSE GoTo(w, "mission")
    /\ KeepLab

ReadMission(w) ==
    /\ At(w, "mission")
    /\ Continue(w, [step |-> "mapping", source |-> Source(w), mission |-> mission])
    /\ KeepLab

ReadMapping(w) ==
    /\ At(w, "mapping")
    /\ Continue(w, [step |-> "capture", source |-> Source(w),
                    authority |-> Resolve(work[w].mission)])
    /\ KeepLab

\* Mutant: a plain upsert, the last writer wins.
CaptureOver(w) ==
    /\ At(w, "capture")
    /\ frozen' = [frozen EXCEPT ![Source(w)] = work[w].authority]
    /\ Continue(w, [step |-> "readback", source |-> Source(w)])
    /\ UNCHANGED <<intakeVars, approved, mission, runs, inForce>>

\* INSERT ... ON CONFLICT DO NOTHING: the first writer wins.
Capture(w) ==
    /\ At(w, "capture")
    /\ frozen' = IF frozen[Source(w)] = NoAuthority
                 THEN [frozen EXCEPT ![Source(w)] = work[w].authority] ELSE frozen
    /\ Continue(w, [step |-> "readback", source |-> Source(w)])
    /\ UNCHANGED <<intakeVars, approved, mission, runs, inForce>>

ReadBack(w) ==
    /\ At(w, "readback")
    /\ IngestUnder(w, frozen[Source(w)])
    /\ KeepLab

\* A round trip of the capture fails: the failure is recorded for a retry.
LoseCapture(w) ==
    /\ work[w].step \in {"facts", "frozen", "mission", "mapping", "capture", "readback"}
    /\ FailJob(w)
    /\ KeepLab

\* curriculum_publish_learning_path_tree publishes a mission version together
\* with its competencies.
PublishMission ==
    /\ mission < MaxMission
    /\ mission' = mission + 1
    /\ approved' = approved \cup MissionMapping[mission + 1]
    /\ UNCHANGED <<intakeVars, work, runs, inForce, frozen>>

-----------------------------------------------------------------------------
Serve(w) ==
    \/ ReadFacts(w) \/ ReadFrozen(w) \/ ReadMission(w) \/ ReadMapping(w)
    \/ Capture(w) \/ ReadBack(w) \/ LoseCapture(w)

Next ==
    \/ \E w \in Workers :
        \/ \E s \in Sources :
            \/ \E state \in RunState \ {"none"} : Validate(w, s, state)
            \/ Retry(w, s)
        \/ Serve(w)
        \/ IntakeStep(w) /\ UNCHANGED labVars
    \/ \E c \in Competencies : PublishCompetency(c) /\ UNCHANGED labVars
    \/ PublishMission

Spec == Init /\ [][Next]_vars

-----------------------------------------------------------------------------
\* The Evidence of a run proves its stored state under the frozen authority,
\* and its links are exactly within it, whichever of several consumers, each
\* with a resolution of its own, came first.
OneAuthority ==
    \A s \in Sources : evidence[s] # NoEvidence =>
        /\ frozen[s] # NoAuthority
        /\ evidence[s] = [result |-> <<runs[s], frozen[s].mission>>,
                          mapping |-> frozen[s].mapping]
        /\ \A c \in Competencies : <<s, c>> \in links => c \in frozen[s].mapping

\* A run is linked only to what was in force when it was validated.
MappingWasInForce ==
    \A s \in Sources : evidence[s] # NoEvidence => frozen[s] = inForce[s]
=============================================================================

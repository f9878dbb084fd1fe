-------------------------- MODULE MCEvidenceIntake --------------------------
(***************************************************************************)
(* Evidence ingestion for TLC, from both of its sources: in one half of    *)
(* the behaviours racing requests submit an assessment attempt, in the     *)
(* other several workers consume one lab validation run while its mission  *)
(* is published again.  The two halves share the code of EvidenceIntake    *)
(* and no data, so no behaviour needs both.                                *)
(***************************************************************************)
EXTENDS AssessmentAttempt, TLC

CONSTANTS
    LabRuns, LabWorkers, LabOperators, LabCompetencies,
    MaxMission, LabMapping, Declared, NoAuthority

VARIABLES
    half,           \* the source that is busy in this behaviour
    labEvidence, labLinks, labConsumption, labApproved, labWork,
    mission, runs, inForce, frozen

LabResults == {"passed", "incomplete"} \X (0..MaxMission)

Lab == INSTANCE LabEvidence WITH
    Sources <- LabRuns, Results <- LabResults, Competencies <- LabCompetencies,
    Workers <- LabWorkers, Operators <- LabOperators, MissionMapping <- LabMapping,
    evidence <- labEvidence, links <- labLinks, consumption <- labConsumption,
    approved <- labApproved, work <- labWork

ASSUME LabAssumption == Lab!LabConstants

labSide == <<labEvidence, labLinks, labConsumption, labApproved, labWork,
             mission, runs, inForce, frozen>>

\* The half that does nothing starts in one state only.
BothInit ==
    /\ Init /\ Lab!Init
    /\ half \in {"assessments", "labs"}
    /\ half = "assessments" => mission = 0
    /\ half = "labs" => version = 1 /\ approved = {}

BothNext ==
    \/ half = "assessments" /\ Next /\ UNCHANGED <<half, labSide>>
    \/ half = "labs" /\ Lab!Next /\ UNCHANGED <<half, vars>>

BothSpec == BothInit /\ [][BothNext]_<<half, vars, labSide>>

\* OneAuthority of LabEvidence: the Evidence of a validation run proves its
\* stored state under the authority the first consumer froze.
OneLabAuthority == Lab!OneAuthority

-----------------------------------------------------------------------------
CONSTANTS c1, c2, r1, r2, l1, l2

\* Submissions: two requests of a student and a worker that retries.
AllSources == Versions \X (1..MaxNumber)
ResultsDef == {"passed", "failed"}
MapsAll == [v \in Versions |-> {c1}]
ExceptLast == 1..(MaxVersion - 1)

\* Validation runs: one handler, two workers that retry, and a mission whose
\* second and third versions map other competencies than the one before.
MissionMaps ==
    [m \in 1..MaxMission |-> IF m = 1 THEN {c1} ELSE IF m = 2 THEN {c1, c2} ELSE {c2}]

Alike == Permutations({r1, r2}) \cup Permutations({l1, l2})
=============================================================================

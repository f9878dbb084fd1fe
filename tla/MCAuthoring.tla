---------------------------- MODULE MCAuthoring ----------------------------
(***************************************************************************)
(* Authoring for TLC: in one half of the behaviours administrators work on *)
(* Certificate Definitions, in the other on a lab definition and its       *)
(* validation profile while a student has the lab validated.  The two      *)
(* halves share their discipline and no data.                              *)
(***************************************************************************)
EXTENDS CertificateDefinition, TLC

CONSTANTS
    Labs, Profiles, Checks, Missions, LabCompetencies,
    MaxLabVersion, LabDrafts, Additions, Tabs, MaxSessions, MaxRuns

VARIABLES
    half,           \* what is worked on in this behaviour
    definitions, checks, curriculum, labReq, sessions, runs, tab

Lab == INSTANCE LabAuthoring WITH
    Competencies <- LabCompetencies, MaxVersion <- MaxLabVersion, Drafts <- LabDrafts

ASSUME LabAssumption == Lab!LabAuthoringConstants

-----------------------------------------------------------------------------
(* What administrators may ask for in the runs.                            *)

CONSTANTS s1, s2, c1, c2, t1, t2, p1, a1, a2, k1, k2, m1, l1, h1

Edit(d, patch) == [id |-> d, patches |-> <<patch>>]

Draft(stable, terms, requires, policies) ==
    [stable |-> stable, terms |-> terms, requires |-> requires, policies |-> policies]

\* Everything that can be done to one definition.
LifecycleEdits ==
    {Edit(d, patch) : d \in Versions,
        patch \in [state : DefinitionState] \cup [terms : {t2}]
                     \cup [requires : {{}, {c1}}]}

LifecycleDrafts == {Draft(s1, t1, {c1}, {p1}), Draft(s1, t2, {}, {})}

\* Everything that can be done to the first of three versions, which may all
\* supersede one another.
AuthoringEdits ==
    {Edit(<<s1, 1>>, patch) :
        patch \in [state : DefinitionState] \cup [requires : {{}, {c1, c2}}]}
      \cup {Edit(d, patch) : d \in Versions, patch \in [successor : Versions]}

AuthoringDrafts == {Draft(s1, t1, {c1}, {})}

AllEdits == LifecycleEdits \cup AuthoringEdits
AllDrafts == LifecycleDrafts \cup AuthoringDrafts

\* A required check and one that is not, added one after the other.
LabBody == [mission |-> m1, competencies |-> {c1}, profile |-> p1, sound |-> TRUE]
Only(k, required) == [[j \in {k1, k2} |-> Absent] EXCEPT ![k] = required]

OneLabDraft == {[lab |-> l1, body |-> LabBody]}
OneByOne == {[profile |-> p1, required |-> Only(k1, TRUE)],
             [profile |-> p1, required |-> Only(k2, FALSE)]}

-----------------------------------------------------------------------------
\* One of two shifts, chosen at the start: a1 works alone on all versions, or
\* both administrators work on the first version at the same time.
VARIABLE alone

Taken(a) == req[a] = Idle /\ req'[a] # Idle

OnShift(a) ==
    \/ req'[a] = req[a] \/ req'[a] = Idle
    \/ /\ alone
       /\ a = a1
       /\ Taken(a) => \/ \E e \in AuthoringEdits : ReceiveEdit(a, e)
                      \/ \E d \in AuthoringDrafts : ReceiveDraft(a, d)
    \/ /\ ~alone
       /\ Taken(a) => \/ \E e \in LifecycleEdits : e.id = <<s1, 1>> /\ ReceiveEdit(a, e)
                      \/ \E d \in LifecycleDrafts : ReceiveDraft(a, d)
       /\ req'[a].step = "insert" => req'[a].id = <<s1, 1>>

ShiftInit == Init /\ alone \in BOOLEAN
ShiftNext == Next /\ UNCHANGED alone /\ \A a \in Admins : OnShift(a)

\* Two administrators race while the student has nothing under way, one works
\* under a request of the student's, and nobody once a validation is stored.
LabTurn ==
    /\ labReq'[a2] # Lab!Idle => tab[h1] = Lab!Idle /\ tab'[h1] = Lab!Idle
    /\ runs # <<>> => definitions' = definitions /\ checks' = checks /\ labReq' = labReq

labSide == <<definitions, checks, curriculum, labReq, sessions, runs, tab>>

\* The half that does nothing stays in one state.
BothInit ==
    /\ ShiftInit /\ Lab!LabAuthoringInit
    /\ half \in {"certificates", "labs"}
    /\ half = "labs" => alone

BothNext ==
    \/ half = "certificates" /\ ShiftNext /\ UNCHANGED <<half, labSide>>
    \/ half = "labs" /\ Lab!LabAuthoringNext /\ LabTurn /\ UNCHANGED <<half, vars, alone>>

BothSpec == BothInit /\ [][BothNext]_<<half, vars, alone, labSide>>

\* PassedShowsSomething of LabAuthoring: a validation that counts as passed saw
\* a required check pass, however the profile was put together and published.
PassedShowsSomething == Lab!PassedShowsSomething

\* While one administrator works at a time, a published definition requires
\* something and only published competencies: the checks of the publication
\* handler, made one query at a time, add up to that.
SupportedWhenAlone == alone => PublishedIsSupported

\* While one administrator works at a time, supersession closes no circle,
\* however long the chains of versions that the bounded walk has to follow.
NoCycleWhenAlone == alone => NoDefinitionCycle
=============================================================================

---------------------------- MODULE LabAuthoring ----------------------------
(***************************************************************************)
(* Authoring of lab definitions and validation profiles                    *)
(* (services/api/src/lab-admin.ts over migrations 20260812000800 and       *)
(* 20260812001000), and the validations students ask for under what is     *)
(* published (validateLabSession of lab-runtime.ts).                       *)
(*                                                                         *)
(* A profile is no row of its own: it is the checks that name it.  Every   *)
(* handler reads first and writes later, and its UPDATE names the          *)
(* definition or the profile, not the state it was judged on.  What        *)
(* happens to a session besides is left to LabSession, and what becomes of *)
(* a stored run to LabEvidence.                                            *)
(***************************************************************************)
EXTENDS Naturals, Sequences

CONSTANTS
    Labs, Profiles, Checks, Missions, Competencies,
    Absent,          \* no row
    MaxVersion,      \* bound: no lab gets more versions than this
    Admins,          \* founder_admin requests that may be in flight together
    Drafts,          \* definitions administrators may ask for
    Additions,       \* checks administrators may ask to be added
    Tabs,            \* requests of the student that may be in flight together
    MaxSessions,     \* bound on the sessions the student has, one after another
    MaxRuns          \* bound on the validations that get stored

Versions == Labs \X (1..MaxVersion)
Curriculum == Missions \cup Competencies

LabPublicationState == {"draft", "review", "published", "retired"}

\* A definition is never edited.  sound stands for all that the normalisers and
\* validateLabDefinition ask of the rest of it.
Body ==
    [mission : Missions, competencies : SUBSET Competencies, profile : Profiles, sound : BOOLEAN]

Definition == [body : Body, state : LabPublicationState]

\* LabValidationCheck; probe, title and explanation are only passed on.
Check == [required : BOOLEAN, state : LabPublicationState]

Addition == [profile : Profiles, required : [Checks -> BOOLEAN \cup {Absent}]]

\* What the constants have to be.  The module is used through INSTANCE, and
\* the module that gives the constants their values assumes it there.
LabAuthoringConstants ==
    /\ Drafts \subseteq [lab : Labs, body : Body]
    /\ Additions \subseteq Addition
    /\ Missions \cap Competencies = {}
    /\ Absent \notin Definition \cup Check
    /\ {MaxVersion, MaxSessions, MaxRuns} \subseteq Nat

VARIABLES
    definitions,     \* [Versions -> Definition \cup {Absent}]: lab_definitions
    checks,          \* [Profiles -> [Checks -> Check \cup {Absent}]]: lab_validation_checks
    curriculum,      \* SUBSET Curriculum: what has a published version
    labReq,          \* [Admins -> where each request stands]
    sessions,        \* the student's lab_sessions: definition, whether usable, last run
    runs,            \* lab_validation_runs, with their lab_validation_results
    tab              \* [Tabs -> where each request of the student stands]

published == <<definitions, checks, curriculum>>
student == <<sessions, runs, tab>>
labAuthoringVars == <<published, labReq, student>>

Idle == [step |-> "idle"]

Outcome == {"passed", "failed", "technical_error"}
RunState == {"passed", "incomplete", "technical_error"}
Verdicts == UNION {[C -> [required : BOOLEAN, state : Outcome]] : C \in SUBSET Checks}

LabRequest ==
    {Idle} \cup [step : {"version"}, draft : Drafts]
    \cup [step : {"insert"}, draft : Drafts, id : Versions]
    \cup [step : {"definition", "curriculum", "checks", "update"}, id : Versions,
          to : LabPublicationState, unchecked : SUBSET Curriculum]
    \cup [step : {"profile", "update profile"}, profile : Profiles, to : LabPublicationState]

StudentRequest ==
    {Idle} \cup [step : {"request"}, id : Versions]
    \cup [step : {"definition"}, session : Nat] \cup [step : {"read"}, session : Nat, profile : Profiles]
    \cup [step : {"probe"}, session : Nat, required : UNION {[C -> BOOLEAN] : C \in SUBSET Checks}]
    \cup [step : {"store"}, session : Nat, results : Verdicts]
    \cup [step : {"results"}, session : Nat, results : Verdicts, run : Nat]
    \cup [step : {"reference"}, session : Nat, run : Nat]

LabAuthoringTypeOK ==
    /\ definitions \in [Versions -> Definition \cup {Absent}]
    /\ checks \in [Profiles -> [Checks -> Check \cup {Absent}]]
    /\ curriculum \subseteq Curriculum
    /\ labReq \in [Admins -> LabRequest]
    /\ sessions \in Seq([definition : Versions, usable : BOOLEAN, run : Nat])
    /\ runs \in Seq([state : RunState, results : Verdicts \cup {Absent}])
    /\ tab \in [Tabs -> StudentRequest]

-----------------------------------------------------------------------------
LabAuthoringInit ==
    /\ definitions = [d \in Versions |-> Absent]
    /\ checks = [p \in Profiles |-> [k \in Checks |-> Absent]]
    /\ curriculum = {}
    /\ labReq = [a \in Admins |-> Idle]
    /\ sessions = <<>>
    /\ runs = <<>>
    /\ tab = [t \in Tabs |-> Idle]

\* isValidLabPublicationTransition
ValidTransition(from, to) ==
    \/ from = to
    \/ <<from, to>> \in {<<"draft", "review">>, <<"draft", "retired">>,
                         <<"review", "draft">>, <<"review", "published">>,
                         <<"review", "retired">>, <<"published", "retired">>,
                         <<"retired", "draft">>}

\* The checks of a profile, whatever their state, and those a student can see.
ChecksOf(p) == {k \in Checks : checks[p][k] # Absent}
PublishedChecks(p) == {k \in ChecksOf(p) : checks[p][k].state = "published"}

GoOn(a, request) ==
    /\ labReq' = [labReq EXCEPT ![a] = request]
    /\ UNCHANGED <<published, student>>

Working(a, step) == labReq[a].step = step

End(a) == labReq' = [labReq EXCEPT ![a] = Idle]

\* validateLabDefinition
Valid(body) == body.sound /\ body.competencies # {}

\* createDraftLabDefinition: nothing that is not valid is written.
AskForDraft(a, draft) ==
    /\ Working(a, "idle")
    /\ Valid(draft.body)
    /\ GoOn(a, [step |-> "version", draft |-> draft])

\* nextLabDefinitionVersion
ReadVersion(a) ==
    LET lab   == labReq[a].draft.lab
        taken == {v \in 1..MaxVersion : definitions[<<lab, v>>] # Absent}
    IN  /\ Working(a, "version")
        /\ \E v \in (1..MaxVersion) \ taken :
              /\ taken = 1..(v - 1)
              /\ GoOn(a, [step |-> "insert", draft |-> labReq[a].draft, id |-> <<lab, v>>])

\* unique (stable_id, version): the second of two with one version is refused.
InsertDraft(a) ==
    LET id == labReq[a].id
    IN  /\ Working(a, "insert")
        /\ definitions' =
              IF definitions[id] # Absent THEN definitions
              ELSE [definitions EXCEPT ![id] = [body |-> labReq[a].draft.body, state |-> "draft"]]
        /\ End(a)
        /\ UNCHANGED <<checks, curriculum, student>>

\* Mutant: the checks are upserted.
UpsertChecks(a, addition) ==
    LET p   == addition.profile
        new == {k \in Checks : addition.required[k] # Absent}
    IN  /\ Working(a, "idle")
        /\ checks' = [checks EXCEPT ![p] = [k \in Checks |->
              IF k \in new THEN [required |-> addition.required[k], state |-> "draft"] ELSE @[k]]]
        /\ UNCHANGED <<definitions, curriculum, labReq, student>>

\* addLabValidationChecks: one INSERT, all of them or, if one is there, none.
AddChecks(a, addition) ==
    LET p   == addition.profile
        new == {k \in Checks : addition.required[k] # Absent}
    IN  /\ Working(a, "idle")
        /\ new # {} /\ new \cap ChecksOf(p) = {}
        /\ checks' = [checks EXCEPT ![p] = [k \in Checks |->
              IF k \in new THEN [required |-> addition.required[k], state |-> "draft"] ELSE @[k]]]
        /\ UNCHANGED <<definitions, curriculum, labReq, student>>

-----------------------------------------------------------------------------
AskForState(a, id, to) ==
    /\ Working(a, "idle")
    /\ GoOn(a, [step |-> "definition", id |-> id, to |-> to, unchecked |-> {}])

\* transitionLabDefinitionState: the row is judged here; only a publication is
\* looked into any further.
ReadDefinition(a) ==
    LET row == definitions[labReq[a].id]
        to  == labReq[a].to
    IN  /\ Working(a, "definition")
        /\ IF row = Absent \/ ~ValidTransition(row.state, to) \/ (to = "published" /\ ~Valid(row.body))
           THEN GoOn(a, Idle)
           ELSE IF to # "published" THEN GoOn(a, [labReq[a] EXCEPT !.step = "update"])
           ELSE GoOn(a, [labReq[a] EXCEPT !.step = "curriculum",
                                          !.unchecked = {row.body.mission} \cup row.body.competencies])

\* publishedCurriculumExists, a query each.  One that is missing decides,
\* whichever is asked about first.
CheckReference(a) ==
    /\ Working(a, "curriculum")
    /\ \E x \in labReq[a].unchecked :
          GoOn(a, IF x \in curriculum THEN [labReq[a] EXCEPT !.unchecked = @ \ {x}] ELSE Idle)

ReferencesChecked(a) ==
    /\ Working(a, "curriculum")
    /\ labReq[a].unchecked = {}
    /\ GoOn(a, [labReq[a] EXCEPT !.step = "checks"])

\* A lab that requires nothing could be passed without demonstrating anything.
ReadChecks(a) ==
    LET p == definitions[labReq[a].id].body.profile
    IN  /\ Working(a, "checks")
        /\ GoOn(a, IF \E k \in PublishedChecks(p) : checks[p][k].required
                   THEN [labReq[a] EXCEPT !.step = "update"] ELSE Idle)

UpdateDefinition(a) ==
    /\ Working(a, "update")
    /\ definitions' = [definitions EXCEPT ![labReq[a].id].state = labReq[a].to]
    /\ End(a)
    /\ UNCHANGED <<checks, curriculum, student>>

AskForProfileState(a, p, to) ==
    /\ Working(a, "idle")
    /\ GoOn(a, [step |-> "profile", profile |-> p, to |-> to])

\* transitionLabValidationProfileState: every check must allow it.
ReadProfile(a) ==
    LET p == labReq[a].profile
    IN  /\ Working(a, "profile")
        /\ GoOn(a, IF /\ ChecksOf(p) # {}
                      /\ \A k \in ChecksOf(p) : ValidTransition(checks[p][k].state, labReq[a].to)
                   THEN [labReq[a] EXCEPT !.step = "update profile"] ELSE Idle)

\* The UPDATE names the profile: it takes whatever checks there are by then.
UpdateProfile(a) ==
    LET p == labReq[a].profile
    IN  /\ Working(a, "update profile")
        /\ checks' = [checks EXCEPT ![p] = [k \in Checks |->
              IF k \in ChecksOf(p) THEN [@[k] EXCEPT !.state = labReq[a].to] ELSE @[k]]]
        /\ End(a)
        /\ UNCHANGED <<definitions, curriculum, student>>

\* A request ends early: a query fails or the connection is lost.
LoseRequest(a) == ~Working(a, "idle") /\ GoOn(a, Idle)

\* Publication of a learning path's tree, or retirement of its last version.
MoveCurriculum(x) ==
    /\ curriculum' = IF x \in curriculum THEN curriculum \ {x} ELSE curriculum \cup {x}
    /\ UNCHANGED <<definitions, checks, labReq, student>>

-----------------------------------------------------------------------------
At(t, step) == tab[t].step = step

Turns(t, request) ==
    /\ tab' = [tab EXCEPT ![t] = request]
    /\ UNCHANGED <<published, labReq, sessions, runs>>

\* Row-level security: a student sees published definitions only.
Visible(id) == definitions[id] # Absent /\ definitions[id].state = "published"

\* requestLabSession: a version the student names, or the highest one.  (Which
\* provider serves it is left to ProviderRollout, the rest to LabSession.)
ChooseDefinition(t, id) ==
    /\ At(t, "idle")
    /\ Visible(id)
    /\ Turns(t, [step |-> "request", id |-> id])

InsertSession(t) ==
    LET id == tab[t].id
        live == \E i \in DOMAIN sessions : sessions[i].usable /\ sessions[i].definition[1] = id[1]
    IN  /\ At(t, "request")
        /\ live \/ Len(sessions) < MaxSessions
        /\ sessions' = IF live THEN sessions
                       ELSE Append(sessions, [definition |-> id, usable |-> TRUE, run |-> 0])
        /\ tab' = [tab EXCEPT ![t] = Idle]
        /\ UNCHANGED <<published, labReq, runs>>

EndSession(i) ==
    /\ sessions[i].usable
    /\ sessions' = [sessions EXCEPT ![i].usable = FALSE]
    /\ UNCHANGED <<published, labReq, runs, tab>>

\* validateLabSession of a session that is ready or active.
AskForValidation(t, i) ==
    /\ At(t, "idle")
    /\ sessions[i].usable
    /\ Turns(t, [step |-> "definition", session |-> i])

\* A definition that was retired meanwhile is not found.
ReadProfileOf(t) ==
    LET id == sessions[tab[t].session].definition
    IN  /\ At(t, "definition")
        /\ Turns(t, IF Visible(id)
                    THEN [step |-> "read", session |-> tab[t].session,
                          profile |-> definitions[id].body.profile] ELSE Idle)

ReadPublishedChecks(t) ==
    LET p == tab[t].profile
    IN  /\ At(t, "read")
        /\ Turns(t, IF PublishedChecks(p) = {} THEN Idle
                    ELSE [step |-> "probe", session |-> tab[t].session,
                          required |-> [k \in PublishedChecks(p) |-> checks[p][k].required]])

\* The probes, one after another; one that fails to run is a technical error.
Probe(t) ==
    /\ At(t, "probe")
    /\ \E outcome \in [DOMAIN tab[t].required -> Outcome] :
          Turns(t, [step |-> "store", session |-> tab[t].session,
                    results |-> [k \in DOMAIN outcome |->
                                    [required |-> tab[t].required[k], state |-> outcome[k]]]])

\* deriveLabValidationState
Derived(results) ==
    IF \E k \in DOMAIN results : results[k].state = "technical_error" THEN "technical_error"
    ELSE IF \A k \in DOMAIN results : results[k].required => results[k].state = "passed"
    THEN "passed" ELSE "incomplete"

StoreRun(t) ==
    /\ At(t, "store")
    /\ Len(runs) < MaxRuns
    /\ runs' = Append(runs, [state |-> Derived(tab[t].results), results |-> Absent])
    /\ tab' = [tab EXCEPT ![t] = [step |-> "results", session |-> tab[t].session,
                                  results |-> tab[t].results, run |-> Len(runs) + 1]]
    /\ UNCHANGED <<published, labReq, sessions>>

StoreResults(t) ==
    /\ At(t, "results")
    /\ runs' = [runs EXCEPT ![tab[t].run].results = tab[t].results]
    /\ tab' = [tab EXCEPT ![t] = [step |-> "reference", session |-> tab[t].session,
                                  run |-> tab[t].run]]
    /\ UNCHANGED <<published, labReq, sessions>>

\* The session names its last run; Evidence is made of it next.
ReferToRun(t) ==
    /\ At(t, "reference")
    /\ sessions' = [sessions EXCEPT ![tab[t].session].run = tab[t].run]
    /\ tab' = [tab EXCEPT ![t] = Idle]
    /\ UNCHANGED <<published, labReq, runs>>

LoseTab(t) == ~At(t, "idle") /\ Turns(t, Idle)

-----------------------------------------------------------------------------
Authoring ==
    \/ \E a \in Admins :
          \/ \E draft \in Drafts : AskForDraft(a, draft)
          \/ \E addition \in Additions : AddChecks(a, addition)
          \/ \E id \in Versions, to \in LabPublicationState : AskForState(a, id, to)
          \/ \E p \in Profiles, to \in LabPublicationState : AskForProfileState(a, p, to)
          \/ ReadVersion(a) \/ InsertDraft(a) \/ ReadDefinition(a) \/ CheckReference(a)
          \/ ReferencesChecked(a) \/ ReadChecks(a) \/ UpdateDefinition(a) \/ ReadProfile(a)
          \/ UpdateProfile(a) \/ LoseRequest(a)
    \/ \E x \in Curriculum : MoveCurriculum(x)

Studying ==
    \/ \E t \in Tabs :
          \/ \E id \in Versions : ChooseDefinition(t, id)
          \/ \E i \in DOMAIN sessions : AskForValidation(t, i)
          \/ InsertSession(t) \/ ReadProfileOf(t) \/ ReadPublishedChecks(t) \/ Probe(t)
          \/ StoreRun(t) \/ StoreResults(t) \/ ReferToRun(t) \/ LoseTab(t)
    \/ \E i \in DOMAIN sessions : EndSession(i)

LabAuthoringNext == Authoring \/ Studying

LabAuthoringSpec == LabAuthoringInit /\ [][LabAuthoringNext]_labAuthoringVars
-----------------------------------------------------------------------------
\* Whatever is added to profiles, published, retired and published again, by
\* several administrators who judge on what they read earlier, a validation
\* that counts as passed saw a required check pass: a lab cannot be passed
\* without demonstrating anything.
PassedShowsSomething ==
    \A i \in DOMAIN runs : runs[i].state = "passed" /\ runs[i].results # Absent =>
        \E k \in DOMAIN runs[i].results :
            runs[i].results[k].required /\ runs[i].results[k].state = "passed"

\* A definition and a check are published from review only.
PublishedFromReview ==
    [][/\ \A d \in Versions :
             /\ definitions[d] # Absent /\ definitions[d].state # "published"
             /\ definitions'[d].state = "published"
             => definitions[d].state = "review"
       /\ \A p \in Profiles : \A k \in ChecksOf(p) :
             /\ checks[p][k].state # "published"
             /\ checks'[p][k].state = "published"
             => checks[p][k].state = "review"]_labAuthoringVars
=============================================================================

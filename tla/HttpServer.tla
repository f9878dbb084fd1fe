----------------------------- MODULE HttpServer -----------------------------
(***************************************************************************)
(* A request to the platform's API, from the page or program that sends it *)
(* to the answer it is told: the browser's preflight (cors.ts), the route  *)
(* table (server.ts), the three reads that make an identity trusted        *)
(* (auth-context.ts), the administrator's guard (authorization.ts), the    *)
(* body (http-body.ts), and the web application's end (api-client.ts).     *)
(*                                                                         *)
(* What the operations do is the matter of the other modules: here an      *)
(* operation is a name.  Requests share nothing inside the server, so a    *)
(* behaviour is one request; while it is under way its sender may be       *)
(* signed out, be given another role, or be cut off.                       *)
(***************************************************************************)
EXTENDS Naturals, Sequences, Functions

CONSTANTS
    Params,             \* what a path may have where a route has a parameter
    Undecodable,        \* the parameter whose percent-encoding is broken
    Versions,           \* the parameters made of digits
    Methods,
    Users, Confirmed,   \* Confirmed: users whose e-mail address is verified
    Tokens, Owner,      \* access tokens and whose they are
    Assured,            \* the tokens of a second factor ("aal2")
    Role0, Live0,       \* user_profiles.role and the valid tokens at first
    Origins, NoOrigin,  \* of the pages that send requests; of a program
    Unconfigured,       \* the origins of pages built without the API's address
    Development,        \* the origin of the development server
    Environments,       \* what the process may be started with
    OperationFailures,  \* codes with which operations fail
    Bodies,             \* "object", "unfit" (of a wrong shape), "rejected"
    MaxChanges,         \* bound: roles changed and tokens revoked
    None

VARIABLES
    environment,        \* what it was started with
    request,            \* its method, path and origin, and if it has a token
    at,                 \* where the server stands
    route,              \* the route that answers
    token,              \* the token it carries
    profile,            \* the role that was read
    body, ran, answer,  \* what was read, called and answered
    told,               \* what the sender is told
    role, live,         \* the platform's accounts
    changes,
    roles, wasLive      \* ghost: what the sender was while this went on

accounts == <<role, live, changes, roles, wasLive>>
httpVars == <<environment, request, at, route, token, profile, body, ran, answer, told, accounts>>

-----------------------------------------------------------------------------
\* The route table, in the order of the handler.  An operation is named as it
\* is imported; what it does is another module's.

Id == ":id"                 \* ([^/]+)
Version == ":version"       \* ([0-9]+)
Rest == ":rest"             \* whatever follows a prefix

Route(method, path, who, sends, calls) ==
    [method |-> method, path |-> path, who |-> who, sends |-> sends, calls |-> calls]

Open(path, calls) == Route("GET", path, "anyone", FALSE, calls)
Reads(path, calls) == Route("GET", path, "member", FALSE, calls)
Asks(method, path, calls) == Route(method, path, "member", FALSE, calls)
Sends(method, path, calls) == Route(method, path, "member", TRUE, calls)
Founder(method, path, calls) == Route(method, path, "founder", FALSE, calls)
FounderSends(method, path, calls) == Route(method, path, "founder", TRUE, calls)

PublicRoutes == <<
    Open(<<"health">>, "getApiHealthDetails"),
    Open(<<"certificates", "verify", Id>>, "verifyCertificateByReference"),
    Open(<<"ready">>, "ready") >>

LabRoutes ==
    LET Lab(action) == <<"lab-sessions", Id, action>>
    IN  << Reads(<<"lab-sessions">>, "listLabSessions"),
           Sends("POST", <<"lab-sessions">>, "requestLabSession"),
           Reads(<<"lab-sessions", Id>>, "getLabSession"),
           Asks("POST", Lab("start"), "startLabSession"),
           Asks("POST", Lab("end"), "endLabSession"),
           Reads(Lab("access"), "getLabAccessDelivery"),
           Asks("POST", Lab("reset"), "resetLabSession"),
           Asks("POST", Lab("validate"), "validateLabSession"),
           Reads(Lab("validations"), "listLabValidationRuns"),
           Reads(Lab("isolation"), "attestLabIsolation"),
           Asks("POST", Lab("expire"), "expireLabSession"),
           Asks("POST", Lab("cleanup"), "cleanupLabSessionResources"),
           Asks("POST", Lab("recover"), "recoverLabSession"),
           Reads(Lab("operations"), "listLabOperations"),
           Reads(<<"lab-providers">>, "sendLabProviderCatalog"),
           Reads(<<"lab-providers", "mock", "capabilities">>, "getCapabilities") >>

EvidenceViewRoutes == <<
    Reads(<<"evidence">>, "listStudentEvidence"),
    Asks("POST", <<"evidence", "export">>, "exportStudentEvidence"),
    Reads(<<"evidence", "portfolio">>, "getStudentEvidencePortfolio") >>

CertificateRoutes == <<
    Reads(<<"certificates", "portfolio">>, "getStudentCertificatePortfolio"),
    Reads(<<"certificates", "presentation">>, "getStudentCertificatePresentation"),
    Reads(<<"certificates">>, "listStudentCertificateRecords"),
    Sends("POST", <<"certificates", "issuance">>, "issueStudentCertificate"),
    Asks("POST", <<"certificates", "export">>, "exportStudentCertificates"),
    Reads(<<"certificates", "definitions">>, "listSelectableCertificateDefinitions"),
    Reads(<<"certificates", "eligibility">>, "getStudentCertificateEligibility") >>

EvidenceRecordRoutes == <<
    Reads(<<"evidence", Id, "corrections">>, "getStudentEvidenceCorrectionHistory"),
    Founder("GET", <<"admin", "evidence", Id, "corrections">>, "getEvidenceCorrectionHistory"),
    FounderSends("POST", <<"admin", "evidence", Id, "corrections">>, "appendEvidenceCorrection"),
    Reads(<<"evidence", Id, "competencies">>, "listEvidenceCompetencyLinks"),
    Reads(<<"competencies", Id, "evidence">>, "listCompetencyEvidenceLinks"),
    Reads(<<"evidence", Id>>, "getCanonicalEvidenceForStudent") >>

RetrievalRoutes == <<
    Reads(<<"notes", Id, "export">>, "buildStudentNoteExport"),
    Reads(<<"notes", "search">>, "searchStudentNotes"),
    Reads(<<"search", "curriculum">>, "searchCurriculum"),
    Reads(<<"bookmarks">>, "listStudentBookmarks"),
    Sends("POST", <<"bookmarks">>, "createStudentBookmark"),
    Asks("DELETE", <<"bookmarks", Id>>, "deleteStudentBookmark") >>

NoteRoutes == <<
    Reads(<<"note-tags">>, "listStudentTags"),
    Sends("POST", <<"note-tags">>, "createStudentTag"),
    Sends("PUT", <<"note-tags", Id>>, "renameStudentTag"),
    Asks("DELETE", <<"note-tags", Id>>, "deleteStudentTag"),
    Reads(<<"notes", Id, "blocks">>, "listNoteBlocks"),
    Sends("PUT", <<"notes", Id, "blocks">>, "replaceNoteBlocks"),
    Sends("PUT", <<"notes", Id, "tags">>, "replaceNoteTags"),
    Sends("PUT", <<"notes", Id, "pinned">>, "setNotePinned"),
    Reads(<<"notes">>, "listStudentNotes"),
    Sends("POST", <<"notes">>, "createStudentNote"),
    Reads(<<"notes", Id>>, "getStudentNote"),
    Sends("PUT", <<"notes", Id>>, "updateStudentNote"),
    Asks("DELETE", <<"notes", Id>>, "deleteStudentNote"),
    Reads(<<"auth", "me">>, "identity") >>

AssessmentRoutes ==
    LET Attempt(action) == <<"assessment-attempts", Id, action>>
    IN  << Asks("POST", <<"assessments", Id, "attempts">>, "startAssessmentAttempt"),
           Sends("POST", Attempt("interrupt"), "interruptAssessmentAttempt"),
           Asks("POST", Attempt("resume"), "resumeInterruptedAssessmentAttempt"),
           Reads(<<"lab-sessions", Id, "evidence">>, "listLabSessionEvidenceIds"),
           Reads(Attempt("evidence"), "getAssessmentAttemptEvidenceId"),
           Reads(Attempt("readiness-outcome"), "getReadinessAssessmentOutcome"),
           Reads(<<"assessment-attempts", Id>>, "getAssessmentAttempt"),
           Sends("PUT", Attempt("answers"), "saveAssessmentAnswer"),
           Asks("POST", Attempt("submit"), "submitAssessmentAttempt"),
           Reads(<<"assessments">>, "listPublishedAssessments") >>

GuidanceRoutes == <<
    Reads(<<"curriculum", "paths">>, "listPublishedLearningPaths"),
    Reads(<<"curriculum", "paths", Rest>>, "getPublishedLearningPathTree"),
    Reads(<<"learning", "next-action">>, "getRecommendedNextAction"),
    Reads(<<"learning", "history">>, "listLearningHistory"),
    Reads(<<"learning", "review">>, "listReviewState"),
    Reads(<<"learning", "competencies">>, "listStudentCompetencyState"),
    Reads(<<"learning", "resume">>, "getResumeTarget") >>

MissionRoutes ==
    LET Mission(action) == <<"learning", "missions", Id>> \o action
    IN  << Reads(Mission(<<"access">>), "evaluateMissionPrerequisites"),
           Reads(Mission(<<"instruction">>), "getLearnerMissionInstruction"),
           Reads(<<"learning", "progress">>, "getLearningPathProgress"),
           Asks("POST", Mission(<<"start">>), "recordMissionProgressAction"),
           Asks("POST", Mission(<<"complete">>), "recordMissionProgressAction"),
           Sends("POST", Mission(<<"near-transfer", "check">>), "checkLearnerNearTransferAnswer") >>

LabAdminRoutes ==
    LET Labs(rest) == <<"admin", "labs">> \o rest
    IN  << FounderSends("POST", Labs(<<"definitions">>), "createDraftLabDefinition"),
           FounderSends("POST", Labs(<<"validation-checks">>), "addLabValidationChecks"),
           FounderSends("POST", Labs(<<"definitions", Id, Version, "state">>),
                        "transitionLabDefinitionState"),
           FounderSends("POST", Labs(<<"validation-profiles", Id, "state">>),
                        "transitionLabValidationProfileState") >>

CurriculumAdminRoutes ==
    LET Curriculum(rest) == <<"admin", "curriculum">> \o rest
        Creates(kind, calls) == FounderSends("POST", Curriculum(<<kind>>), calls)
    IN  << Creates("learning-paths", "createDraftLearningPath"),
           Creates("courses", "createDraftCourse"),
           Creates("modules", "createDraftModule"),
           Creates("missions", "createDraftMission"),
           Creates("competencies", "createDraftCompetency"),
           Creates("competency-prerequisites", "addCompetencyPrerequisite"),
           Creates("mission-competencies", "linkMissionCompetency"),
           FounderSends("PATCH", Curriculum(<<"learning-paths", Id>>), "updateDraftLearningPath") >>

PublicationRoutes ==
    LET Path(action) == <<"admin", "curriculum", "learning-paths", Id, action>>
    IN  << Founder("GET", <<"admin", "search", "freshness">>, "runSearchFreshnessReconciliation"),
           Founder("POST", Path("validate"), "validateLearningPathForPublication"),
           FounderSends("POST", Path("transition"), "transitionLearningPathState") >>

DefinitionRoutes ==
    LET All == <<"admin", "certificates", "definitions">>
        One == All \o <<Id>>
        Part(action) == One \o <<action>>
    IN  << Founder("GET", All, "listCertificateDefinitions"),
           FounderSends("POST", All, "createDraftCertificateDefinition"),
           Founder("GET", One, "getCertificateDefinition"),
           FounderSends("PATCH", One, "updateCertificateDefinition"),
           FounderSends("PUT", Part("competencies"), "setCertificateDefinitionCompetencies"),
           FounderSends("PUT", Part("evidence-policies"), "setCertificateDefinitionEvidencePolicies"),
           Founder("POST", Part("validate"), "validateCertificateDefinitionForPublication"),
           FounderSends("POST", Part("transition"), "transitionCertificateDefinitionState"),
           FounderSends("POST", Part("supersede"), "supersedeCertificateDefinition") >>

CorrectionRoutes ==
    LET Corrections == <<"admin", "certificates", Id, "corrections">>
    IN  << FounderSends("POST", Corrections, "applyCertificateCorrection"),
           Founder("GET", Corrections, "listCertificateCorrections"),
           Founder("GET", <<"admin", "ping">>, "ping") >>

\* Mutant: the routes of notes precede those of their search and export.
LearnerRoutesNotesFirst ==
    PublicRoutes \o LabRoutes \o EvidenceViewRoutes \o CertificateRoutes
        \o EvidenceRecordRoutes \o NoteRoutes \o RetrievalRoutes \o AssessmentRoutes
        \o GuidanceRoutes \o MissionRoutes

LearnerRoutes ==
    PublicRoutes \o LabRoutes \o EvidenceViewRoutes \o CertificateRoutes
        \o EvidenceRecordRoutes \o RetrievalRoutes \o NoteRoutes \o AssessmentRoutes
        \o GuidanceRoutes \o MissionRoutes

AdminRoutes ==
    LabAdminRoutes \o CurriculumAdminRoutes \o PublicationRoutes \o DefinitionRoutes
        \o CorrectionRoutes

Routes == LearnerRoutes \o AdminRoutes
-----------------------------------------------------------------------------
\* Words that name a collection of Evidence are never taken for a record's id.
ReservedEvidenceSegments == {"portfolio", "export"}

FitsSegment(pattern, segment) ==
    CASE pattern = Id -> segment # ""
      [] pattern = Version -> segment \in Versions
      [] OTHER -> segment = pattern

FitsPath(pattern, path) ==
    IF pattern[Len(pattern)] = Rest
    THEN /\ Len(path) >= Len(pattern)
         /\ \A k \in 1..(Len(pattern) - 1) : FitsSegment(pattern[k], path[k])
    ELSE /\ Len(path) = Len(pattern)
         /\ \A k \in DOMAIN pattern : FitsSegment(pattern[k], path[k])

IsReserved(r, path) ==
    r.path = <<"evidence", Id>> /\ path[2] \in ReservedEvidenceSegments

Answers(r, method, path) ==
    r.method = method /\ FitsPath(r.path, path) /\ ~IsReserved(r, path)

\* The first route that fits answers; None when the handler falls through.
AnsweringRoute(method, path) ==
    LET fits == SelectSeq(Routes, LAMBDA r : Answers(r, method, path))
    IN  IF fits = << >> THEN None ELSE fits[1]

Parameters == {Id, Version, Rest}
IsMalformed(r, path) ==
    \E k \in DOMAIN r.path : r.path[k] \in {Id, Rest} /\ path[k] = Undecodable

\* Paths with each parameter written as the same word; and one that goes on.
Filled(pattern, word) == [k \in DOMAIN pattern |-> IF pattern[k] \in Parameters THEN word ELSE pattern[k]]
Paths ==
    {Filled(r.path, word) : r \in Range(Routes), word \in Params}
        \cup {<<"curriculum", "paths", word, word>> : word \in Params}

\* Coercions of the route handlers that refuse a body of the wrong shape.
Coerces ==
    {"checkLearnerNearTransferAnswer", "transitionLearningPathState",
     "transitionCertificateDefinitionState", "createDraftCertificateDefinition",
     "setCertificateDefinitionCompetencies", "setCertificateDefinitionEvidencePolicies"}

\* Those that read the fields of an array's elements: an element may be null.
CoercesElements ==
    {"createDraftCertificateDefinition", "setCertificateDefinitionCompetencies",
     "setCertificateDefinitionEvidencePolicies"}

\* The one route that decodes its parameter before it reads the body.
DecodesFirst(r) == r.calls = "checkLearnerNearTransferAnswer"
-----------------------------------------------------------------------------
\* Production does not start without its keys; elsewhere their lack is found
\* by the first request that needs a client.
Settings == {"SUPABASE_URL", "SUPABASE_ANON_KEY", "SUPABASE_SERVICE_ROLE_KEY"}
ValidConfig(env) ==
    /\ env.appEnv \in {"development", "test", "production"}
    /\ env.port \in 1..65535
    /\ env.appEnv = "production" => Settings \subseteq env.given

HasUserClient == {"SUPABASE_URL", "SUPABASE_ANON_KEY"} \subseteq environment.given

\* Production has no default: without a configured list no page may read.
AllowedOrigins ==
    IF environment.origins # {} THEN environment.origins
    ELSE IF environment.appEnv = "production" THEN {}
    ELSE {Development}

AllowedMethods == {"GET", "POST", "OPTIONS"}
OriginAllowed(origin) == origin \in AllowedOrigins

\* A page may read an answer only if its origin is allowed; a program always.
Readable == request.origin = NoOrigin \/ OriginAllowed(request.origin)

HttpConstants ==
    /\ Undecodable \in Params /\ Versions \subseteq Params \ {Undecodable}
    /\ NoOrigin \notin Origins \cup {Development} /\ Unconfigured \subseteq Origins
    /\ \A env \in Environments : env.given \subseteq Settings /\ env.origins \subseteq Origins
    /\ Owner \in [Tokens -> Users] /\ Role0 \in [Users -> {"student", "founder_admin", "none"}]
    /\ Live0 \subseteq Tokens /\ Assured \subseteq Tokens /\ Confirmed \subseteq Users
    /\ None \notin Tokens \cup Bodies
    /\ MaxChanges \in Nat

ASSUME HttpAssumption == HttpConstants

HttpInit ==
    /\ environment \in Environments /\ at = "down"
    /\ request = None /\ route = None /\ token = None /\ profile = None
    /\ body = None /\ ran = None /\ answer = None /\ told = None
    /\ role = Role0 /\ live = Live0 /\ changes = 0
    /\ roles = {} /\ wasLive = FALSE
-----------------------------------------------------------------------------
Quiet == UNCHANGED <<environment, accounts>>
AnswerWith(code) == at' = "answered" /\ answer' = code

\* The server listens only once its configuration was found valid.
Start ==
    /\ at = "down"
    /\ at' = IF ValidConfig(environment) THEN "idle" ELSE "failed"
    /\ Quiet /\ UNCHANGED <<request, route, token, profile, body, ran, answer, told>>

\* server.close: requests under way are still answered, but none is accepted.
Shutdown ==
    /\ at = "idle" /\ at' = "failed"
    /\ Quiet /\ UNCHANGED <<request, route, token, profile, body, ran, answer, told>>

\* The verification page is the only one that asks without a token.
IsVerification(method, path) ==
    method = "GET" /\ Len(path) = 3 /\ path[1] = "certificates" /\ path[2] = "verify"

StatusCode(code) ==
    CASE code = "done" -> 200
      [] code = "VALIDATION_ERROR" -> 400
      [] code = "UNAUTHORIZED" -> 401
      [] code = "FORBIDDEN" -> 403
      [] code = "NOT_FOUND" -> 404
      [] code = "CONFLICT" -> 409
      [] code = "RATE_LIMITED" -> 429
      [] code = "DEPENDENCY_UNAVAILABLE" -> 503
      [] OTHER -> 500

\* The verification page turns a status into a verdict; every failure that is
\* not an answer about the reference is none.
Verdict(code) ==
    CASE StatusCode(code) = 200 -> "verified"
      [] StatusCode(code) = 400 -> "malformed_reference"
      [] StatusCode(code) = 404 -> "not_found"
      [] OTHER -> "unavailable"

\* What a sender is told of an answer, and whether to try again: an answer may
\* say so, and the status of a server's failure always does.
Told(asked, code, marked) ==
    IF asked.origin # NoOrigin /\ IsVerification(asked.method, asked.path)
    THEN [code |-> Verdict(code), again |-> FALSE]
    ELSE [code |-> code, again |-> marked \/ StatusCode(code) >= 500]

Unreachable(asked) == Told(asked, "NETWORK_UNAVAILABLE", TRUE)

\* A page has the address it was built with, or none.
KnowsTheApi(origin) == origin \notin Unconfigured

\* apiRequest sends nothing without a token or without the API's address.  A
\* page that sends a token crosses origins, so its browser asks first; a
\* program sends as it likes.
Send(method, path, origin, bearer) ==
    LET asked == [method |-> method, path |-> path, origin |-> origin, bearer |-> bearer]
        page == origin # NoOrigin
        tokenless == page /\ ~bearer /\ ~IsVerification(method, path)
    IN  /\ at = "idle" /\ (method = "OPTIONS" => ~page)
        /\ request' = asked
        /\ \/ tokenless /\ at' = "answered"
              /\ told' = [code |-> "UNAUTHORIZED", again |-> FALSE]
           \/ ~tokenless /\ ~KnowsTheApi(origin) /\ at' = "answered"
              /\ told' = [Told(asked, "CONFIGURATION_MISSING", FALSE) EXCEPT !.again = FALSE]
           \/ /\ ~tokenless /\ KnowsTheApi(origin) /\ UNCHANGED told
              /\ at' = IF page /\ bearer THEN "preflight" ELSE "arrived"
        /\ Quiet /\ UNCHANGED <<route, token, profile, body, ran, answer>>

\* A preflight is answered at once, by origin alone; the browser sends the
\* request only if origin and method are granted.
Preflight ==
    LET granted == OriginAllowed(request.origin) /\ request.method \in AllowedMethods
    IN  /\ at = "preflight"
        /\ at' = IF granted THEN "arrived" ELSE "answered"
        /\ told' = IF granted \/ told # None THEN told ELSE Unreachable(request)
        /\ Quiet /\ UNCHANGED <<request, route, token, profile, body, ran, answer>>

AnswerOptions ==
    /\ at = "arrived" /\ request.method = "OPTIONS"
    /\ AnswerWith(IF OriginAllowed(request.origin) THEN "granted" ELSE "refused")
    /\ Quiet /\ UNCHANGED <<request, route, token, profile, body, ran, told>>

\* The segment after /evidence/ is decoded before its route is known to fit.
FallThrough ==
    /\ at = "arrived" /\ request.method # "OPTIONS"
    /\ \/ request.path = <<"evidence", Undecodable>> /\ AnswerWith("INTERNAL_ERROR")
       \/ /\ request.path # <<"evidence", Undecodable>>
          /\ AnsweringRoute(request.method, request.path) = None
          /\ AnswerWith("NOT_FOUND")
    /\ Quiet /\ UNCHANGED <<request, route, token, profile, body, ran, told>>

\* extractBearerToken is part of this step: it waits for nothing.
Dispatch ==
    LET r == AnsweringRoute(request.method, request.path)
    IN  /\ at = "arrived" /\ request.method # "OPTIONS"
        /\ request.path # <<"evidence", Undecodable>> /\ r # None
        /\ route' = r
        /\ \/ r.who = "anyone" /\ at' = "call" /\ UNCHANGED <<token, answer, roles, wasLive>>
           \/ r.who # "anyone" /\ ~request.bearer /\ AnswerWith("UNAUTHORIZED")
              /\ UNCHANGED <<token, roles, wasLive>>
           \/ /\ r.who # "anyone" /\ request.bearer
              /\ token' \in Tokens
              /\ roles' = {role[Owner[token']]} /\ wasLive' = (token' \in live)
              /\ at' = "user" /\ UNCHANGED answer
        /\ UNCHANGED <<environment, request, profile, body, ran, told, role, live, changes>>

\* The client, then auth.getUser, which refuses a token that is not valid, and
\* also fails.
GetUser ==
    /\ at = "user"
    /\ \/ HasUserClient /\ token \in live /\ at' = "profile" /\ UNCHANGED answer
       \/ HasUserClient /\ AnswerWith("UNAUTHORIZED")
       \/ ~HasUserClient /\ AnswerWith("CONFIGURATION_ERROR")
    /\ Quiet /\ UNCHANGED <<request, route, token, profile, body, ran, told>>

ReadProfile ==
    /\ at = "profile"
    /\ \/ /\ role[Owner[token]] \in {"student", "founder_admin"}
          /\ profile' = role[Owner[token]] /\ at' = "assurance" /\ UNCHANGED answer
       \/ AnswerWith("FORBIDDEN") /\ UNCHANGED profile
    /\ Quiet /\ UNCHANGED <<request, route, token, body, ran, told>>

\* Mutant: the guard asks for a second factor only.
RequireMfaOnly(seen, t) == Owner[t] \in Confirmed /\ t \in Assured
RequireFounderAdmin(seen, t) ==
    seen = "founder_admin" /\ Owner[t] \in Confirmed /\ t \in Assured

\* The assurance level is the token's; the administrator's guard follows it
\* without waiting.
ReadAssurance ==
    /\ at = "assurance"
    /\ \/ AnswerWith("DEPENDENCY_UNAVAILABLE")
       \/ /\ route.who = "founder" /\ ~RequireFounderAdmin(profile, token)
          /\ AnswerWith("FORBIDDEN")
       \/ /\ route.who = "founder" => RequireFounderAdmin(profile, token)
          /\ IF DecodesFirst(route) /\ IsMalformed(route, request.path)
             THEN AnswerWith("INTERNAL_ERROR")
             ELSE at' = (IF route.sends THEN "body" ELSE "call") /\ UNCHANGED answer
    /\ Quiet /\ UNCHANGED <<request, route, token, profile, body, ran, told>>

\* A body that is too large or no JSON object is rejected.
ReadBody ==
    /\ at = "body"
    /\ body' \in Bodies
    /\ IF body' = "rejected" THEN AnswerWith("VALIDATION_ERROR") ELSE at' = "call" /\ UNCHANGED answer
    /\ Quiet /\ UNCHANGED <<request, route, token, profile, ran, told>>

\* The arguments are made before the operation is called: parameters are
\* decoded, and some bodies must have the right shape.
CallOperation ==
    LET undecodable == IsMalformed(route, request.path)
        misshapen == body = "unfit" /\ route.calls \in Coerces
    IN  /\ at = "call"
        /\ \/ undecodable /\ AnswerWith("INTERNAL_ERROR") /\ UNCHANGED ran
           \/ ~undecodable /\ misshapen /\ AnswerWith("VALIDATION_ERROR") /\ UNCHANGED ran
           \/ /\ ~undecodable /\ misshapen /\ route.calls \in CoercesElements
              /\ AnswerWith("INTERNAL_ERROR") /\ UNCHANGED ran
           \/ /\ ~undecodable /\ ~misshapen
              /\ ran' = route.calls
              /\ \E outcome \in {"done"} \cup OperationFailures : AnswerWith(outcome)
        /\ Quiet /\ UNCHANGED <<request, route, token, profile, body, told>>

\* An operation's own refusal may be marked as one to try again.
Deliver ==
    /\ at = "answered" /\ told = None /\ answer # None
    /\ \E marked \in BOOLEAN :
          /\ marked => ran # None /\ answer \in OperationFailures
          /\ told' = IF Readable THEN Told(request, answer, marked) ELSE Unreachable(request)
    /\ Quiet /\ UNCHANGED <<request, at, route, token, profile, body, ran, answer>>

\* The connection is lost, or the page goes on: the server does not notice.
Lose ==
    /\ request # None /\ told = None
    /\ told' = Unreachable(request)
    /\ Quiet /\ UNCHANGED <<request, at, route, token, profile, body, ran, answer>>

\* What happened before the token is looked at is as if it always was so.
Underway == at \in {"user", "profile", "assurance", "body", "call"} /\ token # None

ChangeRole(r) ==
    LET sender == Owner[token]
    IN  /\ Underway /\ changes < MaxChanges /\ role[sender] # r
        /\ role' = [role EXCEPT ![sender] = r] /\ roles' = roles \cup {r}
        /\ changes' = changes + 1
        /\ UNCHANGED <<environment, request, at, route, token, profile, body, ran, answer, told,
                       live, wasLive>>

SignOut ==
    /\ Underway /\ changes < MaxChanges /\ token \in live
    /\ live' = live \ {token} /\ changes' = changes + 1
    /\ UNCHANGED <<environment, request, at, route, token, profile, body, ran, answer, told, role,
                   roles, wasLive>>

Served ==
    /\ at = "failed" \/ (at = "answered" /\ told # None)
    /\ UNCHANGED httpVars

HttpNext ==
    \/ /\ at = "idle"
       /\ \E m \in Methods, p \in Paths, o \in Origins \cup {NoOrigin}, b \in BOOLEAN : Send(m, p, o, b)
    \/ Start \/ Shutdown \/ Preflight \/ AnswerOptions \/ FallThrough \/ Dispatch
    \/ GetUser \/ ReadProfile \/ ReadAssurance \/ ReadBody \/ CallOperation
    \/ Deliver \/ Lose
    \/ \E r \in {"student", "founder_admin", "none"} : ChangeRole(r)
    \/ SignOut \/ Served

HttpSpec == HttpInit /\ [][HttpNext]_httpVars
-----------------------------------------------------------------------------
HttpTypeOK ==
    /\ at \in {"down", "failed", "idle", "preflight", "arrived", "user", "profile", "assurance", "body", "call", "answered"}
    /\ route = None \/ route \in Range(Routes)
    /\ token \in Tokens \cup {None} /\ body \in Bodies \cup {None}
    /\ profile \in {"student", "founder_admin", None}
    /\ live \subseteq Live0 /\ changes \in 0..MaxChanges
    /\ told = None \/ told.again \in BOOLEAN

\* Whatever fails, is lost or changes meanwhile: no body is read and no
\* operation called, but of a public route, for a sender whose token was not
\* valid at some moment of this request; and none of an administrator's for
\* one who was not, while it lasted, an administrator with a verified address
\* and a second factor.
OnlyTheTrustedAct ==
    body # None \/ ran # None =>
        /\ route.who # "anyone" => token # None /\ wasLive
        /\ route.who = "founder" =>
              "founder_admin" \in roles /\ Owner[token] \in Confirmed /\ token \in Assured

\* A pattern says more than another if it has words where that has parameters.
Narrower(p, q) ==
    /\ p # q /\ Len(p) = Len(q)
    /\ \A k \in DOMAIN p : p[k] = q[k] \/ q[k] \in Parameters

\* No route takes a request from one whose path says more, though the first in
\* the order of the handler answers; and a word that names a collection of
\* Evidence is not taken for the id of a record, whatever the method.
NoneIsShadowed ==
    [][route' # route =>
          \A r \in Range(Routes) :
              (r.method = request.method \/ request.path[1] = "evidence")
                  /\ FitsPath(r.path, request.path) => ~Narrower(r.path, route'.path)]_httpVars

\* The same of every word and method, which does not hold: the word of a
\* collection of notes is taken for a note's id by the methods it lacks.
NoWordIsAnId ==
    [][route' # route =>
          \A r \in Range(Routes) :
              FitsPath(r.path, request.path) => ~Narrower(r.path, route'.path)]_httpVars
=============================================================================

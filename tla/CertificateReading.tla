------------------------- MODULE CertificateReading -------------------------
(***************************************************************************)
(* Reading issued certificates while they are corrected and expire: the    *)
(* public verification of one reference                                    *)
(* (services/api/src/certificate-verification.ts), and the portfolio,      *)
(* presentation and export of the student who owns them                    *)
(* (certificate-portfolio.ts, certificate-presentation.ts,                 *)
(* certificate-export.ts), each with the view that asks for it.            *)
(*                                                                         *)
(* A reading is several queries of their own and one look at the clock.    *)
(* Certificates, their definitions and their competencies do not change    *)
(* once issued; what a reading can see change is the lifecycle history.    *)
(***************************************************************************)
EXTENDS CertificateLifecycle, RecordView

CONSTANTS
    Student,        \* whose portfolio is open
    Reference,      \* the certificate a verification reference names, or NoCertificate
    Filters,        \* statuses the student may filter by, and NoFilter
    NoFilter,
    Mounts,         \* which views may be open together
    MaxAborted      \* bound: filter changes before the aborted requests have ended

Views == {"verification", "portfolio", "presentation", "export"}

\* Views that load again when the filters change.
Filtered == {"portfolio", "presentation"}

ASSUME CertificateReadingAssumption ==
    /\ NoFilter \in Filters /\ Filters \subseteq CertificateLifecycleStatus \cup {NoFilter}
    /\ Reference \in Certificates \cup {NoCertificate}
    /\ Mounts \subseteq SUBSET Views
    /\ MaxAborted \in Nat

VARIABLES
    open,           \* the views that are mounted
    filters,        \* what the filter controls say
    view            \* [Views -> a view and the requests it has under way]

readerVars == <<open, filters, view>>
allVars == <<vars, readerVars>>

Unreadable == "unreadable"

\* A status per certificate, for the certificates the filters let through.
AnswerAbout(statuses) ==
    [outcome : {"answered"}, filters : Filters, status : statuses, unresolved : SUBSET Certificates]

Read == UNION {[C -> CertificateLifecycleStatus \cup {Unreadable}] : C \in SUBSET Certificates}

CertificateAnswer ==
    AnswerAbout(Read) \cup [outcome : {"not_found", "unavailable", "error"}, filters : Filters]

\* read is what the history said, clock what had lapsed when the reading looked
\* at the clock.  had and late only serve the property: the statuses recorded
\* since the request began, and what had lapsed when it did.
Reading ==
    [step : {"certificates", "events", "details", "answered"}, filters : Filters,
     read : Read, clock : SUBSET Certificates, answer : CertificateAnswer \cup {Nothing},
     had : [Certificates -> SUBSET CertificateLifecycleStatus], late : SUBSET Certificates]

ReadingTypeOK ==
    /\ TypeOK
    /\ open \in Mounts
    /\ filters \in Filters
    /\ view \in [Views -> ViewOf(Reading, CertificateAnswer)]

-----------------------------------------------------------------------------
\* A request leaves its view; verification looks at the clock before it reads.
Begun(f) ==
    [step |-> "certificates", filters |-> f, read |-> <<>>, clock |-> lapsed,
     answer |-> Nothing, had |-> [c \in Certificates |-> {RecordedStatus(c)}], late |-> lapsed]

ReadingInit ==
    /\ Init
    /\ open \in Mounts
    /\ filters = NoFilter
    /\ view = [v \in Views |-> IF v \in open \ {"export"} THEN Reloaded(Unused, Begun(NoFilter))
                               ELSE Unused]

ViewBecomes(v, new) ==
    /\ view' = [view EXCEPT ![v] = new]
    /\ UNCHANGED <<vars, open, filters>>

Loads(v) == DOMAIN view[v].loads

Goes(v, i, load) == ViewBecomes(v, [view[v] EXCEPT !.loads[i] = load])

AnswersWith(v, i, answer) ==
    Goes(v, i, [view[v].loads[i] EXCEPT !.step = "answered", !.answer = answer])

\* What a reading is about.
Asked(v) ==
    IF v = "verification" THEN {Reference} \ {NoCertificate}
    ELSE {c \in Certificates : Owner[c] = Student}

\* The certificate rows, by verification reference or by owner.
ReadCertificates(v, i) ==
    LET load == view[v].loads[i]
    IN  /\ load.step = "certificates"
        /\ \/ /\ Asked(v) # {}
              /\ Goes(v, i, [load EXCEPT !.step = "events"])
           \/ /\ Asked(v) = {}
              /\ AnswersWith(v, i,
                    IF v = "verification" THEN [outcome |-> "not_found", filters |-> load.filters]
                    ELSE [outcome |-> "answered", filters |-> load.filters, status |-> <<>>,
                          unresolved |-> {}])

\* A history is replayed or not presented at all.
StatusRead(c) == IF Replays(lifecycle[c]) THEN RecordedStatus(c) ELSE Unreadable

\* All histories, in one query.
ReadEvents(v, i) ==
    LET load == view[v].loads[i]
    IN  /\ load.step = "events"
        /\ Goes(v, i, [load EXCEPT !.step = "details", !.read = [c \in Asked(v) |-> StatusRead(c)]])

\* Mutant: a pinned expiry date that has passed decides alone.
ExpiryDecides(c, status, clock) == IF c \in clock THEN "expired" ELSE status

\* resolveEffectiveCertificateStatus: a recorded status wins over the clock.
StatusTold(c, status, clock) ==
    IF status = "active" /\ c \in clock THEN "expired" ELSE status

LetThrough(f, status) == f = NoFilter \/ status = f

\* buildCertificateVerificationRecord; assembleCertificatePortfolio, which the
\* presentation and the export are made of.
AnswerOf(v, load, clock) ==
    LET told  == [c \in DOMAIN load.read |-> StatusTold(c, load.read[c], clock)]
        known == {c \in DOMAIN told : told[c] # Unreadable}
    IN  IF v = "verification" /\ known # DOMAIN told
        THEN [outcome |-> "unavailable", filters |-> load.filters]
        ELSE LET shown == {c \in known : LetThrough(load.filters, told[c])}
             IN  [outcome |-> "answered", filters |-> load.filters,
                  status |-> [c \in shown |-> told[c]], unresolved |-> DOMAIN told \ known]

\* Definitions, competency snapshots and titles; the owner's readings look at
\* the clock only now.  The display name and the brand of a presentation are
\* read last, and only dress what is already decided.
Resolve(v, i) ==
    LET load  == view[v].loads[i]
        clock == IF v = "verification" THEN load.clock ELSE lapsed
    IN  /\ load.step = "details"
        /\ Goes(v, i, [load EXCEPT !.step = "answered", !.clock = clock,
                                   !.answer = AnswerOf(v, load, clock)])

\* A query fails: the verification is unavailable, the student's request fails
\* as a whole.
QueryFails(v, i) ==
    /\ view[v].loads[i].step # "answered"
    /\ AnswersWith(v, i, [outcome |-> IF v = "verification" THEN "unavailable" ELSE "error",
                          filters |-> view[v].loads[i].filters])

Arrive(v, i) ==
    LET answer == view[v].loads[i].answer
    IN  /\ view[v].loads[i].step = "answered"
        /\ ViewBecomes(v, IF answer.outcome = "error" THEN FailedLoad(view[v], i)
                      ELSE Landed(view[v], i, answer))

\* The service cannot be reached.
NetworkFails(v, i) ==
    ViewBecomes(v, IF v = "verification"
               THEN Landed(view[v], i, [outcome |-> "unavailable", filters |-> NoFilter])
               ELSE FailedLoad(view[v], i))

AbortSettles(v) == view[v].aborted > 0 /\ ViewBecomes(v, Settled(view[v]))

\* The student chooses filters, the same ones too, or the session is refreshed.
SetFilters(f) ==
    /\ open \cap Filtered # {}
    /\ \A v \in open \cap Filtered : view[v].aborted < MaxAborted
    /\ filters' = f
    /\ view' = [v \in Views |-> IF v \in open \cap Filtered THEN Reloaded(view[v], Begun(f))
                                ELSE view[v]]
    /\ UNCHANGED <<vars, open>>

\* The verification page is opened again.
Reopen ==
    /\ "verification" \in open
    /\ ViewBecomes("verification", Reloaded(Unused, Begun(NoFilter)))

\* The panel takes the filters as they are; its button waits for the answer.
RequestExport ==
    /\ "export" \in open
    /\ ~view["export"].loading
    /\ ViewBecomes("export", Reloaded(view["export"], Begun(filters)))

\* The statuses a certificate has had since a request began.
Witnessed(load) == [load EXCEPT !.had = [c \in Certificates |-> @[c] \cup {RecordedStatus(c)'}]]

\* Corrections and time go on under the readings.
World ==
    /\ Next
    /\ view' = [v \in Views |-> [view[v] EXCEPT !.loads = [i \in DOMAIN @ |-> Witnessed(@[i])]]]
    /\ UNCHANGED <<open, filters>>

ReadingNext ==
    \/ World
    \/ \E v \in Views :
          \/ \E i \in Loads(v) :
                \/ ReadCertificates(v, i) \/ ReadEvents(v, i) \/ Resolve(v, i)
                \/ QueryFails(v, i) \/ Arrive(v, i) \/ NetworkFails(v, i)
          \/ AbortSettles(v)
    \/ \E f \in Filters : SetFilters(f)
    \/ Reopen \/ RequestExport

ReadingSpec == ReadingInit /\ [][ReadingNext]_allVars

\* Nothing is asked of the readers.
ReadingFairSpec == ReadingSpec /\ Fairness
-----------------------------------------------------------------------------
\* Whatever a correction, an expiry and the queries of a reading do to each
\* other, each status it tells was so at a moment of the request: nobody is
\* told that a certificate stands which had been revoked, replaced or corrected
\* before they asked, or that one has lapsed which has not.
ToldAsItWas ==
    \A v \in Views : \A i \in Loads(v) :
        LET load == view[v].loads[i]
        IN  load.step = "answered" /\ load.answer.outcome = "answered" =>
                \A c \in DOMAIN load.answer.status :
                    LET status == load.answer.status[c]
                    IN  CASE status = "active"  -> "active" \in load.had[c] /\ c \notin load.late
                          [] status = "expired" -> "active" \in load.had[c] /\ c \in lapsed
                          [] OTHER -> status \in load.had[c]

\* When nothing is under way and no error is shown, what a filtered view shows
\* is an answer to the filters it shows, however the filters were changed and
\* in whichever order the requests ended.
ShowsItsFilters ==
    \A v \in open \cap Filtered :
        view[v].loads = <<>> /\ ~view[v].failed => view[v].shown.filters = filters

\* What is shown without a sign of loading or of failure belongs to the filters.
LoadingIsSaid ==
    \A v \in open \cap Filtered :
        ~view[v].loading /\ ~view[v].failed => view[v].shown.filters = filters

\* The copy that may be saved is one of the certificates the filters select.
ExportIsOfTheView == view["export"].shown # Nothing => view["export"].shown.filters = filters
=============================================================================

-------------------------- MODULE EvidenceReading --------------------------
(***************************************************************************)
(* A student's Evidence read while administrators correct it: the          *)
(* portfolio (services/api/src/evidence-portfolio.ts), the export that     *)
(* gives every record its verification reference (evidence-export.ts and   *)
(* migration 20260813000600), and the page that asks for both              *)
(* (apps/web/src/evidence).                                                *)
(*                                                                         *)
(* First the projections it is shown through (packages/shared-types/src/   *)
(* evidence-portfolio.ts, evidence-export.ts, evidence-competency.ts):     *)
(* what counts as current proof, which records the filters let through,    *)
(* how they are grouped by competency, and what an export says of each.    *)
(* A competency is named by its exact reference, [id, version].  Labels,   *)
(* dates and wording are left out.                                         *)
(*                                                                         *)
(* A reading is one query after another, each a transaction of its own,    *)
(* while records are added, linked and corrected.  Exports of the same     *)
(* student, from several browser tabs, mint references at the same time.   *)
(***************************************************************************)
EXTENDS EvidenceCorrection, RecordView, SequencesExt

CONSTANTS
    Competencies,   \* references links may name
    Definition,     \* [Competencies -> the state of the definition's row]
    Course,         \* [Competencies -> the course its mission belongs to]
    NoCourse,
    Result,         \* [Evidence record -> what its source engine recorded]
    SourceType,     \* [Evidence record -> assessment attempt, lab validation, ...]
    AnyValue,       \* a filter that is not set
    Limit           \* EVIDENCE_PORTFOLIO_DEFAULT_LIMIT

\* The entries at the positions to keep, in their order.
Picked(entries, keep) ==
    LET picked[i \in 0..Len(entries)] ==
            IF i = 0 THEN <<>>
            ELSE IF i \in keep THEN Append(picked[i - 1], entries[i]) ELSE picked[i - 1]
    IN  picked[Len(entries)]

DefinitionState == {"draft", "published", "retired", "absent"}

\* deriveEvidenceOutcome
EvidenceOutcome(result) ==
    CASE result = "passed" -> "positive"
      [] result \in {"failed", "incomplete"} -> "negative"
      [] OTHER -> "indeterminate"

\* isCurrentProof; every record carries a verified integrity state.
CurrentProof(state, result) == state = "active" /\ EvidenceOutcome(result) = "positive"

\* classifyCompetencyReference: how the linked version stands to the present.
ReferenceState(c) ==
    CASE Definition[c] = "absent"  -> "missing"
      [] Definition[c] = "retired" -> "retired"
      [] \E d \in Competencies : /\ d.id = c.id /\ d.version > c.version
                                 /\ Definition[d] = "published" -> "superseded_version"
      [] OTHER -> "current"

\* resolveCompetencyCurriculumContext: exact versions only, and a competency
\* no published mission teaches is absent.
Placed(references) ==
    {c \in references : Definition[c] # "absent" /\ Course[c] # NoCourse}

\* withEffectiveEvidenceState
StateRead(history) ==
    [state |-> EffectiveState(history), review |-> UnderReview(history),
     replacement |-> SupersededBy(history)]

\* projectItem
Item(e, read, links, contexts) ==
    [evidence |-> e, source |-> SourceType[e], state |-> read.state, review |-> read.review,
     replacement |-> read.replacement, proof |-> CurrentProof(read.state, Result[e]),
     competencies |-> [c \in links |-> ReferenceState(c)],
     courses |-> [c \in links \cap contexts |-> Course[c]]]

\* filterPortfolioItems
LetThrough(item, f) ==
    /\ f.source \in {AnyValue, item.source}
    /\ f.competency # AnyValue => \E c \in DOMAIN item.competencies : c.id = f.competency
    /\ f.course # AnyValue => \E c \in DOMAIN item.courses : item.courses[c] = f.course

\* groupPortfolioItemsByCompetency
Groups(items) ==
    [c \in UNION {DOMAIN items[i].competencies : i \in DOMAIN items} |->
        LET grouped == Picked(items, {i \in DOMAIN items : c \in DOMAIN items[i].competencies})
        IN  [items |-> grouped,
             proofs |-> Cardinality({i \in DOMAIN grouped : grouped[i].proof})]]

\* selectUngroupedItems
UngroupedItems(items) ==
    Picked(items, {i \in DOMAIN items : DOMAIN items[i].competencies = {}})

\* buildPortfolioFilterOptions
FilterOptions(items) ==
    [sources |-> {items[i].source : i \in DOMAIN items},
     competencies |-> UNION {DOMAIN items[i].competencies : i \in DOMAIN items},
     courses |-> UNION {{items[i].courses[c] : c \in DOMAIN items[i].courses} : i \in DOMAIN items}]

\* assembleEvidencePortfolio: the filters constrain first, the limit then cuts.
Portfolio(items, f, unavailable) ==
    LET filtered == Picked(items, {i \in DOMAIN items : LetThrough(items[i], f)})
        shown    == SubSeq(filtered, 1, IF Len(filtered) > Limit THEN Limit ELSE Len(filtered))
    IN  [outcome |-> "answered", filters |-> f, items |-> shown, groups |-> Groups(shown),
         ungrouped |-> UngroupedItems(shown), unavailable |-> unavailable,
         options |-> FilterOptions(items)]

\* deriveVerificationStatus
VerificationStatus(state) ==
    CASE state = "active"      -> "current"
      [] state = "invalidated" -> "revoked"
      [] state = "superseded"  -> "superseded"

\* toExportedEvidenceItem: it names the record by its opaque reference only;
\* `about` keeps the record for the properties.
ExportedItem(item, reference) ==
    [about |-> item.evidence, reference |-> reference, status |-> VerificationStatus(item.state),
     demonstrates |-> item.proof,
     competencies |-> [c \in DOMAIN item.competencies |->
                          IF c \in DOMAIN item.courses THEN item.courses[c] ELSE NoCourse]]

\* exportStudentEvidence, its last part, and assembleEvidenceExport: an item
\* without a reference is left out and said to be.
Export(portfolio, references, unavailable) ==
    LET named == Picked(portfolio.items, {i \in DOMAIN portfolio.items :
                            portfolio.items[i].evidence \in DOMAIN references})
        items == [i \in DOMAIN named |-> ExportedItem(named[i], references[named[i].evidence])]
    IN  [outcome |-> "answered", filters |-> portfolio.filters, items |-> items,
         unavailable |-> unavailable, omitted |-> Len(portfolio.items) - Len(named),
         valid |-> Cardinality({i \in DOMAIN items : items[i].status = "current"})]

-----------------------------------------------------------------------------
CONSTANTS
    Student,        \* whose Evidence is read
    Links,          \* [Evidence -> the competencies it is linked to, once linked]
    Panels,         \* export panels, one in each browser tab
    FilterChoices,  \* filters the student may choose
    NoReference,
    Initially,      \* what may have been recorded when the page is opened
    Mounts,         \* which views may be open together
    MaxAborted      \* bound: filter changes before the aborted requests have ended

ReadViews == {"portfolio"} \cup Panels

NoFilters == [source |-> AnyValue, competency |-> AnyValue, course |-> AnyValue]

ASSUME EvidenceReadingAssumption ==
    /\ Links \in [Evidence -> SUBSET Competencies]
    /\ Definition \in [Competencies -> DefinitionState]
    /\ NoFilters \in FilterChoices
    /\ Initially \subseteq Seq(Evidence) /\ \A opening \in Initially : IsInjective(opening)
    /\ "portfolio" \notin Panels /\ Mounts \subseteq SUBSET ReadViews
    /\ Limit \in Nat \ {0} /\ MaxAborted \in Nat

VARIABLES
    recorded,       \* evidence_records: the records, in the order they were recorded
    linked,         \* records whose evidence_competency_links are written
    reference,      \* [Evidence -> evidence_verification_references]
    open,           \* the views that are mounted
    filters,        \* what the filter controls of the portfolio say
    view            \* [ReadViews -> a view and the requests it has under way]

tables == <<recorded, linked, reference>>
readVars == <<tables, open, filters, view>>
readingVars == <<vars, readVars>>

\* mintVerificationId: random, so that no two mints agree.
MintedBy(v, e) == <<v, e>>

ReadStep == {"records", "histories", "links", "context", "references", "mint", "readBack",
             "answered"}

\* had and began only serve the properties: the states all records had together
\* at each moment since the request began, and the records there were then.
EvidenceLoad(load) ==
    /\ load.step \in ReadStep
    /\ load.filters \in FilterChoices
    /\ load.rows \in Seq(Evidence)
    /\ DOMAIN load.read \subseteq Evidence
    /\ load.linked \subseteq Evidence
    /\ load.missing \subseteq Evidence
    /\ load.unavailable \subseteq {"links", "context", "references"}
    /\ load.had \subseteq [Evidence -> EvidenceState]
    /\ load.began \subseteq Evidence

ReadingTypeOK ==
    /\ TypeOK
    /\ recorded \in Seq(Evidence) /\ linked \subseteq Range(recorded)
    /\ reference \in [Evidence -> {NoReference} \cup (Panels \X Evidence)]
    /\ open \in Mounts /\ filters \in FilterChoices
    /\ \A v \in ReadViews :
          /\ view[v].aborted \in Nat /\ view[v].loading \in BOOLEAN /\ view[v].failed \in BOOLEAN
          /\ \A i \in DOMAIN view[v].loads : EvidenceLoad(view[v].loads[i])
-----------------------------------------------------------------------------
StatesNow == [e \in Evidence |-> EffectiveState(log[e])]

\* A request leaves its view.
Begun(f) ==
    [step |-> "records", filters |-> f, rows |-> <<>>, read |-> <<>>, linked |-> {},
     missing |-> {}, unavailable |-> {}, portfolio |-> Nothing, answer |-> Nothing,
     had |-> {StatesNow}, began |-> {e \in Range(recorded) : Owner[e] = Student}]

\* The page is opened on the records there are; nothing was exported before.
ReadingInit ==
    /\ Init
    /\ recorded \in Initially /\ linked = Range(recorded)
    /\ reference = [e \in Evidence |-> NoReference]
    /\ open \in Mounts
    /\ filters = NoFilters
    /\ view = [v \in ReadViews |-> IF v = "portfolio" /\ v \in open
                                   THEN Reloaded(Unused, Begun(NoFilters)) ELSE Unused]

ViewBecomes(v, new) ==
    /\ view' = [view EXCEPT ![v] = new]
    /\ UNCHANGED <<vars, tables, open, filters>>

Goes(v, i, load) == ViewBecomes(v, [view[v] EXCEPT !.loads[i] = load])

Answers(v, i, answer) ==
    Goes(v, i, [view[v].loads[i] EXCEPT !.step = "answered", !.answer = answer])

\* Mutant: items are made for the records whose links were read.
ItemsOfLinks(load) ==
    LET rows == Picked(load.rows, {k \in DOMAIN load.rows : load.rows[k] \in load.linked})
    IN  [k \in DOMAIN rows |-> Item(rows[k], load.read[rows[k]], Links[rows[k]],
                                    Placed(Links[rows[k]]))]

\* getStudentEvidencePortfolio, the items: every record listed, whatever else
\* could not be read.
Items(load) ==
    [k \in DOMAIN load.rows |->
        LET e     == load.rows[k]
            links == IF e \in load.linked THEN Links[e] ELSE {}
        IN  Item(e, load.read[e], links,
                 IF "context" \in load.unavailable THEN {} ELSE Placed(links))]

\* The portfolio is complete; an export goes on from it.
Complete(v, i, load) ==
    LET portfolio == Portfolio(Items(load), load.filters, load.unavailable)
    IN  Goes(v, i,
          IF v = "portfolio" THEN [load EXCEPT !.step = "answered", !.answer = portfolio]
          ELSE IF portfolio.items = <<>>
          THEN [load EXCEPT !.step = "answered", !.answer = Export(portfolio, <<>>, load.unavailable)]
          ELSE [load EXCEPT !.step = "references", !.portfolio = portfolio])

\* listStudentEvidence: the student's records, the newest first.
ReadRecords(v, i) ==
    LET load == view[v].loads[i]
        own  == Reverse(Picked(recorded, {k \in DOMAIN recorded : Owner[recorded[k]] = Student}))
    IN  /\ load.step = "records"
        /\ \/ own = <<>> /\ Complete(v, i, load)
           \/ own # <<>> /\ Goes(v, i, [load EXCEPT !.step = "histories", !.rows = own])

\* Mutant: the histories are asked for one record at a time.
ReadHistoriesOneByOne(v, i) ==
    LET load == view[v].loads[i]
    IN  /\ load.step = "histories"
        /\ \E e \in Range(load.rows) \ DOMAIN load.read :
              LET read == [d \in DOMAIN load.read \cup {e} |->
                              IF d = e THEN StateRead(log[e]) ELSE load.read[d]]
              IN  Goes(v, i, [load EXCEPT !.read = read,
                          !.step = IF DOMAIN read = Range(load.rows) THEN "links" ELSE "histories"])

\* loadCorrectionEventsByEvidence: all histories in one query.
ReadHistories(v, i) ==
    LET load == view[v].loads[i]
    IN  /\ load.step = "histories"
        /\ Goes(v, i, [load EXCEPT !.step = "links",
                                   !.read = [e \in Range(load.rows) |-> StateRead(log[e])]])

\* listEvidenceCompetencyLinksForEvidenceIds; no link, no context to resolve.
ReadLinks(v, i) ==
    LET load  == view[v].loads[i]
        found == {e \in Range(load.rows) \cap linked : Links[e] # {}}
    IN  /\ load.step = "links"
        /\ IF found = {} THEN Complete(v, i, load)
           ELSE Goes(v, i, [load EXCEPT !.step = "context", !.linked = found])

LinksFail(v, i) ==
    LET load == view[v].loads[i]
    IN  /\ load.step = "links"
        /\ Complete(v, i, [load EXCEPT !.unavailable = @ \cup {"links"}])

\* resolveCompetencyCurriculumContext, its five queries of the curriculum.
ResolveContext(v, i) == view[v].loads[i].step = "context" /\ Complete(v, i, view[v].loads[i])

ContextFails(v, i) ==
    LET load == view[v].loads[i]
    IN  /\ load.step = "context"
        /\ Complete(v, i, [load EXCEPT !.unavailable = @ \cup {"context"}])

Exported(load) == {load.portfolio.items[k].evidence : k \in DOMAIN load.portfolio.items}

ReferencesOf(ids) == [e \in {d \in ids : reference[d] # NoReference} |-> reference[e]]

\* ensureVerificationReferences: the references there are already.
LoadReferences(v, i) ==
    LET load    == view[v].loads[i]
        missing == {e \in Exported(load) : reference[e] = NoReference}
    IN  /\ load.step = "references"
        /\ IF missing = {}
           THEN Answers(v, i, Export(load.portfolio, ReferencesOf(Exported(load)), load.unavailable))
           ELSE Goes(v, i, [load EXCEPT !.step = "mint", !.missing = missing])

\* One INSERT ... ON CONFLICT (evidence_id) DO NOTHING for all that are missing;
\* guard_evidence_verification_reference finds the owner to be the student.
MintReferences(v, i) ==
    LET load == view[v].loads[i]
    IN  /\ load.step = "mint"
        /\ reference' = [e \in Evidence |-> IF e \in load.missing /\ reference[e] = NoReference
                                            THEN MintedBy(v, e) ELSE reference[e]]
        /\ view' = [view EXCEPT ![v].loads[i].step = "readBack"]
        /\ UNCHANGED <<vars, recorded, linked, open, filters>>

\* Mutant: the references minted are told, not read back.
TellMinted(v, i) ==
    LET load == view[v].loads[i]
        told == [e \in Exported(load) |-> IF e \in load.missing THEN MintedBy(v, e)
                                                                ELSE reference[e]]
    IN  /\ load.step = "readBack"
        /\ Answers(v, i, Export(load.portfolio, told, load.unavailable))

\* Read back, so that a concurrent export's reference wins over this one's.
ReadBack(v, i) ==
    LET load == view[v].loads[i]
    IN  /\ load.step = "readBack"
        /\ Answers(v, i, Export(load.portfolio, ReferencesOf(Exported(load)), load.unavailable))

\* Minted or not, the references cannot be told; the export says so.
ReferencesFail(v, i) ==
    LET load == view[v].loads[i]
    IN  /\ load.step \in {"references", "mint", "readBack"}
        /\ Answers(v, i, Export(load.portfolio, <<>>, load.unavailable \cup {"references"}))

\* The records or their histories cannot be read: the request fails.
ListingFails(v, i) ==
    /\ view[v].loads[i].step \in {"records", "histories"}
    /\ Answers(v, i, [outcome |-> "error"])

Arrive(v, i) ==
    LET answer == view[v].loads[i].answer
    IN  /\ view[v].loads[i].step = "answered"
        /\ ViewBecomes(v, IF answer.outcome = "error" THEN FailedLoad(view[v], i)
                          ELSE Landed(view[v], i, answer))

\* The answer is lost, or the service is; what was minted stays.
NetworkFails(v, i) == ViewBecomes(v, FailedLoad(view[v], i))

AbortSettles(v) == view[v].aborted > 0 /\ ViewBecomes(v, Settled(view[v]))

\* The student chooses filters, the same ones too, or the session is refreshed.
SetFilters(f) ==
    /\ "portfolio" \in open /\ view["portfolio"].aborted < MaxAborted
    /\ filters' = f
    /\ view' = [view EXCEPT !["portfolio"] = Reloaded(@, Begun(f))]
    /\ UNCHANGED <<vars, tables, open>>

\* The panel takes the filters of its page; its button waits for the answer.
RequestExport(v, f) ==
    /\ v \in open \cap Panels
    /\ ~view[v].loading
    /\ ViewBecomes(v, Reloaded(view[v], Begun(f)))

\* Evidence creation and linking, as EvidenceIntake carries them out.
RecordEvidence(e) ==
    /\ e \notin Range(recorded)
    /\ recorded' = Append(recorded, e)
    /\ UNCHANGED <<vars, linked, reference, open, filters, view>>

LinkEvidence(e) ==
    /\ e \in Range(recorded) \ linked
    /\ linked' = linked \cup {e}
    /\ UNCHANGED <<vars, recorded, reference, open, filters, view>>

\* Corrections go on under the readings.
Corrections ==
    /\ Next
    /\ view' = [v \in ReadViews |->
                  [view[v] EXCEPT !.loads = [i \in DOMAIN view[v].loads |->
                      [view[v].loads[i] EXCEPT !.had = @ \cup {StatesNow'}]]]]
    /\ UNCHANGED <<tables, open, filters>>

ReadingNext ==
    \/ Corrections
    \/ \E v \in ReadViews :
          \/ \E i \in DOMAIN view[v].loads :
                \/ ReadRecords(v, i) \/ ReadHistories(v, i) \/ ListingFails(v, i)
                \/ ReadLinks(v, i) \/ LinksFail(v, i)
                \/ ResolveContext(v, i) \/ ContextFails(v, i)
                \/ LoadReferences(v, i) \/ MintReferences(v, i) \/ ReadBack(v, i)
                \/ ReferencesFail(v, i)
                \/ Arrive(v, i) \/ NetworkFails(v, i)
          \/ AbortSettles(v)
          \/ \E f \in FilterChoices : RequestExport(v, f)
    \/ \E f \in FilterChoices : SetFilters(f)
    \/ \E e \in Evidence : RecordEvidence(e) \/ LinkEvidence(e)

ReadingSpec == ReadingInit /\ [][ReadingNext]_readingVars
-----------------------------------------------------------------------------
Told(v) ==
    {view[v].loads[i].answer : i \in {j \in DOMAIN view[v].loads : view[v].loads[j].step = "answered"}}
        \cup ({view[v].shown} \ {Nothing})

\* A reference a student was ever told for a record is the one the record
\* keeps: two exports under way together agree, whoever minted first, and what
\* either said goes on resolving.
ReferencesAreForGood ==
    \A v \in Panels : \A answer \in Told(v) :
        answer.outcome = "answered" =>
            \A k \in DOMAIN answer.items :
                answer.items[k].reference = reference[answer.items[k].about]

\* The states a portfolio or an export tells were all so together, at a moment
\* of the request: no mixture of a record before and another one after a
\* correction, and nothing that was over when the student asked.
ToldTogether ==
    \A v \in ReadViews : \A i \in DOMAIN view[v].loads :
        LET load == view[v].loads[i]
        IN  load.step = "answered" /\ load.answer.outcome = "answered" =>
                \E states \in load.had : \A k \in DOMAIN load.answer.items :
                    IF v = "portfolio"
                    THEN load.answer.items[k].state = states[load.answer.items[k].evidence]
                    ELSE load.answer.items[k].status
                           = VerificationStatus(states[load.answer.items[k].about])

\* What a portfolio without filters shows, in its groups and beside them.
Presented(answer) ==
    {answer.ungrouped[k].evidence : k \in DOMAIN answer.ungrouped}
        \cup UNION {{answer.groups[c].items[k].evidence : k \in DOMAIN answer.groups[c].items} :
                       c \in DOMAIN answer.groups}

\* Nothing is withheld: a portfolio without filters presents every record there
\* was when it was asked for, corrected or not, linked or not, and whichever of
\* the supplementary queries failed.
NothingWithheld ==
    \A i \in DOMAIN view["portfolio"].loads :
        LET load == view["portfolio"].loads[i]
        IN  load.step = "answered" /\ load.answer.outcome = "answered" /\ load.filters = NoFilters =>
                load.began \subseteq Presented(load.answer)
=============================================================================

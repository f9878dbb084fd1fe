-------------------------- MODULE CurriculumSearch --------------------------
(***************************************************************************)
(* The search for curriculum, from the page where a learner types          *)
(* (apps/web/src/search/CurriculumSearchView.tsx) to the queries of the    *)
(* database (services/api/src/curriculum-search.ts,                        *)
(* curriculum-record-search.ts, curriculum-step-search.ts and their        *)
(* database functions), while curriculum is published and retired.         *)
(*                                                                         *)
(* First what a search looks for and in which order it tells what it found *)
(* (packages/shared-types/src/search-terms.ts, search-typo.ts,             *)
(* search-ranking.ts and services/api/src/search-aliases.ts).  A term is a *)
(* wording without punctuation around it; how terms occur in each other    *)
(* and in a record's text is given by the constants.  A query is a term as *)
(* the learner wrote it, `dressed` if quotes or punctuation surround it;   *)
(* no text contains a dressed wording.                                     *)
(*                                                                         *)
(* A pass reads one content type after another, page by page, then the     *)
(* bodies of mission steps; each query is a transaction of its own.  The   *)
(* learner's notes are searched beside it, by a request of their own.      *)
(***************************************************************************)
EXTENDS Integers, SequencesExt

CONSTANTS
    Terms,
    NoTerm,
    Groups,         \* approved alias groups, sequences of terms that share none
    Acronyms,       \* terms matched as whole words, a plural s aside
    Singular,       \* [Terms -> the term it is the plural or possessive of]
    Within,         \* [Terms -> terms whose letters it contains]
    Curated,        \* CURATED_CURRICULUM_TERM_ALIASES: <<canonical, alias>> pairs
    Mentions,       \* [Terms -> terms among its words]
    Short,          \* terms below MIN_ALIAS_RETRIEVAL_LENGTH
    Correction,     \* [Query -> the one approved term one edit away, in its place]
    Rows,           \* published or not: [type, id, version]
    Title,          \* [Rows -> [Terms -> TitlePrecision]]
    Description,    \* [Rows -> terms in it]
    StepText        \* [Rows -> terms in the steps of a mission]

Query == [term : Terms, dressed : BOOLEAN]

MaxVariants == 4    \* MAX_CURRICULUM_QUERY_VARIANTS

MatchKinds == <<"exact", "normalized", "alias", "typo">>
TitlePrecisions == <<"whole_title", "title_token", "title_substring", "description_only">>
ContentTypes == <<"learning_path", "course", "mission", "competency">>

SearchConstants ==
    /\ NoTerm \notin Terms
    /\ Groups \subseteq Seq(Terms)
    /\ \A g \in Groups : Len(g) \in 2 .. MaxVariants - 1
    /\ \A g, h \in Groups : g # h => Range(g) \cap Range(h) = {}
    /\ Singular \in [Terms -> Terms \cup {NoTerm}]
    /\ Correction \in [Query -> Terms \cup {NoTerm}]
    /\ Rows \subseteq [type : Range(ContentTypes), id : Nat, version : Nat]
    /\ \A r \in Rows : Title[r] \in [Terms -> Range(TitlePrecisions)]

ASSUME SearchAssumption == SearchConstants
-----------------------------------------------------------------------------
\* supportedForms: as written, or the singular of what is written.
Forms(t) == {t, Singular[t]} \ {NoTerm}

\* findSearchAliasGroup; punctuation around the query does not count.
InGroup(q) == \E g \in Groups : Range(g) \cap Forms(q.term) # {}
GroupOf(q) == CHOOSE g \in Groups : Range(g) \cap Forms(q.term) # {}

\* acronymTermOf: the approved acronym a variant is a form of.
AcronymOf(q) ==
    LET found == {t \in Forms(q.term) \cap Acronyms : \E g \in Groups : t \in Range(g)}
    IN  IF found = {} THEN NoTerm ELSE CHOOSE t \in found : TRUE

Plain(t) == [term |-> t, dressed |-> FALSE]

Variant(value, kind) == [value |-> value, kind |-> kind]

\* add: each wording once, as many as are allowed.
Added(variants, value, kind) ==
    IF \/ \E i \in DOMAIN variants : variants[i].value = value
       \/ kind = "alias" /\ value.term \in Short
       \/ Len(variants) >= MaxVariants
    THEN variants ELSE Append(variants, Variant(value, kind))

\* buildCurriculumQueryVariants: the learner's own words always come first.
QueryVariants(q) ==
    LET own == Added(<<Variant(q, "exact")>>, Plain(q.term), "normalized")
        WithAlias(variants, pair) ==
            LET there == IF pair[2] \in Mentions[q.term]
                         THEN Added(variants, Plain(pair[1]), "alias") ELSE variants
            IN  IF pair[1] \in Mentions[q.term]
                THEN Added(there, Plain(pair[2]), "alias") ELSE there
    IN  FoldLeft(WithAlias, own, Curated)

\* Room is made by shortening a broader wording to the member it contains.
Shortened(draft, i) ==
    LET v      == draft.variants[i]
        usable == SelectSeq(draft.missing, LAMBDA m : m \notin Acronyms /\ m \in Within[v.value.term])
    IN  IF \/ Len(draft.variants) + Len(draft.missing) <= MaxVariants
           \/ AcronymOf(v.value) # NoTerm
           \/ usable = <<>>
        THEN draft
        ELSE [variants |-> [draft.variants EXCEPT ![i].value = Plain(usable[1])],
              missing  |-> SelectSeq(draft.missing, LAMBDA m : m # usable[1])]

\* buildAliasAwareQueryVariants: the other members of the query's group, too.
AliasAwareVariants(q) ==
    LET variants == QueryVariants(q)
        values   == {variants[i].value : i \in DOMAIN variants}
        seen     == values \cup {Plain(AcronymOf(v)) : v \in values}
        missing  == SelectSeq(GroupOf(q), LAMBDA m : Plain(m) \notin seen)
        draft    == FoldLeft(Shortened, [variants |-> variants, missing |-> missing],
                             [k \in 1 .. Len(variants) - 1 |-> Len(variants) + 1 - k])
        Join(vs, m) == IF Len(vs) >= MaxVariants THEN vs ELSE Append(vs, Variant(Plain(m), "alias"))
    IN  IF InGroup(q) THEN FoldLeft(Join, draft.variants, draft.missing) ELSE variants

\* buildCurriculumTypoRecovery: one token, one edit, toward an approved term.
TypoVariants(q) == <<Variant(Plain(Correction[q]), "typo")>>

\* buildCurriculumQueryAdjustment: what the learner is told was searched too.
Adjustment(variants) ==
    LET kinds == {variants[i].kind : i \in DOMAIN variants}
    IN  IF "alias" \in kinds THEN "alias" ELSE IF "normalized" \in kinds THEN "normalized" ELSE "none"
-----------------------------------------------------------------------------
\* toRetrievalPattern: an acronym is looked for as a word, anything else as it is.
Sought(v) ==
    IF AcronymOf(v.value) # NoTerm THEN {AcronymOf(v.value)}
    ELSE IF v.value.dressed THEN {} ELSE {v.value.term}

\* variantsFoundIn, of a title and of title and description.
InTitle(r, v) == \E t \in Sought(v) : Title[r][t] # "description_only"
InRecord(r, v) == InTitle(r, v) \/ Sought(v) \cap Description[r] # {}
InSteps(r, v) == Sought(v) \cap StepText[r] # {}

Found(r, variants) == {variants[i] : i \in {j \in DOMAIN variants : InRecord(r, variants[j])}}
FoundInTitle(r, variants) == \E i \in DOMAIN variants : InTitle(r, variants[i])
FoundInSteps(r, variants) == \E i \in DOMAIN variants : InSteps(r, variants[i])

IndexOf(s, x) == CHOOSE i \in DOMAIN s : s[i] = x
Least(S) == CHOOSE x \in S : \A y \in S : x <= y

\* The place of a record in the order: how it was found, then how precisely its
\* title tells it.  Words of one alias group count as one concept.
\* classifyCurriculumMatch, classifyAliasAwareTitlePrecision
MatchTier(r, variants, oneConcept) ==
    LET found == Found(r, variants)
    IN  IF found = {} THEN Len(MatchKinds) + 1
        ELSE IF oneConcept THEN 1 ELSE Least({IndexOf(MatchKinds, v.kind) : v \in found})

TitleTier(r, variants, oneConcept) ==
    LET precise == {IndexOf(TitlePrecisions, Title[r][t]) :
                       t \in UNION {Sought(v) : v \in Found(r, variants)}}
    IN  IF ~FoundInTitle(r, variants) THEN Len(TitlePrecisions)
        ELSE IF oneConcept THEN IndexOf(TitlePrecisions, "title_token") ELSE Least(precise)

\* orderCurriculumSearchResults
Before(r, s) ==
    LET a == IndexOf(ContentTypes, r.type)  b == IndexOf(ContentTypes, s.type)
    IN  a < b \/ (a = b /\ r.id < s.id)

\* buildRankedCurriculumSearchResults: ranked first, bounded after.
Ranked(rows, variants, oneConcept, limit) ==
    LET Tier(r) == <<MatchTier(r, variants, oneConcept), TitleTier(r, variants, oneConcept)>>
        Ahead(r, s) == \/ Tier(r)[1] < Tier(s)[1]
                       \/ Tier(r)[1] = Tier(s)[1] /\ Tier(r)[2] < Tier(s)[2]
                       \/ Tier(r) = Tier(s) /\ Before(r, s)
        order == SetToSortSeq(rows, Ahead)
    IN  SubSeq(order, 1, IF Len(order) > limit THEN limit ELSE Len(order))

\* buildCurriculumSearchFacets: of the results told, not of what was found.
Facets(order) ==
    [t \in Range(ContentTypes) |-> Len(SelectSeq(order, LAMBDA r : r.type = t))]

\* locateCurriculumMatch: where the match is shown to be.
FoundIn(r, variants, hits) ==
    IF FoundInTitle(r, variants) THEN "title"
    ELSE IF Found(r, variants) # {} THEN "description"
    ELSE IF r \in hits THEN "step" ELSE "title"

-----------------------------------------------------------------------------
CONSTANTS
    Queries,        \* queries the learner may type, EmptyQuery among them
    EmptyQuery,     \* any query the validation refuses
    Limit,          \* results told
    OverFetch,      \* bound: rows held of one type are Limit * OverFetch; 4 in the code
    PageSize,       \* bound: RECORD_SEARCH_PAGE_SIZE, 100 in the code
    FilterTypes,    \* content types whose filter the learner uses
    CourseOf,       \* [mission rows -> the row of its course]
    Published0,     \* what may be published when the page is opened
    Releases,       \* rows that may be published or retired meanwhile
    MaxReleases,    \* bound: publications and retirements
    MaxSearches,    \* bound: searches begun
    NotYet          \* nothing yet: no answer, no results, no notes

VARIABLES
    published,      \* the rows row level security lets a learner read
    released,       \* how often that has changed
    searches,       \* requests of the page under way
    page            \* CurriculumSearchView

searchVars == <<published, released, searches, page>>

PassStep == {"learning_path", "course", "mission", "competency", "steps", "answered"}

\* `steady` only serves the properties: nothing was published or retired since.
SearchTypeOK ==
    /\ published \subseteq Rows /\ released \in 0 .. MaxReleases
    /\ \A i \in DOMAIN searches :
          /\ searches[i].query \in Queries \ {EmptyQuery}
          /\ searches[i].types \subseteq Range(ContentTypes)
          /\ searches[i].step \in PassStep
          /\ searches[i].held \cup searches[i].records \subseteq Rows
          /\ searches[i].recovering \in BOOLEAN /\ searches[i].steady \in BOOLEAN
          /\ searches[i].notes \in {"pending", "found", "failed"}
    /\ page.query \in Queries /\ page.searched \in Queries
    /\ page.types \subseteq Range(ContentTypes)
    /\ page.searching \in BOOLEAN /\ page.showingOriginal \in BOOLEAN
    /\ page.error \in {"none", "invalid", "failed"}
    /\ page.notes \in {NotYet} \cup Queries /\ page.noteError \in BOOLEAN
-----------------------------------------------------------------------------
\* searchCurriculum, before its first query.
Asked(q, types) ==
    [query |-> q, types |-> types, variants |-> AliasAwareVariants(q), recovering |-> FALSE,
     step |-> "learning_path", after |-> 0, held |-> {}, records |-> {},
     answer |-> NotYet, notes |-> "pending", steady |-> TRUE]

SearchInit ==
    /\ published \in Published0
    /\ released = 0
    /\ searches = <<>>
    /\ page = [query |-> EmptyQuery, searched |-> EmptyQuery, types |-> {}, searching |-> FALSE,
               results |-> NotYet, error |-> "none", degraded |-> FALSE, showingOriginal |-> FALSE,
               notes |-> NotYet, noteError |-> FALSE, begun |-> 0]

Goes(i, search) ==
    /\ searches' = [searches EXCEPT ![i] = search]
    /\ UNCHANGED <<published, released, page>>

\* A recovered query keeps the rules of single words.
OneConcept(search) == InGroup(search.query) /\ ~search.recovering

\* search_published_curriculum_records: of every record that matches, its highest
\* published matching version, in the order of the stable ids.
Matching(search) ==
    LET matched == {r \in published : /\ r.type = search.step /\ r.id > search.after
                                      /\ Found(r, search.variants) # {}}
    IN  {r \in matched : \A o \in matched : o.id = r.id => o.version <= r.version}

FirstByStableId(rows, n) == {r \in rows : Cardinality({o \in rows : o.id < r.id}) < n}

\* Mutant: the first rows are held, whether a title matches or not.
FirstHeld(rows, search, n) == FirstByStableId(rows, n)

\* rankOf: a record whose title matches before one whose description does.
BestHeld(rows, search, n) ==
    LET Ahead(r, s) ==
            LET a == FoundInTitle(r, search.variants)  b == FoundInTitle(s, search.variants)
            IN  (a /\ ~b) \/ (a = b /\ r.id < s.id)
    IN  {r \in rows : Cardinality({o \in rows : Ahead(o, r)}) < n}

\* The type is read; the next one is.
TypeRead(search, held) ==
    LET k == IndexOf(ContentTypes, search.step)
    IN  [search EXCEPT !.records = @ \cup held, !.held = {}, !.after = 0,
            !.step = IF k = Len(ContentTypes) THEN "steps" ELSE ContentTypes[k + 1]]

\* searchPublishedCurriculumRecords, one page of it.  Words of an alias group are
\* looked for to the last page; of others, the first rows are enough.
ReadPage(i) ==
    LET search == searches[i]
        bound  == Limit * OverFetch
        ranked == OneConcept(search)
        size   == Least({PageSize, IF ranked THEN bound ELSE bound - Cardinality(search.held)})
        rows   == FirstByStableId(Matching(search), size)
        held   == IF ranked THEN BestHeld(search.held \cup rows, search, bound)
                            ELSE search.held \cup rows
        last   == CHOOSE id \in {r.id : r \in rows} : \A r \in rows : r.id <= id
    IN  /\ search.step \in Range(ContentTypes)
        /\ Goes(i, IF rows = {} \/ (~ranked /\ Cardinality(held) = bound)
                   THEN TypeRead(search, held)
                   ELSE [search EXCEPT !.held = held, !.after = last])

\* current_published_missions, where a step matches.
StepHits(search) ==
    LET placed  == {r \in published : r.type = "mission" /\ CourseOf[r] \in published}
        current == {r \in placed : \A o \in placed : o.id = r.id => o.version <= r.version}
    IN  {r \in current : FoundInSteps(r, search.variants)}

\* selectHighestPublishedVersion, applyCurriculumSearchFilter
Selected(candidates, types) ==
    {r \in candidates : /\ \A o \in candidates : o.type = r.type /\ o.id = r.id => o.version <= r.version
                        /\ types # {} => r.type \in types}

Answered(search, rows, hits, adjustment) ==
    LET order == Ranked(rows, search.variants, OneConcept(search), Limit)
    IN  [query |-> search.query, types |-> search.types, order |-> order,
         facets |-> Facets(order), adjustment |-> adjustment,
         foundIn |-> [k \in DOMAIN order |-> FoundIn(order[k], search.variants, hits)]]

\* The bodies of published steps, and what all reads of the pass add up to.  A
\* pass that found nothing is followed by at most one, of a corrected query.
FinishPass(i) ==
    LET search == searches[i]
        hits   == StepHits(search)
        rows   == Selected(search.records \cup hits, search.types)
    IN  /\ search.step = "steps"
        /\ Goes(i,
             IF rows = {} /\ ~search.recovering /\ Correction[search.query] # NoTerm
             THEN [search EXCEPT !.step = ContentTypes[1], !.records = {}, !.recovering = TRUE,
                                 !.variants = TypoVariants(search.query)]
             ELSE [search EXCEPT !.step = "answered", !.answer =
                     Answered(search, rows, hits,
                        IF search.recovering /\ rows # {} THEN "typo"
                        ELSE Adjustment(AliasAwareVariants(search.query)))])

\* Any query that fails fails the search: never an answer with a part left out.
SearchFails(i) ==
    /\ searches[i].step # "answered"
    /\ Goes(i, [searches[i] EXCEPT !.step = "answered", !.answer = NotYet])

\* searchMyNotes, for the same words.
NotesSettle(i) ==
    /\ searches[i].notes = "pending"
    /\ \E outcome \in {"found", "failed"} : Goes(i, [searches[i] EXCEPT !.notes = outcome])
-----------------------------------------------------------------------------
\* runSearch: words the validation refuses withdraw what is shown.
RunSearch(now, types) ==
    /\ IF page.query = EmptyQuery
       THEN /\ page' = [now EXCEPT !.error = "invalid", !.results = NotYet, !.degraded = FALSE,
                                   !.notes = NotYet, !.noteError = FALSE]
            /\ UNCHANGED searches
       ELSE /\ page.begun < MaxSearches
            /\ page' = [now EXCEPT !.searching = TRUE, !.error = "none", !.degraded = FALSE,
                                   !.searched = page.query, !.showingOriginal = FALSE,
                                   !.noteError = FALSE, !.begun = @ + 1]
            /\ searches' = Append(searches, Asked(page.query, types))
    /\ UNCHANGED <<published, released>>

Type(q) == /\ q # page.query
           /\ page' = [page EXCEPT !.query = q]
           /\ UNCHANGED <<published, released, searches>>

Submit == ~page.searching /\ RunSearch(page, page.types)

\* Mutant: a filter can be changed while a search runs.
ToggleAnyTime(t) ==
    LET next == IF t \in page.types THEN page.types \ {t} ELSE page.types \cup {t}
    IN  page.results # NotYet /\ RunSearch([page EXCEPT !.types = next], next)

\* toggleContentType; the filters are drawn beside results.
ToggleContentType(t) ==
    LET next == IF t \in page.types THEN page.types \ {t} ELSE page.types \cup {t}
    IN  ~page.searching /\ page.results # NotYet /\ RunSearch([page EXCEPT !.types = next], next)

ClearFilters ==
    /\ ~page.searching /\ page.types # {} /\ page.results # NotYet
    /\ RunSearch([page EXCEPT !.types = {}], {})

\* The learner asks for the words they typed, not the recovered ones.
ShowOriginal ==
    /\ page.results # NotYet /\ page.results.adjustment = "typo"
    /\ page.error = "none" /\ ~page.showingOriginal
    /\ page' = [page EXCEPT !.showingOriginal = TRUE]
    /\ UNCHANGED <<published, released, searches>>

\* Both requests have settled.
Settle(i) ==
    LET search == searches[i]
        failed == search.answer = NotYet
    IN  /\ search.step = "answered" /\ search.notes # "pending"
        /\ page' = [page EXCEPT
              !.results = search.answer,
              !.error = IF failed THEN "failed" ELSE @,
              !.degraded = failed \/ @,
              !.notes = IF search.notes = "found" THEN search.query ELSE NotYet,
              !.noteError = search.notes = "failed" \/ @,
              !.searching = FALSE]
        /\ searches' = RemoveAt(searches, i)
        /\ UNCHANGED <<published, released>>

\* Curriculum is published and retired, row by row.
Release(r) ==
    /\ released < MaxReleases
    /\ released' = released + 1
    /\ published' = IF r \in published THEN published \ {r} ELSE published \cup {r}
    /\ searches' = [i \in DOMAIN searches |-> [searches[i] EXCEPT !.steady = FALSE]]
    /\ UNCHANGED page

SearchNext ==
    \/ \E i \in DOMAIN searches :
          ReadPage(i) \/ FinishPass(i) \/ SearchFails(i) \/ NotesSettle(i) \/ Settle(i)
    \/ \E q \in Queries : Type(q)
    \/ Submit \/ ClearFilters \/ ShowOriginal
    \/ \E t \in FilterTypes : ToggleContentType(t)
    \/ \E r \in Releases : Release(r)

SearchSpec == SearchInit /\ [][SearchNext]_searchVars
-----------------------------------------------------------------------------
\* Once nothing is being searched, the results and the notes on the page are
\* those of the words last searched, under the filters that are ticked: no
\* answer to an earlier question takes the place of the one asked last.
ShowsItsSearch ==
    ~page.searching =>
        /\ page.results # NotYet =>
              page.results.query = page.searched /\ page.results.types = page.types
        /\ page.notes # NotYet => page.notes = page.searched

\* Where a record speaks of the concept a group of terms names.
Place(r, group) ==
    IF \E t \in group : Title[r][t] # "description_only" THEN 1
    ELSE IF group \cap Description[r] # {} THEN 2
    ELSE IF r.type = "mission" /\ CourseOf[r] \in published /\ group \cap StepText[r] # {} THEN 3
    ELSE 4

\* The records that should be told of a concept, were there no limit.
Speaking(group, types) ==
    {r \in published : Place(r, group) < 4 /\ (types # {} => r.type \in types)}

\* Whichever form of an approved concept is searched, with or without plural and
\* punctuation, the learner is told the same records in the same order: those
\* that speak of it in their title first, then in the description, then in a
\* step, as far as the limit goes; no record is lost to the bounds of a read.
\* (Of a search under which nothing was published or retired.)
RankedAsIfUnbounded ==
    \A i \in DOMAIN searches :
        LET search == searches[i]
            group  == Range(GroupOf(search.query))
            should == Speaking(group, search.types)
            Ahead(r, s) == \/ Place(r, group) < Place(s, group)
                           \/ Place(r, group) = Place(s, group) /\ Before(r, s)
            told   == search.answer.order
        IN  search.answer # NotYet /\ search.steady /\ InGroup(search.query) =>
              \/ should = {}
              \/ /\ Len(told) = Least({Limit, Cardinality(should)})
                 /\ \A k \in DOMAIN told :
                       /\ told[k] \in should
                       /\ Cardinality({r \in should : Ahead(r, told[k])}) = k - 1

\* An answer that is there is on the page.
AnswerIsShown ==
    ~page.searching /\ page.results # NotYet /\ page.showingOriginal =>
        page.results.adjustment = "typo"

\* That nothing was found is only said of words that were searched.
NothingFoundIsTrue ==
    page.results # NotYet /\ page.error = "none" /\ page.results.order = <<>> =>
        page.results.query = page.searched

\* Results are of the highest version that is published.
HighestIsTold ==
    \A i \in DOMAIN searches :
        searches[i].answer # NotYet /\ searches[i].steady =>
            \A k \in DOMAIN searches[i].answer.order :
                LET r == searches[i].answer.order[k]
                IN  \A o \in published : o.type = r.type /\ o.id = r.id => o.version <= r.version
=============================================================================

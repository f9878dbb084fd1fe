---------------------------- MODULE ContentProofs ----------------------------
(***************************************************************************)
(* Theorems about what is taught and what a learner asks of it, for every  *)
(* value of the constants: the blocks of a note are those of one edit, the *)
(* search page shows the search it says, the server acts only for those a  *)
(* route asks for; published curriculum is not revised in place, an import *)
(* cut off anywhere leaves no reference unresolved and nothing that the    *)
(* next import would refuse; and an answer of the Tutor rests on content   *)
(* that was asked for.                                                     *)
(***************************************************************************)
EXTENDS TutorTurn, StudentNotes, CurriculumSearch, HttpServer, CurriculumImport,
        WellFoundedInduction, TLAPS

-----------------------------------------------------------------------------
\* Edits number their blocks alike: any two that have blocks have two blocks
\* at the same position.
NumberedAlike ==
    \A edit, other \in Edits \ {{}} : \E b \in edit, c \in other : b.position = c.position

\* A request that replaces blocks keeps the edit it was sent, and inserts only
\* what has a block.
SentEdit(r) ==
    call[r].op = "blocks" =>
        /\ call[r].note \in Notes /\ call[r].new \in Edits
        /\ call[r].step = "insert" => call[r].new # {}

NotesInv ==
    /\ DOMAIN blocks = Notes /\ DOMAIN call = Requests
    /\ BlocksAreOfOneEdit
    /\ \A r \in Requests : DOMAIN call[r] \in {{"op"}, {"op", "note", "new", "step"}} /\ SentEdit(r)

\* An edit is inserted only where there are no blocks.
LEMMA InsertsIntoNone ==
    ASSUME NumberedAlike, NEW old \in Edits \cup {{}}, NEW new \in Edits, new # {},
           old \cap new = {}, PositionsAreFree(old \cup new)
    PROVE  old \cup new \in Edits
<1>1. CASE old = {}
  BY <1>1
<1>2. CASE old # {}
  <2>1. PICK b \in old, c \in new : b.position = c.position
    BY <1>2 DEF NumberedAlike
  <2>2. b = c
    BY <2>1 DEF PositionsAreFree
  <2> QED BY <2>1, <2>2
<1> QED BY <1>1, <1>2

LEMMA NotesStep ==
    ASSUME NumberedAlike, NotesInv, [StudentNotesNext]_notesVars
    PROVE  NotesInv'
<1> USE DEF NotesInv, BlocksAreOfOneEdit, SentEdit
<1>1. CASE UNCHANGED notesVars
  BY <1>1 DEF notesVars
<1>2. CASE AskAtOnce
  <2>1. UNCHANGED call
    BY <1>2 DEF AskAtOnce, DeleteNote, SetPinned, DeleteTag, CreateTag, RenameTag, CreateBookmark,
                DeleteBookmark
  <2>2. /\ DOMAIN blocks' = Notes
        /\ \A n \in Notes : blocks'[n] \in {blocks[n], {}}
    BY <1>2 DEF AskAtOnce, DeleteNote, SetPinned, DeleteTag, CreateTag, RenameTag, CreateBookmark,
                DeleteBookmark
  <2> QED BY <2>1, <2>2
<1>3. ASSUME NEW r \in Requests, NEW n \in Notes, NEW op \in {"tags", "contexts"}, NEW new,
             Starts(r, op, n, new), UNCHANGED blocks
      PROVE  NotesInv'
  BY <1>3 DEF Starts
<1>4. ASSUME NEW r \in Requests, Ends(r), UNCHANGED blocks
      PROVE  NotesInv'
  BY <1>4 DEF Ends, Idle
<1>5. ASSUME NEW r \in Requests, AskOfNotes(r)
      PROVE  NotesInv'
  <2> PICK n \in Notes :
         \/ \E edit \in Edits : ReplaceBlocks(r, n, edit)
         \/ \E ts \in SUBSET Tags : ReplaceTags(r, n, ts)
         \/ \E text \in Contents, list \in ContextLists : CreateNote(r, n, text, list)
         \/ \E text \in Contents, list \in ContextLists \cup {Absent} : UpdateNote(r, n, text, list)
    BY <1>5 DEF AskOfNotes
  <2>1. ASSUME NEW edit \in Edits, ReplaceBlocks(r, n, edit)
        PROVE  NotesInv'
    BY <2>1 DEF ReplaceBlocks, Starts, stored
  <2>2. ASSUME NEW ts \in SUBSET Tags, ReplaceTags(r, n, ts)
        PROVE  NotesInv'
    BY <2>2, <1>3 DEF ReplaceTags, stored
  <2>3. ASSUME NEW text \in Contents, NEW list \in ContextLists, CreateNote(r, n, text, list)
        PROVE  NotesInv'
    BY <2>3, <1>3 DEF CreateNote
  <2>4. ASSUME NEW text \in Contents, NEW list \in ContextLists \cup {Absent},
               UpdateNote(r, n, text, list)
        PROVE  NotesInv'
    <3>1. CASE list = Absent
      BY <2>4, <3>1 DEF UpdateNote
    <3>2. CASE list # Absent
      BY <2>4, <3>2, <1>3 DEF UpdateNote
    <3> QED BY <3>1, <3>2
  <2> QED BY <2>1, <2>2, <2>3, <2>4
<1>6. ASSUME NEW r \in Requests, DeleteBlocks(r)
      PROVE  NotesInv'
  BY <1>6 DEF DeleteBlocks, At, GoesOn
<1>7. ASSUME NEW r \in Requests, InsertBlocks(r)
      PROVE  NotesInv'
  <2> DEFINE n == call[r].note
             new == call[r].new
  <2>1. n \in Notes /\ new \in Edits /\ new # {} /\ blocks[n] \in Edits \cup {{}}
    BY <1>7 DEF InsertBlocks, At
  <2>2. blocks[n] \cup new \in Edits
    BY <1>7, <2>1, InsertsIntoNone DEF InsertBlocks
  <2>3. blocks' = [blocks EXCEPT ![n] = @ \cup new] /\ call' = [call EXCEPT ![r].step = "list"]
    BY <1>7 DEF InsertBlocks, GoesOn
  <2> HIDE DEF n
  <2> QED BY <2>1, <2>2, <2>3
<1>8. ASSUME NEW r \in Requests, DeleteTags(r) \/ DeleteContexts(r)
      PROVE  NotesInv'
  <2>1. CASE Ends(r)
    BY <1>8, <2>1, <1>4 DEF DeleteTags, DeleteContexts
  <2>2. CASE GoesOn(r, "insert")
    BY <1>8, <2>2 DEF DeleteTags, DeleteContexts, At, GoesOn
  <2> QED BY <1>8, <2>1, <2>2 DEF DeleteTags, DeleteContexts
<1>9. ASSUME NEW r \in Requests, ListBlocks(r) \/ InsertTags(r) \/ InsertContexts(r) \/ Fail(r)
      PROVE  NotesInv'
  BY <1>9, <1>4 DEF ListBlocks, InsertTags, InsertContexts, Fail, stored
<1> QED BY <1>1, <1>2, <1>5, <1>6, <1>7, <1>8, <1>9 DEF StudentNotesNext, Continue

\* BlocksAreOfOneEdit for any number of notes, devices and edits, wherever a
\* request is cut off, as long as edits number their blocks alike: an INSERT
\* finds the position of a block taken by whichever edit was there first.
THEOREM BlocksOfOneEdit ==
    ASSUME NumberedAlike
    PROVE  StudentNotesSpec => []BlocksAreOfOneEdit
<1>1. StudentNotesInit => NotesInv
  BY DEF StudentNotesInit, NotesInv, BlocksAreOfOneEdit, SentEdit, Idle
<1>2. NotesInv /\ [StudentNotesNext]_notesVars => NotesInv'
  BY NotesStep
<1>3. NotesInv => BlocksAreOfOneEdit
  BY DEF NotesInv
<1> QED BY <1>1, <1>2, <1>3, PTL DEF StudentNotesSpec
-----------------------------------------------------------------------------
\* The sender is what the route asks for: OnlyTheTrustedAct, of a moment when
\* something is read or called.
Trusted ==
    /\ route.who # "anyone" => token # None /\ wasLive
    /\ route.who = "founder" =>
          "founder_admin" \in roles /\ Owner[token] \in Confirmed /\ token \in Assured

\* What the ghosts record of the sender, once there is a token: the roles held
\* since the request arrived, and that a token still valid always was.
Recorded ==
    /\ DOMAIN role = Users
    /\ token # None =>
          /\ token \in Tokens
          /\ role[Owner[token]] \in roles
          /\ token \in live => wasLive

Asking == {"user", "profile", "assurance"}
Acting == {"body", "call"}

HttpInv ==
    /\ Recorded
    /\ at \in {"down", "failed", "idle", "preflight", "arrived"} =>
          token = None /\ body = None /\ ran = None
    /\ at \in Asking => token # None
    /\ at \in {"profile", "assurance"} => wasLive
    /\ at = "assurance" => profile \in roles
    /\ at \in Acting \/ body # None \/ ran # None => Trusted

LEMMA HttpStarts == HttpInit => HttpInv
BY HttpAssumption DEF HttpInit, HttpInv, Recorded, Asking, Acting, HttpConstants

LEMMA HttpStep == HttpInv /\ [HttpNext]_httpVars => HttpInv'
<1> SUFFICES ASSUME HttpInv, [HttpNext]_httpVars
             PROVE  HttpInv'
  OBVIOUS
<1> USE DEF HttpInv, Recorded, Asking, Acting, Quiet, accounts
<1>1. ASSUME UNCHANGED httpVars
      PROVE  HttpInv'
  BY <1>1 DEF httpVars, Trusted
<1>2. ASSUME NEW m \in Methods, NEW p \in Paths, NEW o \in Origins \cup {NoOrigin}, NEW b \in BOOLEAN,
             Send(m, p, o, b)
      PROVE  HttpInv'
  BY <1>2 DEF Send, Trusted
<1>3. CASE Start \/ Shutdown
  BY <1>3 DEF Start, Shutdown, Trusted
<1>4. CASE Preflight \/ AnswerOptions \/ FallThrough
  BY <1>4 DEF Preflight, AnswerOptions, FallThrough, AnswerWith, Trusted
<1>5. CASE Dispatch
  BY <1>5, HttpAssumption DEF Dispatch, AnswerWith, HttpConstants, Trusted
<1>6. CASE GetUser
  BY <1>6 DEF GetUser, AnswerWith, Trusted
<1>7. CASE ReadProfile
  BY <1>7 DEF ReadProfile, AnswerWith, Trusted
<1>8. CASE ReadAssurance
  BY <1>8 DEF ReadAssurance, AnswerWith, RequireFounderAdmin, Trusted
<1>9. CASE ReadBody
  BY <1>9 DEF ReadBody, AnswerWith, Trusted
<1>10. CASE CallOperation
  BY <1>10 DEF CallOperation, AnswerWith, Trusted
<1>11. CASE Deliver \/ Lose
  BY <1>11 DEF Deliver, Lose, Trusted
<1>12. ASSUME NEW r \in {"student", "founder_admin", "none"}, ChangeRole(r)
       PROVE  HttpInv'
  BY <1>12, HttpAssumption DEF ChangeRole, Underway, HttpConstants, Trusted
<1>13. CASE SignOut
  BY <1>13 DEF SignOut, Underway, Trusted
<1>14. CASE Served
  BY <1>14, <1>1 DEF Served
<1> QED
  BY <1>1, <1>2, <1>3, <1>4, <1>5, <1>6, <1>7, <1>8, <1>9, <1>10, <1>11, <1>12, <1>13, <1>14
  DEF HttpNext

\* OnlyTheTrustedAct for any users, tokens, origins and configuration, and as
\* many changes of a role or session as there may be: whichever route answers,
\* what is read and called follows the guards of that route.
THEOREM OnlyTheTrusted == HttpSpec => []OnlyTheTrustedAct
<1>1. HttpInv => OnlyTheTrustedAct
  BY DEF HttpInv, OnlyTheTrustedAct, Trusted
<1> QED BY <1>1, HttpStarts, HttpStep, PTL DEF HttpSpec
-----------------------------------------------------------------------------
\* A search answers the words and filters it was asked.
Faithful(search) ==
    /\ {"query", "types", "step", "answer", "notes"} \subseteq DOMAIN search
    /\ search.answer # NotYet =>
          search.answer.query = search.query /\ search.answer.types = search.types

\* The page waits for one search at most, of the words it searched last and the
\* filters that are ticked; when it waits for none, it shows what that search found.
SearchInv ==
    /\ {"query", "searched", "types", "searching", "results", "notes"} \subseteq DOMAIN page
    /\ \/ searches = << >> /\ ~page.searching
       \/ /\ page.searching
          /\ \E search : /\ searches = <<search>> /\ Faithful(search)
                         /\ search.query = page.searched /\ search.types = page.types
    /\ ShowsItsSearch

\* A step of the search under way that keeps its question and answers it truly.
LEMMA SearchGoesOn ==
    ASSUME SearchInv, NEW i \in DOMAIN searches, NEW search, Goes(i, search), Faithful(search),
           search.query = searches[i].query, search.types = searches[i].types
    PROVE  SearchInv'
<1>1. PICK old : /\ searches = <<old>> /\ page.searching
                 /\ old.query = page.searched /\ old.types = page.types
  BY DEF SearchInv
<1>2. i = 1
  BY <1>1
<1>3. searches' = <<search>> /\ page' = page
  BY <1>1, <1>2 DEF Goes
<1> QED BY <1>1, <1>2, <1>3 DEF SearchInv, ShowsItsSearch

LEMMA TypeReadKeeps ==
    ASSUME NEW search, Faithful(search), NEW held
    PROVE  /\ Faithful(TypeRead(search, held))
           /\ TypeRead(search, held).query = search.query
           /\ TypeRead(search, held).types = search.types
BY DEF TypeRead, Faithful

LEMMA RunSearchKeeps ==
    ASSUME SearchInv, ~page.searching, NEW types, RunSearch([page EXCEPT !.types = types], types)
    PROVE  SearchInv'
<1> DEFINE now == [page EXCEPT !.types = types]
<1>1. searches = << >>
  BY DEF SearchInv
<1>2. CASE page.query = EmptyQuery
  <2>1. /\ page' = [now EXCEPT !.error = "invalid", !.results = NotYet, !.degraded = FALSE,
                               !.notes = NotYet, !.noteError = FALSE]
        /\ UNCHANGED searches
    BY <1>2 DEF RunSearch
  <2> QED BY <1>1, <2>1 DEF SearchInv, ShowsItsSearch
<1>3. CASE page.query # EmptyQuery
  <2>1. /\ page' = [now EXCEPT !.searching = TRUE, !.error = "none", !.degraded = FALSE,
                               !.searched = page.query, !.showingOriginal = FALSE,
                               !.noteError = FALSE, !.begun = @ + 1]
        /\ searches' = <<Asked(page.query, types)>>
    BY <1>1, <1>3 DEF RunSearch
  <2>2. /\ Faithful(Asked(page.query, types))
        /\ Asked(page.query, types).query = page.query /\ Asked(page.query, types).types = types
    BY DEF Asked, Faithful
  <2>3. page'.searching /\ page'.searched = page.query /\ page'.types = types
    BY <2>1 DEF SearchInv
  <2> QED BY <2>1, <2>2, <2>3 DEF SearchInv, ShowsItsSearch
<1> QED BY <1>2, <1>3

LEMMA SearchStep == SearchInv /\ [SearchNext]_searchVars => SearchInv'
<1> SUFFICES ASSUME SearchInv, [SearchNext]_searchVars
             PROVE  SearchInv'
  OBVIOUS
<1>0. ASSUME NEW i \in DOMAIN searches
      PROVE  Faithful(searches[i])
  BY <1>0 DEF SearchInv
<1>1. CASE UNCHANGED searchVars
  BY <1>1 DEF searchVars, SearchInv, ShowsItsSearch
<1>2. ASSUME NEW i \in DOMAIN searches, ReadPage(i)
      PROVE  SearchInv'
  <2>1. PICK held, last :
           \/ Goes(i, TypeRead(searches[i], held))
           \/ Goes(i, [searches[i] EXCEPT !.held = held, !.after = last])
    BY <1>2 DEF ReadPage
  <2>2. CASE Goes(i, TypeRead(searches[i], held))
    BY <2>2, <1>0, TypeReadKeeps, SearchGoesOn
  <2>3. CASE Goes(i, [searches[i] EXCEPT !.held = held, !.after = last])
    <3> DEFINE search == [searches[i] EXCEPT !.held = held, !.after = last]
    <3>1. Faithful(search) /\ search.query = searches[i].query /\ search.types = searches[i].types
      BY <1>0 DEF Faithful
    <3> HIDE DEF search
    <3> QED BY <2>3, <3>1, SearchGoesOn DEF search
  <2> QED BY <2>1, <2>2, <2>3
<1>3. ASSUME NEW i \in DOMAIN searches, FinishPass(i)
      PROVE  SearchInv'
  <2>1. PICK added, hits, adjustment, variants :
           \/ Goes(i, [searches[i] EXCEPT !.step = ContentTypes[1], !.records = {},
                                          !.recovering = TRUE, !.variants = variants])
           \/ Goes(i, [searches[i] EXCEPT !.step = "answered",
                          !.answer = Answered(searches[i], added, hits, adjustment)])
    BY <1>3 DEF FinishPass
  <2>2. CASE Goes(i, [searches[i] EXCEPT !.step = ContentTypes[1], !.records = {},
                                          !.recovering = TRUE, !.variants = variants])
    <3> DEFINE search == [searches[i] EXCEPT !.step = ContentTypes[1], !.records = {},
                                          !.recovering = TRUE, !.variants = variants]
    <3>1. Faithful(search) /\ search.query = searches[i].query /\ search.types = searches[i].types
      BY <1>0 DEF Faithful
    <3> HIDE DEF search
    <3> QED BY <2>2, <3>1, SearchGoesOn DEF search
  <2>3. CASE Goes(i, [searches[i] EXCEPT !.step = "answered",
                          !.answer = Answered(searches[i], added, hits, adjustment)])
    <3> DEFINE search == [searches[i] EXCEPT !.step = "answered",
                          !.answer = Answered(searches[i], added, hits, adjustment)]
    <3>1. /\ Answered(searches[i], added, hits, adjustment).query = searches[i].query
          /\ Answered(searches[i], added, hits, adjustment).types = searches[i].types
      BY DEF Answered
    <3>2. Faithful(search) /\ search.query = searches[i].query /\ search.types = searches[i].types
      BY <1>0, <3>1 DEF Faithful
    <3> HIDE DEF search
    <3> QED BY <2>3, <3>2, SearchGoesOn DEF search
  <2> QED BY <2>1, <2>2, <2>3
<1>4. ASSUME NEW i \in DOMAIN searches, SearchFails(i)
      PROVE  SearchInv'
  <2> DEFINE search == [searches[i] EXCEPT !.step = "answered", !.answer = NotYet]
  <2>1. Faithful(search) /\ search.query = searches[i].query /\ search.types = searches[i].types
    BY <1>0 DEF Faithful
  <2> HIDE DEF search
  <2> QED BY <1>4, <2>1, SearchGoesOn DEF search, SearchFails
<1>5. ASSUME NEW i \in DOMAIN searches, NotesSettle(i)
      PROVE  SearchInv'
  <2> PICK found \in {"found", "failed"} : Goes(i, [searches[i] EXCEPT !.notes = found])
    BY <1>5 DEF NotesSettle
  <2> DEFINE search == [searches[i] EXCEPT !.notes = found]
  <2>1. Faithful(search) /\ search.query = searches[i].query /\ search.types = searches[i].types
    BY <1>0 DEF Faithful
  <2> HIDE DEF search
  <2> QED BY <2>1, SearchGoesOn DEF search
<1>6. ASSUME NEW i \in DOMAIN searches, Settle(i)
      PROVE  SearchInv'
  <2>1. PICK search : /\ searches = <<search>> /\ Faithful(search)
                      /\ search.query = page.searched /\ search.types = page.types
    BY DEF SearchInv
  <2>2. i = 1 /\ searches[i] = search
    BY <2>1
  <2>3. searches' = << >>
    BY <1>6, <2>1, <2>2 DEF Settle, RemoveAt
  <2>4. /\ {"query", "searched", "types", "searching", "results", "notes"} \subseteq DOMAIN page'
        /\ ~page'.searching /\ page'.searched = page.searched /\ page'.types = page.types
        /\ page'.results = search.answer /\ page'.notes \in {NotYet, search.query}
    BY <1>6, <2>2 DEF Settle, SearchInv
  <2> QED BY <2>1, <2>3, <2>4 DEF SearchInv, ShowsItsSearch, Faithful
<1>7. ASSUME NEW q \in Queries, Type(q)
      PROVE  SearchInv'
  BY <1>7 DEF Type, SearchInv, ShowsItsSearch
<1>8. CASE Submit
  <2>1. RunSearch([page EXCEPT !.types = page.types], page.types)
    BY <1>8 DEF Submit, RunSearch
  <2> QED BY <1>8, <2>1, RunSearchKeeps DEF Submit
<1>9. CASE ClearFilters
  BY <1>9, RunSearchKeeps DEF ClearFilters
<1>10. ASSUME NEW t \in FilterTypes, ToggleContentType(t)
       PROVE  SearchInv'
  BY <1>10, RunSearchKeeps DEF ToggleContentType
<1>11. CASE ShowOriginal
  BY <1>11 DEF ShowOriginal, SearchInv, ShowsItsSearch
<1>12. ASSUME NEW r \in Releases, Release(r)
       PROVE  SearchInv'
  <2>1. CASE searches = << >>
    BY <1>12, <2>1 DEF Release, SearchInv, ShowsItsSearch
  <2>2. CASE searches # << >>
    <3>1. PICK search : /\ searches = <<search>> /\ Faithful(search)
                        /\ search.query = page.searched /\ search.types = page.types
      BY <2>2 DEF SearchInv
    <3> DEFINE later == [search EXCEPT !.steady = FALSE]
    <3>2. searches' = <<later>>
      <4>1. DOMAIN searches = 1..1 /\ searches[1] = search
        BY <3>1
      <4>2. searches' = [i \in 1..1 |-> [searches[i] EXCEPT !.steady = FALSE]]
        BY <1>12, <4>1 DEF Release
      <4>3. \A i \in 1..1 : i = 1
        OBVIOUS
      <4>4. \A i \in 1..1 : [searches[i] EXCEPT !.steady = FALSE] = later
        BY <4>1, <4>3
      <4>5. searches' = [i \in 1..1 |-> later]
        BY <4>2, <4>4, Zenon
      <4> HIDE DEF later
      <4> QED BY <4>5
    <3>3. Faithful(later) /\ later.query = search.query /\ later.types = search.types
      BY <3>1 DEF Faithful
    <3> HIDE DEF later
    <3> QED BY <1>12, <2>2, <3>1, <3>2, <3>3 DEF Release, SearchInv, ShowsItsSearch
  <2> QED BY <2>1, <2>2
<1> QED
  BY <1>1, <1>2, <1>3, <1>4, <1>5, <1>6, <1>7, <1>8, <1>9, <1>10, <1>11, <1>12 DEF SearchNext

\* ShowsItsSearch for any curriculum, terms and bounds, and however long the
\* learner goes on: a filter is changed and a query submitted only when no
\* search runs, so no answer can take the place of a later one's.
THEOREM ShowsWhatWasAsked == SearchSpec => []ShowsItsSearch
<1>1. SearchInit => SearchInv
  BY DEF SearchInit, SearchInv, ShowsItsSearch
<1>2. SearchInv => ShowsItsSearch
  BY DEF SearchInv
<1> QED BY <1>1, <1>2, SearchStep, PTL DEF SearchSpec

-----------------------------------------------------------------------------
(* Lists of round trips *)

\* No entry is of that kind.
NoneOf(op, list) == \A j \in DOMAIN list : list[j].op # op

\* Induction over the numbers, for a set: what the numbers without the property
\* would be has a least element.
LEMMA NumberInduction ==
    ASSUME NEW T, 0 \in T, \A n \in Nat : n \in T => n + 1 \in T
    PROVE  Nat \subseteq T
<1> SUFFICES ASSUME Nat \ T # {}
             PROVE  FALSE
  OBVIOUS
<1>1. PICK x \in Nat \ T : \A y \in Nat \ T : <<y, x>> \notin OpToRel(<, Nat)
  BY NatLessThanWellFounded, WFMin
<1>2. \A y \in Nat \ T : ~(y < x)
  BY <1>1, Zenon DEF OpToRel
<1> HIDE <1>1
<1>3. x - 1 \in Nat /\ x - 1 < x
  OBVIOUS
<1>4. x - 1 \in T
  BY <1>2, <1>3
<1> QED BY <1>3, <1>4

\* A list and its positions.
LEMMA ListFacts ==
    ASSUME NEW list, IsList(list)
    PROVE  Len(list) \in Nat /\ DOMAIN list = 1..Len(list)
BY DEF IsList

\* Two lists, one after the other, are a list: its length and its two parts.
LEMMA Concatenated ==
    ASSUME NEW s, NEW t, IsList(s), IsList(t)
    PROVE  IsList(s \o t) /\ Len(s \o t) = Len(s) + Len(t)
<1> DEFINE S == Members(s) \cup Members(t)
           c == s \o t
<1>1. s \in Seq(S) /\ t \in Seq(S)
  BY DEF IsList
<1> HIDE DEF S
<1>2. c \in Seq(S) /\ Len(c) = Len(s) + Len(t)
  BY <1>1
<1> HIDE DEF c
<1>3. DOMAIN c = 1..Len(c)
  BY <1>2
<1>4. c \in Seq(Members(c))
  BY <1>2, <1>3 DEF Members
<1> QED BY <1>2, <1>4 DEF IsList, c

LEMMA FirstPart ==
    ASSUME NEW s, NEW t, IsList(s), IsList(t), NEW i \in DOMAIN s
    PROVE  (s \o t)[i] = s[i]
<1> DEFINE S == Members(s) \cup Members(t)
<1>1. s \in Seq(S) /\ t \in Seq(S) /\ i \in 1..Len(s)
  BY ListFacts DEF IsList
<1> HIDE DEF S
<1> QED BY <1>1

LEMMA SecondPart ==
    ASSUME NEW s, NEW t, IsList(s), IsList(t), NEW i \in DOMAIN t
    PROVE  (s \o t)[Len(s) + i] = t[i]
<1> DEFINE S == Members(s) \cup Members(t)
<1>1. s \in Seq(S) /\ t \in Seq(S) /\ i \in 1..Len(t)
  BY ListFacts DEF IsList
<1> HIDE DEF S
<1> QED BY <1>1

\* An entry of two lists, one after the other, is an entry of one of them.
LEMMA JoinedEntry ==
    ASSUME NEW s, NEW t, IsList(s), IsList(t), NEW j \in DOMAIN (s \o t)
    PROVE  \/ j \in DOMAIN s /\ (s \o t)[j] = s[j]
           \/ \E i \in DOMAIN t : j = Len(s) + i /\ (s \o t)[j] = t[i]
<1> DEFINE c == s \o t
<1>1. IsList(c) /\ Len(c) = Len(s) + Len(t)
  BY Concatenated
<1>2. /\ Len(s) \in Nat /\ DOMAIN s = 1..Len(s)
      /\ Len(t) \in Nat /\ DOMAIN t = 1..Len(t)
  BY ListFacts
<1>3. CASE j \in DOMAIN s
  BY <1>3, FirstPart
<1>4. CASE j \notin DOMAIN s
  <2> DEFINE i == j - Len(s)
  <2>1. DOMAIN c = 1..(Len(s) + Len(t))
    <3> HIDE DEF c
    <3> QED BY <1>1, ListFacts
  <2>2. i \in DOMAIN t /\ j = Len(s) + i
    BY <1>2, <1>4, <2>1
  <2> HIDE DEF i
  <2>3. c[Len(s) + i] = t[i]
    BY <2>2, SecondPart
  <2> HIDE DEF c
  <2>4. c[j] = t[i]
    BY <2>2, <2>3
  <2> QED BY <2>2, <2>4 DEF c
<1> QED BY <1>3, <1>4

\* Positions for positions.
LEMMA ListOver ==
    ASSUME NEW list, IsList(list), NEW lists, lists = [i \in DOMAIN list |-> lists[i]]
    PROVE  IsList(lists)
<1>1. Len(list) \in Nat /\ DOMAIN list = 1..Len(list)
  BY ListFacts
<1> QED BY <1>1 DEF IsList, Members

LEMMA EmptyList ==
    ASSUME NEW list, IsList(list), Len(list) = 0
    PROVE  list = <<>>
<1> DEFINE S == Members(list)
<1>1. list \in Seq(S)
  BY DEF IsList
<1> HIDE DEF S
<1> QED BY <1>1

LEMMA MembersJoined ==
    ASSUME NEW s, NEW t, IsList(s), IsList(t)
    PROVE  Members(s \o t) \subseteq Members(s) \cup Members(t)
<1> DEFINE c == s \o t
<1>1. \A j \in DOMAIN c : \/ j \in DOMAIN s /\ c[j] = s[j]
                         \/ \E i \in DOMAIN t : j = Len(s) + i /\ c[j] = t[i]
  BY JoinedEntry
<1> HIDE DEF c
<1>2. Members(c) \subseteq Members(s) \cup Members(t)
  BY <1>1 DEF Members
<1> QED BY <1>2 DEF c

\* What is left of a list once its first entry is done.
LEMMA TailFacts ==
    ASSUME NEW todo, IsList(todo), todo # <<>>
    PROVE  /\ IsList(Tail(todo)) /\ DOMAIN Tail(todo) = 1..(Len(todo) - 1)
           /\ \A j \in DOMAIN Tail(todo) : Tail(todo)[j] = todo[j + 1]
           /\ Len(todo) \in Nat /\ DOMAIN todo = 1..Len(todo) /\ Len(todo) > 0
<1> DEFINE rest == Tail(todo)
           S == Members(todo)
<1>1. Len(todo) \in Nat /\ DOMAIN todo = 1..Len(todo) /\ Len(todo) > 0
  BY ListFacts DEF IsList
<1>2. todo \in Seq(S)
  BY DEF IsList
<1> HIDE DEF S
<1>3. rest \in Seq(S) /\ Len(rest) = Len(todo) - 1
  BY <1>1, <1>2
<1>4. DOMAIN rest = 1..(Len(todo) - 1) /\ \A j \in DOMAIN rest : rest[j] = todo[j + 1]
  BY <1>1, <1>2
<1> HIDE DEF rest
<1>5. rest \in Seq(Members(rest))
  BY <1>1, <1>3, <1>4 DEF Members
<1>6. IsList(rest)
  BY <1>5 DEF IsList
<1> QED BY <1>1, <1>4, <1>6 DEF rest

\* The lists that the plan is put together from.
LEMMA ShortLists ==
    /\ IsList(<<>>) /\ \A op : NoneOf(op, <<>>)
    /\ \A x : IsList(<<x>>) /\ \A op : x.op # op => NoneOf(op, <<x>>)
    /\ \A x, y : IsList(<<x, y>>) /\ \A op : x.op # op /\ y.op # op => NoneOf(op, <<x, y>>)
<1>1. IsList(<<>>) /\ \A op : NoneOf(op, <<>>)
  BY DEF IsList, Members, NoneOf
<1>2. ASSUME NEW x
      PROVE  IsList(<<x>>) /\ \A op : x.op # op => NoneOf(op, <<x>>)
  BY DEF IsList, Members, NoneOf
<1>3. ASSUME NEW x, NEW y
      PROVE  IsList(<<x, y>>) /\ \A op : x.op # op /\ y.op # op => NoneOf(op, <<x, y>>)
  <2>1. IsList(<<x, y>>)
    <3> DEFINE list == <<x, y>>
    <3>1. DOMAIN list = 1..2 /\ list[1] = x /\ list[2] = y
      OBVIOUS
    <3>2. x \in Members(list) /\ y \in Members(list)
      BY <3>1 DEF Members
    <3> QED BY <3>2 DEF IsList
  <2>2. \A op : x.op # op /\ y.op # op => NoneOf(op, <<x, y>>)
    BY DEF NoneOf
  <2> QED BY <2>1, <2>2
<1> QED BY <1>1, <1>2, <1>3

LEMMA ShortMembers ==
    /\ Members(<<>>) = {}
    /\ \A x : Members(<<x>>) = {x}
    /\ \A x, y : Members(<<x, y>>) = {x, y}
<1>1. Members(<<>>) = {} /\ \A x : Members(<<x>>) = {x}
  BY DEF Members
<1>2. ASSUME NEW x, NEW y
      PROVE  Members(<<x, y>>) = {x, y}
  <2> DEFINE list == <<x, y>>
  <2>1. DOMAIN list = 1..2 /\ list[1] = x /\ list[2] = y
    OBVIOUS
  <2> HIDE DEF list
  <2>2. Members(list) = {x, y}
    BY <2>1 DEF Members
  <2> QED BY <2>2 DEF list
<1> QED BY <1>1, <1>2

-----------------------------------------------------------------------------
(* What Chain makes of a list of lists *)

\* g[i] is the first i lists, one after the other.
Chained(lists, n, g) ==
    g = [i \in 0..n |-> IF i = 0 THEN <<>> ELSE g[i - 1] \o lists[i]]

\* The recursive function of Chain exists, whatever the lists.
LEMMA ChainDefined ==
    ASSUME NEW lists, NEW n \in Nat
    PROVE  \E g : Chained(lists, n, g)
<1> DEFINE T == {k \in Nat : \E g : Chained(lists, k, g)}
<1>1. 0 \in T
  <2> DEFINE g == [i \in 0..0 |-> <<>>]
  <2>1. Chained(lists, 0, g)
    BY DEF Chained
  <2> QED BY <2>1
<1>2. ASSUME NEW k \in Nat, k \in T
      PROVE  k + 1 \in T
  <2>1. PICK g : Chained(lists, k, g)
    BY <1>2
  <2> DEFINE last == g[k] \o lists[k + 1]
             h == [i \in 0..(k + 1) |-> IF i = k + 1 THEN last ELSE g[i]]
  <2>2. \A i \in 0..k : g[i] = IF i = 0 THEN <<>> ELSE g[i - 1] \o lists[i]
    BY <2>1 DEF Chained
  <2> HIDE DEF last
  <2>5. h[k + 1] = last /\ \A i \in 0..k : h[i] = g[i]
    OBVIOUS
  <2>6. h = [i \in 0..(k + 1) |-> h[i]]
    OBVIOUS
  <2> HIDE DEF h
  <2>3. ASSUME NEW i \in 0..(k + 1)
        PROVE  h[i] = IF i = 0 THEN <<>> ELSE h[i - 1] \o lists[i]
    <3>1. CASE i = k + 1
      <4>1. h[k] = g[k] /\ k + 1 # 0 /\ (k + 1) - 1 = k
        BY <2>5
      <4>2. h[i] = h[i - 1] \o lists[i] /\ i # 0
        BY <2>5, <3>1, <4>1 DEF last
      <4> QED BY <4>2
    <3>2. CASE i # k + 1
      BY <2>2, <2>5, <3>2
    <3> QED BY <3>1, <3>2
  <2>4. Chained(lists, k + 1, h)
    BY <2>3, <2>6 DEF Chained
  <2> QED BY <2>4
<1> HIDE DEF T
<1>3. n \in T
  BY <1>1, <1>2, NumberInduction
<1> QED BY <1>3 DEF T

LEMMA ChainUnfolds ==
    ASSUME NEW lists
    PROVE  Chain(lists) = (CHOOSE g : Chained(lists, Len(lists), g))[Len(lists)]
BY DEF Chain, Chained

\* Every entry comes from one of the first n lists, and behind all entries of
\* the lists before that one.
InTurn(lists, n, list) ==
    \A j \in DOMAIN list : \E i \in 1..n :
        /\ list[j] \in Members(lists[i])
        /\ \A before \in 1..(i - 1) : \A x \in Members(lists[before]) :
              \E k \in 1..(j - 1) : list[k] = x

\* Nothing of the first n lists is left out.
Whole(lists, n, list) ==
    \A i \in 1..n : \A x \in Members(lists[i]) : \E k \in DOMAIN list : list[k] = x

\* One more list behind the n lists so far.
LEMMA OneMore ==
    ASSUME NEW lists, NEW n \in Nat, NEW list, IsList(list),
           InTurn(lists, n, list), Whole(lists, n, list),
           NEW more, Members(more) = Members(lists[n + 1]), IsList(more)
    PROVE  /\ IsList(list \o more)
           /\ InTurn(lists, n + 1, list \o more)
           /\ Whole(lists, n + 1, list \o more)
<1> DEFINE c == list \o more
<1>1. IsList(c) /\ Len(c) = Len(list) + Len(more)
  BY Concatenated
<1>2. /\ Len(list) \in Nat /\ DOMAIN list = 1..Len(list)
      /\ Len(more) \in Nat /\ DOMAIN more = 1..Len(more)
  BY ListFacts
<1>3. \A j \in DOMAIN list : c[j] = list[j]
  BY FirstPart
<1>4. \A j \in DOMAIN c : \/ j \in DOMAIN list /\ c[j] = list[j]
                         \/ \E i \in DOMAIN more : j = Len(list) + i /\ c[j] = more[i]
  BY JoinedEntry
<1>5. \A i \in DOMAIN more : c[Len(list) + i] = more[i]
  <2>1. ASSUME NEW i \in DOMAIN more
        PROVE  c[Len(list) + i] = more[i]
    BY SecondPart
  <2> QED BY <2>1
<1> HIDE DEF c
<1>6. DOMAIN c = 1..(Len(list) + Len(more))
  BY <1>1, ListFacts
<1>7. ASSUME NEW j \in DOMAIN c
      PROVE  \E i \in 1..(n + 1) :
                /\ c[j] \in Members(lists[i])
                /\ \A before \in 1..(i - 1) : \A x \in Members(lists[before]) :
                      \E k \in 1..(j - 1) : c[k] = x
  <2>1. CASE j \in DOMAIN list
    <3>1. PICK i \in 1..n :
              /\ list[j] \in Members(lists[i])
              /\ \A before \in 1..(i - 1) : \A x \in Members(lists[before]) :
                    \E k \in 1..(j - 1) : list[k] = x
      BY <2>1 DEF InTurn
    <3>2. \A k \in 1..(j - 1) : c[k] = list[k]
      BY <1>2, <1>3, <2>1
    <3>3. c[j] = list[j] /\ i \in 1..(n + 1)
      BY <1>3, <2>1
    <3> QED BY <3>1, <3>2, <3>3
  <2>2. CASE \E m \in DOMAIN more : j = Len(list) + m /\ c[j] = more[m]
    <3>1. PICK m \in DOMAIN more : j = Len(list) + m /\ c[j] = more[m]
      BY <2>2
    <3>2. c[j] \in Members(lists[n + 1])
      BY <3>1 DEF Members
    <3>3. ASSUME NEW before \in 1..n, NEW x \in Members(lists[before])
          PROVE  \E k \in 1..(j - 1) : c[k] = x
      <4>1. PICK k \in DOMAIN list : list[k] = x
        BY <3>3 DEF Whole
      <4>2. k \in 1..(j - 1) /\ c[k] = x
        BY <1>2, <1>3, <3>1, <4>1
      <4> QED BY <4>2
    <3>4. (n + 1) - 1 = n /\ n + 1 \in 1..(n + 1)
      OBVIOUS
    <3> QED BY <3>2, <3>3, <3>4
  <2> QED BY <1>4, <2>1, <2>2
<1>8. InTurn(lists, n + 1, c)
  BY <1>7 DEF InTurn
<1>9. ASSUME NEW i \in 1..(n + 1), NEW x \in Members(lists[i])
      PROVE  \E k \in DOMAIN c : c[k] = x
  <2>1. CASE i \in 1..n
    <3>1. PICK k \in DOMAIN list : list[k] = x
      BY <2>1, <1>9 DEF Whole
    <3> QED BY <1>2, <1>3, <1>6, <3>1
  <2>2. CASE i = n + 1
    <3>1. PICK m \in DOMAIN more : more[m] = x
      BY <1>9, <2>2 DEF Members
    <3>2. Len(list) + m \in DOMAIN c /\ c[Len(list) + m] = x
      BY <1>2, <1>5, <1>6, <3>1
    <3> QED BY <3>2
  <2>3. i \in 1..n \/ i = n + 1
    OBVIOUS
  <2> QED BY <2>1, <2>2, <2>3
<1>10. Whole(lists, n + 1, c)
  BY <1>9 DEF Whole
<1> QED BY <1>1, <1>8, <1>10 DEF c

\* Chain takes the lists one after the other.
LEMMA ChainInTurn ==
    ASSUME NEW lists, IsList(lists), \A i \in DOMAIN lists : IsList(lists[i])
    PROVE  IsList(Chain(lists)) /\ InTurn(lists, Len(lists), Chain(lists))
<1> DEFINE g == CHOOSE h : Chained(lists, Len(lists), h)
<1>1. Len(lists) \in Nat /\ DOMAIN lists = 1..Len(lists)
  BY ListFacts
<1>2. Chained(lists, Len(lists), g)
  BY <1>1, ChainDefined
<1>3. Chain(lists) = g[Len(lists)]
  BY ChainUnfolds
<1> HIDE DEF g
<1>4. \A i \in 0..Len(lists) : g[i] = IF i = 0 THEN <<>> ELSE g[i - 1] \o lists[i]
  BY <1>2 DEF Chained
<1> DEFINE Good(n) == IsList(g[n]) /\ InTurn(lists, n, g[n]) /\ Whole(lists, n, g[n])
           T == {n \in Nat : n <= Len(lists) => Good(n)}
<1>5. 0 \in T
  <2>1. g[0] = <<>>
    BY <1>1, <1>4
  <2>2. IsList(<<>>) /\ DOMAIN <<>> = {}
    BY DEF IsList, Members
  <2>3. Good(0)
    BY <2>1, <2>2 DEF InTurn, Whole
  <2> QED BY <2>3
<1>6. ASSUME NEW n \in Nat, n \in T
      PROVE  n + 1 \in T
  <2>1. SUFFICES ASSUME n + 1 <= Len(lists)
                 PROVE  Good(n + 1)
    OBVIOUS
  <2>2. Good(n)
    BY <1>1, <1>6, <2>1
  <2>3. g[n + 1] = g[n] \o lists[n + 1] /\ n + 1 \in DOMAIN lists
    <3>1. n + 1 \in 0..Len(lists) /\ n + 1 # 0 /\ (n + 1) - 1 = n
      BY <1>1, <2>1
    <3>2. g[n + 1] = g[(n + 1) - 1] \o lists[n + 1]
      BY <1>4, <3>1
    <3>3. n + 1 \in 1..Len(lists)
      BY <1>1, <2>1
    <3>4. g[n + 1] = g[n] \o lists[n + 1]
      BY <3>1, <3>2
    <3> QED BY <1>1, <3>3, <3>4
  <2>4. IsList(lists[n + 1])
    BY <2>3
  <2> QED BY <2>2, <2>3, <2>4, OneMore
<1> HIDE DEF Good
<1>7. Good(Len(lists))
  <2> HIDE DEF T
  <2>1. Len(lists) \in T
    BY <1>1, <1>5, <1>6, NumberInduction
  <2> QED BY <1>1, <2>1 DEF T
<1> QED BY <1>3, <1>7 DEF Good

\* Nothing comes into a chain from anywhere else.
LEMMA EntryOfOne ==
    ASSUME NEW lists, IsList(lists), \A i \in DOMAIN lists : IsList(lists[i]),
           NEW j \in DOMAIN Chain(lists)
    PROVE  \E i \in DOMAIN lists : Chain(lists)[j] \in Members(lists[i])
BY ChainInTurn, ListFacts DEF InTurn

LEMMA MembersChained ==
    ASSUME NEW lists, IsList(lists), \A i \in DOMAIN lists : IsList(lists[i]),
           NEW x \in Members(Chain(lists))
    PROVE  \E i \in DOMAIN lists : x \in Members(lists[i])
BY EntryOfOne DEF Members

-----------------------------------------------------------------------------
(* The rows of published curriculum *)

\* Every node has a list of rows.
RowShape(row) ==
    row = [parent |-> row.parent, text |-> row.text, place |-> row.place, state |-> row.state]

Listed(list) ==
    /\ list \in Seq(Members(list))
    /\ \A v \in DOMAIN list : RowShape(list[v])

RowsListed == DOMAIN rows = Nodes /\ \A n \in Nodes : Listed(rows[n])

\* The rows of a stable id stay a list when each of them changes in place,
LEMMA Relisted ==
    ASSUME NEW list, Listed(list), NEW next, next = [v \in DOMAIN list |-> next[v]],
           \A v \in DOMAIN list : RowShape(next[v])
    PROVE  Listed(next)
<1>1. DOMAIN list = 1..Len(list) /\ Len(list) \in Nat
  BY DEF Listed
<1>2. next \in Seq(Members(next))
  BY <1>1 DEF Members
<1> QED BY <1>2 DEF Listed

\* and when a version is added.
LEMMA Appended ==
    ASSUME NEW list, Listed(list), NEW new, RowShape(new)
    PROVE  /\ Listed(Append(list, new))
           /\ DOMAIN list \subseteq DOMAIN Append(list, new)
           /\ \A v \in DOMAIN list : Append(list, new)[v] = list[v]
<1> DEFINE next == Append(list, new)
<1>1. list \in Seq(Members(list) \cup {new})
  BY DEF Listed
<1>2. /\ next \in Seq(Members(list) \cup {new})
      /\ Len(next) = Len(list) + 1 /\ next[Len(list) + 1] = new
      /\ \A v \in 1..Len(list) : next[v] = list[v]
      /\ DOMAIN list = 1..Len(list) /\ Len(list) \in Nat
  BY <1>1
<1> HIDE DEF next
<1>3. DOMAIN next = 1..(Len(list) + 1)
  BY <1>2
<1>4. next \in Seq(Members(next))
  BY <1>2, <1>3 DEF Members
<1>5. \A v \in DOMAIN next : RowShape(next[v])
  BY <1>2, <1>3 DEF Listed
<1>6. Listed(next) /\ DOMAIN list \subseteq DOMAIN next /\ \A v \in DOMAIN list : next[v] = list[v]
  BY <1>2, <1>3, <1>4, <1>5 DEF Listed
<1> QED BY <1>6 DEF next

\* What one step may do to the rows.
Inserts == \E n, new : RowShape(new) /\ rows' = [rows EXCEPT ![n] = Append(rows[n], new)]
Revises ==
    \E n, v : /\ rows[n][v].state = "draft"
              /\ rows' = [rows EXCEPT ![n][v] = Revised(rows[n][v], n)]
Moved == \E v, to : rows' = [rows EXCEPT ![Path][v].state = to]
Publishes ==
    \E tree : rows' = [n \in Nodes |-> [v \in DOMAIN rows[n] |->
                  IF <<n, v>> \in tree THEN [rows[n][v] EXCEPT !.state = "published"]
                  ELSE rows[n][v]]]

\* Every step is one of these for the rows.
LEMMA RowSteps ==
    ASSUME [Next]_vars
    PROVE  UNCHANGED rows \/ Inserts \/ Revises \/ Moved \/ Publishes
<1> SUFFICES ASSUME ~ UNCHANGED rows
             PROVE  Inserts \/ Revises \/ Moved \/ Publishes
  OBVIOUS
<1>1. PICK o \in Operators : Insert(o) \/ Update(o) \/ Publish(o) \/ Move(o)
  BY DEF Next, Import, Transition, Find, Content, Children, Relations, Number, Edge, CheckDraft,
         Link, Piece, Rule, Validate, From, Event, Stop, Attempt, KeepStored, curriculum, vars
<1>2. CASE Insert(o)
  <2> DEFINE n == Head1(o).node
             new == [parent |-> ParentOf(o, n), text |-> Document.text[n],
                     place |-> Document.place[n], state |-> "draft"]
  <2>1. rows' = [rows EXCEPT ![n] = Append(@, new)]
    BY <1>2 DEF Insert
  <2>2. RowShape(new)
    BY DEF RowShape
  <2> QED BY <2>1, <2>2 DEF Inserts
<1>3. CASE Update(o)
  BY <1>3 DEF Update, Attempt, curriculum, IdOf, RowOf, Revises
<1>4. CASE Publish(o)
  BY <1>4 DEF Publish, Publishes
<1>5. CASE Move(o)
  BY <1>5 DEF Move, Moved
<1> QED BY <1>1, <1>2, <1>3, <1>4, <1>5

\* A row of the next state is a row of this one, a draft revised, a row that
\* moved, or a new one.
LEMMA RowsKept ==
    ASSUME RowsListed, [Next]_vars
    PROVE  /\ RowsListed'
           /\ \A n \in Nodes : \A v \in DOMAIN rows[n] :
                 /\ v \in DOMAIN rows'[n]
                 /\ rows'[n][v].parent = rows[n][v].parent
                 /\ rows[n][v].state = "draft"
                    \/ rows'[n][v] = [rows[n][v] EXCEPT !.state = rows'[n][v].state]
<1> DEFINE Kept(n) ==
             /\ Listed(rows'[n])
             /\ \A v \in DOMAIN rows[n] :
                   /\ v \in DOMAIN rows'[n]
                   /\ rows'[n][v].parent = rows[n][v].parent
                   /\ rows[n][v].state = "draft"
                      \/ rows'[n][v] = [rows[n][v] EXCEPT !.state = rows'[n][v].state]
<1> SUFFICES DOMAIN rows' = Nodes /\ \A n \in Nodes : Kept(n)
  BY DEF RowsListed
<1>1. ASSUME NEW n \in Nodes, rows'[n] = rows[n]
      PROVE  Kept(n)
  BY <1>1 DEF RowsListed, Listed, RowShape
<1>2. ASSUME NEW n \in Nodes,
             rows'[n] = [v \in DOMAIN rows[n] |-> rows'[n][v]],
             \A v \in DOMAIN rows[n] : \E state : rows'[n][v] = [rows[n][v] EXCEPT !.state = state]
      PROVE  Kept(n)
  <2>1. \A v \in DOMAIN rows[n] :
            /\ RowShape(rows'[n][v])
            /\ rows'[n][v].parent = rows[n][v].parent
            /\ rows'[n][v] = [rows[n][v] EXCEPT !.state = rows'[n][v].state]
    BY <1>2 DEF RowsListed, Listed, RowShape
  <2>2. Listed(rows'[n])
    BY <1>2, <2>1, Relisted DEF RowsListed
  <2>3. DOMAIN rows'[n] = DOMAIN rows[n]
    BY <1>2
  <2> QED BY <2>1, <2>2, <2>3
<1>3. CASE UNCHANGED rows
  BY <1>1, <1>3 DEF RowsListed
<1>4. CASE Inserts
  <2>1. PICK m, new : RowShape(new) /\ rows' = [rows EXCEPT ![m] = Append(rows[m], new)]
    BY <1>4 DEF Inserts
  <2>2. DOMAIN rows' = Nodes
    BY <2>1 DEF RowsListed
  <2>3. ASSUME NEW n \in Nodes, n = m
        PROVE  Kept(n)
    <3>1. rows'[n] = Append(rows[n], new)
      BY <2>1, <2>3 DEF RowsListed
    <3>2. /\ Listed(rows'[n])
          /\ DOMAIN rows[n] \subseteq DOMAIN rows'[n]
          /\ \A v \in DOMAIN rows[n] : rows'[n][v] = rows[n][v]
      BY <2>1, <3>1, Appended DEF RowsListed
    <3>3. \A v \in DOMAIN rows[n] : RowShape(rows[n][v])
      BY DEF RowsListed, Listed
    <3> QED BY <3>2, <3>3 DEF RowShape
  <2>4. \A n \in Nodes : n # m => rows'[n] = rows[n]
    BY <2>1 DEF RowsListed
  <2> QED BY <1>1, <2>2, <2>3, <2>4
<1>5. CASE Revises
  <2>1. PICK m, w : /\ rows[m][w].state = "draft"
                    /\ rows' = [rows EXCEPT ![m][w] = Revised(rows[m][w], m)]
    BY <1>5 DEF Revises
  <2>2. DOMAIN rows' = Nodes
    BY <2>1 DEF RowsListed
  <2>3. ASSUME NEW n \in Nodes, n = m
        PROVE  Kept(n)
    <3>1. rows'[n] = [rows[n] EXCEPT ![w] = Revised(rows[n][w], n)]
      BY <2>1, <2>3 DEF RowsListed
    <3>2. /\ rows'[n] = [v \in DOMAIN rows[n] |-> rows'[n][v]]
          /\ \A v \in DOMAIN rows[n] :
                rows'[n][v] = IF v = w THEN Revised(rows[n][v], n) ELSE rows[n][v]
      BY <3>1
    <3>3. \A v \in DOMAIN rows[n] : RowShape(rows[n][v])
      BY DEF RowsListed, Listed
    <3>4. \A v \in DOMAIN rows[n] : RowShape(rows'[n][v])
      BY <3>2, <3>3 DEF RowShape, Revised
    <3>5. Listed(rows'[n])
      BY <3>2, <3>4, Relisted DEF RowsListed
    <3>6. \A v \in DOMAIN rows[n] : rows[n][v] = [rows[n][v] EXCEPT !.state = rows[n][v].state]
      BY <3>3 DEF RowShape
    <3>7. ASSUME NEW v \in DOMAIN rows[n], rows[n][v].state # "draft"
          PROVE  rows'[n][v] = [rows[n][v] EXCEPT !.state = rows'[n][v].state]
      <4>1. rows'[n][v] = rows[n][v]
        BY <2>1, <2>3, <3>2, <3>7
      <4> QED BY <3>6, <4>1
    <3>8. DOMAIN rows'[n] = DOMAIN rows[n]
      BY <3>2
    <3>9. \A v \in DOMAIN rows[n] : rows'[n][v].parent = rows[n][v].parent
      BY <3>2, <3>3 DEF RowShape, Revised
    <3> QED BY <3>5, <3>7, <3>8, <3>9
  <2>4. \A n \in Nodes : n # m => rows'[n] = rows[n]
    BY <2>1 DEF RowsListed
  <2> QED BY <1>1, <2>2, <2>3, <2>4
<1>6. CASE Moved
  <2>1. PICK w, to : rows' = [rows EXCEPT ![Path][w].state = to]
    BY <1>6 DEF Moved
  <2>2. DOMAIN rows' = Nodes
    BY <2>1 DEF RowsListed
  <2>3. ASSUME NEW n \in Nodes, n = Path
        PROVE  Kept(n)
    <3>1. rows'[n] = [rows[n] EXCEPT ![w] = [rows[n][w] EXCEPT !.state = to]]
      BY <2>1, <2>3 DEF RowsListed
    <3>2. /\ rows'[n] = [v \in DOMAIN rows[n] |-> rows'[n][v]]
          /\ \A v \in DOMAIN rows[n] :
                rows'[n][v] = IF v = w THEN [rows[n][v] EXCEPT !.state = to] ELSE rows[n][v]
      BY <3>1
    <3>3. \A v \in DOMAIN rows[n] : RowShape(rows[n][v])
      BY DEF RowsListed, Listed
    <3>4. \A v \in DOMAIN rows[n] : rows[n][v] = [rows[n][v] EXCEPT !.state = rows[n][v].state]
      BY <3>3 DEF RowShape
    <3>5. ASSUME NEW v \in DOMAIN rows[n]
          PROVE  \E state : rows'[n][v] = [rows[n][v] EXCEPT !.state = state]
      <4>1. CASE v = w
        BY <3>2, <4>1
      <4>2. CASE v # w
        <5>1. rows'[n][v] = rows[n][v]
          BY <3>2, <4>2
        <5> QED BY <3>4, <5>1
      <4> QED BY <4>1, <4>2
    <3> QED BY <1>2, <3>2, <3>5
  <2>4. \A n \in Nodes : n # Path => rows'[n] = rows[n]
    BY <2>1 DEF RowsListed
  <2> QED BY <1>1, <2>2, <2>3, <2>4
<1>7. CASE Publishes
  <2>1. PICK tree : rows' = [n \in Nodes |-> [v \in DOMAIN rows[n] |->
                        IF <<n, v>> \in tree THEN [rows[n][v] EXCEPT !.state = "published"]
                        ELSE rows[n][v]]]
    BY <1>7 DEF Publishes
  <2>2. DOMAIN rows' = Nodes
    BY <2>1
  <2>3. ASSUME NEW n \in Nodes
        PROVE  Kept(n)
    <3>1. \A v \in DOMAIN rows[n] : RowShape(rows[n][v])
      BY DEF RowsListed, Listed
    <3>2. \A v \in DOMAIN rows[n] : rows[n][v] = [rows[n][v] EXCEPT !.state = rows[n][v].state]
      BY <3>1 DEF RowShape
    <3>3. rows'[n] = [v \in DOMAIN rows[n] |-> rows'[n][v]]
      BY <2>1
    <3>4. ASSUME NEW v \in DOMAIN rows[n]
          PROVE  \E state : rows'[n][v] = [rows[n][v] EXCEPT !.state = state]
      <4>1. rows'[n][v] = IF <<n, v>> \in tree THEN [rows[n][v] EXCEPT !.state = "published"]
                          ELSE rows[n][v]
        BY <2>1
      <4> QED BY <3>2, <4>1
    <3> QED BY <1>2, <3>3, <3>4
  <2> QED BY <2>2, <2>3
<1> QED BY <1>3, <1>4, <1>5, <1>6, <1>7, RowSteps

LEMMA RowsInit == Init => RowsListed
<1> SUFFICES ASSUME Init PROVE RowsListed
  OBVIOUS
<1>1. Listed(<<>>)
  BY DEF Listed, Members
<1>2. ASSUME NEW doc, NEW n, NEW state
      PROVE  Listed(<<FirstRow(doc, n, state)>>)
  BY DEF Listed, Members, RowShape, FirstRow
<1>3. ASSUME NEW doc, NEW state, Holds(doc, state)
      PROVE  RowsListed
  BY <1>1, <1>2, <1>3 DEF Holds, RowsListed
<1>4. CASE Empty
  BY <1>1, <1>4 DEF Empty, RowsListed
<1> QED BY <1>3, <1>4 DEF Init

\* A row that is published keeps its text, its place and its parent, whatever
\* imports and transitions do in between (updateDraftCurriculumNode).
THEOREM PublishedStay == Spec => PublishedNodesStay
<1>1. RowsListed /\ [Next]_vars => RowsListed'
  BY RowsKept
<1>2. RowsListed /\ [Next]_vars =>
        [\A id \in Ids : RowOf(id).state = "published" =>
            rows'[id[1]][id[2]] = [RowOf(id) EXCEPT !.state = rows'[id[1]][id[2]].state]]_vars
  BY RowsKept DEF Ids, RowOf
<1> QED BY <1>1, <1>2, RowsInit, PTL DEF Spec, PublishedNodesStay

-----------------------------------------------------------------------------
(* Assets before the steps that name them *)

\* "a" is written for the mission.
WritesPiece(entry, mission, a) ==
    entry.op = "piece" /\ entry.piece.mission = mission /\ entry.piece.piece = a

\* No row is inserted behind a piece, and the assets a piece names come before it.
AssetsFirst(list) ==
    /\ IsList(list)
    /\ \A j \in DOMAIN list : list[j].op = "piece" =>
          /\ \A k \in DOMAIN list : j < k => list[k].op # "insert"
          /\ \A a \in Needs[list[j].piece.piece] : \E k \in 1..(j - 1) :
                WritesPiece(list[k], list[j].piece.mission, a)

\* Without pieces there is nothing to put in order.
LEMMA OrderedWithout ==
    ASSUME NEW list, IsList(list), NoneOf("piece", list)
    PROVE  AssetsFirst(list)
BY DEF AssetsFirst, NoneOf

\* Two lists of round trips, one after the other.
LEMMA OrderedJoin ==
    ASSUME NEW s, NEW t, AssetsFirst(s), AssetsFirst(t), NoneOf("insert", t)
    PROVE  /\ AssetsFirst(s \o t)
           /\ NoneOf("insert", s) => NoneOf("insert", s \o t)
<1> DEFINE c == s \o t
<1>1. IsList(s) /\ IsList(t)
  BY DEF AssetsFirst
<1>2. IsList(c) /\ Len(c) = Len(s) + Len(t)
  BY <1>1, Concatenated
<1>3. \A i \in DOMAIN s : c[i] = s[i]
  BY <1>1, FirstPart
<1>4. \A i \in DOMAIN t : c[Len(s) + i] = t[i]
  <2>1. ASSUME NEW i \in DOMAIN t
        PROVE  c[Len(s) + i] = t[i]
    BY <1>1, SecondPart
  <2> QED BY <2>1
<1>5. /\ Len(s) \in Nat /\ DOMAIN s = 1..Len(s)
      /\ Len(t) \in Nat /\ DOMAIN t = 1..Len(t)
  BY <1>1, ListFacts
<1>6. \A j \in DOMAIN c : \/ j \in DOMAIN s /\ c[j] = s[j]
                         \/ \E i \in DOMAIN t : j = Len(s) + i /\ c[j] = t[i]
  BY <1>1, JoinedEntry
<1> HIDE DEF c
<1>7. DOMAIN c = 1..(Len(s) + Len(t))
  BY <1>2, ListFacts
<1>8. NoneOf("insert", s) => NoneOf("insert", c)
  BY <1>6 DEF NoneOf
<1>9. ASSUME NEW j \in DOMAIN c, c[j].op = "piece"
      PROVE  /\ \A k \in DOMAIN c : j < k => c[k].op # "insert"
             /\ \A a \in Needs[c[j].piece.piece] : \E k \in 1..(j - 1) :
                   WritesPiece(c[k], c[j].piece.mission, a)
  <2>1. ASSUME j \in DOMAIN s, c[j] = s[j]
        PROVE  \A k \in DOMAIN c : j < k => c[k].op # "insert"
    <3>1. \A k \in DOMAIN s : j < k => s[k].op # "insert"
      BY <1>9, <2>1 DEF AssetsFirst
    <3> QED BY <1>6, <3>1 DEF NoneOf
  <2>2. ASSUME NEW i \in DOMAIN t, j = Len(s) + i, c[j] = t[i]
        PROVE  \A k \in DOMAIN c : j < k => c[k].op # "insert"
    <3>1. \A k \in DOMAIN c : j < k => k \notin DOMAIN s
      BY <1>5, <1>7, <2>2
    <3> QED BY <1>6, <3>1 DEF NoneOf
  <2>3. ASSUME j \in DOMAIN s, c[j] = s[j], NEW a \in Needs[c[j].piece.piece]
        PROVE  \E k \in 1..(j - 1) : WritesPiece(c[k], c[j].piece.mission, a)
    <3>1. PICK k \in 1..(j - 1) : WritesPiece(s[k], s[j].piece.mission, a)
      BY <1>9, <2>3 DEF AssetsFirst
    <3>2. c[k] = s[k]
      BY <1>3, <1>5, <2>3
    <3> QED BY <2>3, <3>1, <3>2
  <2>4. ASSUME NEW i \in DOMAIN t, j = Len(s) + i, c[j] = t[i], NEW a \in Needs[c[j].piece.piece]
        PROVE  \E k \in 1..(j - 1) : WritesPiece(c[k], c[j].piece.mission, a)
    <3>1. PICK m \in 1..(i - 1) : WritesPiece(t[m], t[i].piece.mission, a)
      BY <1>9, <2>4 DEF AssetsFirst
    <3>2. c[Len(s) + m] = t[m] /\ Len(s) + m \in 1..(j - 1)
      BY <1>4, <1>5, <2>4
    <3> QED BY <2>4, <3>1, <3>2
  <2> QED BY <1>6, <2>1, <2>2, <2>3, <2>4
<1>10. AssetsFirst(c)
  BY <1>2, <1>9 DEF AssetsFirst
<1> QED BY <1>8, <1>10 DEF c

LEMMA OrderedChain ==
    ASSUME NEW lists, IsList(lists), \A i \in DOMAIN lists : IsList(lists[i]),
           \A i \in DOMAIN lists : NoneOf("piece", lists[i])
    PROVE  /\ AssetsFirst(Chain(lists))
           /\ (\A i \in DOMAIN lists : NoneOf("insert", lists[i])) => NoneOf("insert", Chain(lists))
<1>1. IsList(Chain(lists))
  BY ChainInTurn
<1>2. NoneOf("piece", Chain(lists))
  BY EntryOfOne DEF NoneOf, Members
<1>3. (\A i \in DOMAIN lists : NoneOf("insert", lists[i])) => NoneOf("insert", Chain(lists))
  BY EntryOfOne DEF NoneOf, Members
<1> QED BY <1>1, <1>2, <1>3, OrderedWithout

\* The pieces of a document are written in its order, and all pieces of a mission
\* if any of them is (executeReconciliationPlan: assets before steps).
LEMMA ContentOrdered ==
    ASSUME NEW cur
    PROVE  AssetsFirst(ContentWrites(cur)) /\ NoneOf("insert", ContentWrites(cur))
<1> DEFINE lists == [i \in DOMAIN Document.pieces |-> PieceWrites(cur, Document.pieces[i])]
           content == Chain(lists)
<1>1. /\ Len(Document.pieces) \in Nat /\ DOMAIN Document.pieces = 1..Len(Document.pieces)
  BY ListFacts, CurriculumImportAssumption DEF InLists
<1>2. IsList(lists)
  BY <1>1 DEF IsList, Members
<1>3. \A i \in DOMAIN lists : lists[i] = PieceWrites(cur, Document.pieces[i])
  OBVIOUS
<1>4. DOMAIN lists = DOMAIN Document.pieces
  OBVIOUS
<1> HIDE DEF lists
<1>5. \A p : IsList(PieceWrites(cur, p))
  BY ShortLists DEF PieceWrites
<1>6. \A p : \A x \in Members(PieceWrites(cur, p)) :
          x = Item("check", p.mission) \/ x = [op |-> "piece", piece |-> p]
  BY DEF PieceWrites, Members
<1>7. IsList(content) /\ InTurn(lists, Len(lists), content)
  BY <1>2, <1>3, <1>5, ChainInTurn
<1>8. Len(lists) \in Nat /\ DOMAIN lists = 1..Len(lists)
  BY <1>2, ListFacts
<1> HIDE DEF content
<1>9. NoneOf("insert", content)
  <2>1. ASSUME NEW j \in DOMAIN content
        PROVE  content[j].op # "insert"
    <3>1. PICK i \in DOMAIN lists : content[j] \in Members(PieceWrites(cur, Document.pieces[i]))
      BY <1>3, <1>7, <1>8 DEF InTurn
    <3> QED BY <1>6, <3>1 DEF Item
  <2> QED BY <2>1 DEF NoneOf
<1>10. ASSUME NEW j \in DOMAIN content, content[j].op = "piece",
              NEW a \in Needs[content[j].piece.piece]
       PROVE  \E k \in 1..(j - 1) : WritesPiece(content[k], content[j].piece.mission, a)
  <2>1. PICK i \in 1..Len(lists) :
            /\ content[j] \in Members(lists[i])
            /\ \A before \in 1..(i - 1) : \A x \in Members(lists[before]) :
                  \E k \in 1..(j - 1) : content[k] = x
    BY <1>7 DEF InTurn
  <2> DEFINE p == Document.pieces[i]
  <2>2. lists[i] = PieceWrites(cur, p) /\ i \in DOMAIN Document.pieces
    BY <1>3, <1>4, <1>8
  <2>3. content[j] = [op |-> "piece", piece |-> p]
    BY <1>6, <1>10, <2>1, <2>2 DEF Item
  <2>4. ContentAction(Document, cur, p.mission) # "reuse"
    BY <2>1, <2>2 DEF PieceWrites, Members
  <2>5. PICK before \in 1..(i - 1) : /\ Document.pieces[before].mission = p.mission
                                     /\ Document.pieces[before].piece = a
    <3>1. a \in Needs[p.piece]
      BY <1>10, <2>3
    <3> QED BY <2>2, <3>1, CurriculumImportAssumption DEF InLists
  <2> DEFINE q == Document.pieces[before]
             x == [op |-> "piece", piece |-> q]
  <2>6. lists[before] = <<Item("check", q.mission), x>>
    <3>1. before \in DOMAIN lists
      BY <1>8, <2>1
    <3>2. lists[before] = PieceWrites(cur, q)
      BY <1>3, <3>1
    <3>3. q.mission = p.mission
      BY <2>5
    <3> HIDE DEF p, q
    <3> QED BY <2>4, <3>2, <3>3 DEF PieceWrites
  <2>7. x \in Members(lists[before])
    BY <2>6 DEF Members
  <2>8. PICK k \in 1..(j - 1) : content[k] = x
    BY <2>1, <2>7
  <2> QED BY <2>3, <2>5, <2>8 DEF WritesPiece
<1>11. AssetsFirst(content)
  BY <1>7, <1>9, <1>10 DEF AssetsFirst, NoneOf
<1> QED BY <1>9, <1>11 DEF ContentWrites, content, lists

\* The nodes are written before anything else, so no row is inserted behind a piece.
LEMMA WritesOrdered ==
    ASSUME NEW cur
    PROVE  AssetsFirst(Writes(cur))
<1> DEFINE A == [i \in DOMAIN Document.nodes |-> NodeWrites(cur, Document.nodes[i])]
           E == [i \in DOMAIN Document.edges |-> EdgeWrites(cur, Document.edges[i])]
           L == [i \in DOMAIN Document.links |-> LinkWrites(cur, Document.links[i])]
           R == [i \in DOMAIN Document.rules |-> RuleWrites(cur, Document.rules[i])]
<1>2. IsList(A) /\ IsList(E) /\ IsList(L) /\ IsList(R)
  BY ListOver, CurriculumImportAssumption DEF InLists
<1>3. \A i \in DOMAIN A : IsList(A[i]) /\ NoneOf("piece", A[i])
  BY ShortLists DEF NodeWrites, Item
<1>4. \A i \in DOMAIN E : IsList(E[i]) /\ NoneOf("piece", E[i]) /\ NoneOf("insert", E[i])
  BY ShortLists DEF EdgeWrites, Item
<1>5. \A i \in DOMAIN L : IsList(L[i]) /\ NoneOf("piece", L[i]) /\ NoneOf("insert", L[i])
  BY ShortLists DEF LinkWrites, Item
<1>6. \A i \in DOMAIN R : IsList(R[i]) /\ NoneOf("piece", R[i]) /\ NoneOf("insert", R[i])
  BY ShortLists DEF RuleWrites, Item
<1> HIDE DEF A, E, L, R
<1>7. AssetsFirst(Chain(A))
  BY <1>2, <1>3, OrderedChain
<1>8. AssetsFirst(Chain(E)) /\ NoneOf("insert", Chain(E))
  BY <1>2, <1>4, OrderedChain
<1>9. AssetsFirst(Chain(L)) /\ NoneOf("insert", Chain(L))
  BY <1>2, <1>5, OrderedChain
<1>10. AssetsFirst(Chain(R)) /\ NoneOf("insert", Chain(R))
  BY <1>2, <1>6, OrderedChain
<1>11. AssetsFirst(Chain(A) \o Chain(E))
  BY <1>7, <1>8, OrderedJoin
<1>12. AssetsFirst(Chain(A) \o Chain(E) \o Chain(L))
  BY <1>9, <1>11, OrderedJoin
<1>13. AssetsFirst(Chain(A) \o Chain(E) \o Chain(L) \o ContentWrites(cur))
  BY <1>12, ContentOrdered, OrderedJoin
<1>14. AssetsFirst(Chain(A) \o Chain(E) \o Chain(L) \o ContentWrites(cur) \o Chain(R))
  BY <1>10, <1>13, OrderedJoin
<1> QED BY <1>14 DEF Writes, A, E, L, R

\* The asset is stored with the mission's row.
IsStored(set, id, a) == \E q \in set : q.mission = id /\ q.piece = a

\* What a command still has to do may begin anywhere in its plan: the assets a
\* piece names are written before it, or are stored and the mission's row is there.
Ready(todo, ids, set) ==
    /\ IsList(todo)
    /\ \A j \in DOMAIN todo : todo[j].op = "piece" =>
          /\ \A k \in DOMAIN todo : j < k => todo[k].op # "insert"
          /\ \A a \in Needs[todo[j].piece.piece] :
                \/ \E k \in 1..(j - 1) : WritesPiece(todo[k], todo[j].piece.mission, a)
                \/ /\ NoneOf("insert", todo)
                   /\ LET mission == todo[j].piece.mission
                      IN  IsStored(set, <<mission, ids[mission]>>, a)

\* Every asset a stored piece names is stored with it.
Closed(set) == \A p \in set : \A a \in Needs[p.piece] : IsStored(set, p.mission, a)

KeysKept(set, next) == \A id, a : IsStored(set, id, a) => IsStored(next, id, a)

LEMMA ReadyFromPlan ==
    ASSUME NEW todo, NEW ids, NEW set, AssetsFirst(todo)
    PROVE  Ready(todo, ids, set)
BY DEF Ready, AssetsFirst

\* A piece that is stored stays stored, as itself or replaced.
LEMMA ReadyStays ==
    ASSUME NEW todo, NEW ids, NEW set, NEW next, Ready(todo, ids, set), KeysKept(set, next)
    PROVE  Ready(todo, ids, next)
BY DEF Ready, KeysKept

\* The round trip that is done has stored what the others rely on.
LEMMA ReadyTail ==
    ASSUME NEW todo, NEW ids, NEW later, NEW set, NEW next,
           Ready(todo, ids, set), todo # <<>>, KeysKept(set, next),
           LET mission == todo[1].piece.mission
           IN  todo[1].op = "piece" => IsStored(next, <<mission, ids[mission]>>, todo[1].piece.piece),
           later = ids \/ todo[1].op = "insert"
    PROVE  Ready(Tail(todo), later, next)
<1> DEFINE rest == Tail(todo)
<1>1. IsList(todo) /\ Len(todo) \in Nat /\ DOMAIN todo = 1..Len(todo) /\ Len(todo) > 0
  BY TailFacts DEF Ready
<1>2. /\ IsList(rest) /\ DOMAIN rest = 1..(Len(todo) - 1)
      /\ \A j \in DOMAIN rest : rest[j] = todo[j + 1]
  BY <1>1, TailFacts
<1> HIDE DEF rest
<1>3. NoneOf("insert", todo) => NoneOf("insert", rest) /\ later = ids
  BY <1>1, <1>2 DEF NoneOf
<1>4. ASSUME NEW j \in DOMAIN rest, rest[j].op = "piece", NEW k \in DOMAIN rest, j < k
      PROVE  rest[k].op # "insert"
  <2>1. /\ j + 1 \in DOMAIN todo /\ k + 1 \in DOMAIN todo /\ j + 1 < k + 1
        /\ rest[j] = todo[j + 1] /\ rest[k] = todo[k + 1]
    BY <1>1, <1>2, <1>4
  <2> QED BY <1>4, <2>1 DEF Ready
<1>5. ASSUME NEW j \in DOMAIN rest, rest[j].op = "piece", NEW a \in Needs[rest[j].piece.piece]
      PROVE  \/ \E k \in 1..(j - 1) : WritesPiece(rest[k], rest[j].piece.mission, a)
             \/ /\ NoneOf("insert", rest)
                /\ LET mission == rest[j].piece.mission
                   IN  IsStored(next, <<mission, later[mission]>>, a)
  <2> DEFINE mission == rest[j].piece.mission
  <2>1. j + 1 \in DOMAIN todo /\ rest[j] = todo[j + 1] /\ (j + 1) - 1 = j
    BY <1>1, <1>2
  <2>2. CASE \E k \in 1..j : WritesPiece(todo[k], mission, a)
    <3>1. PICK k \in 1..j : WritesPiece(todo[k], mission, a)
      BY <2>2
    <3>2. CASE k = 1
      <4>1. /\ todo[1].op = "piece" /\ todo[1].piece.mission = mission /\ todo[1].piece.piece = a
        BY <3>1, <3>2 DEF WritesPiece
      <4>2. later = ids /\ IsStored(next, <<mission, ids[mission]>>, a)
        BY <4>1
      <4>3. NoneOf("insert", rest)
        <5>1. \A i \in DOMAIN todo : 1 < i => todo[i].op # "insert"
          BY <1>1, <4>1 DEF Ready
        <5>2. \A i \in DOMAIN rest : i + 1 \in DOMAIN todo /\ 1 < i + 1
          BY <1>1, <1>2
        <5> QED BY <1>2, <5>1, <5>2 DEF NoneOf
      <4> QED BY <4>2, <4>3
    <3>3. CASE k # 1
      <4>1. k - 1 \in 1..(j - 1) /\ k - 1 \in DOMAIN rest /\ (k - 1) + 1 = k
        BY <1>2, <3>3
      <4>2. rest[k - 1] = todo[k]
        BY <1>2, <4>1
      <4> QED BY <3>1, <4>1, <4>2
    <3> QED BY <3>2, <3>3
  <2>3. CASE NoneOf("insert", todo) /\ IsStored(set, <<mission, ids[mission]>>, a)
    BY <1>3, <2>3 DEF KeysKept
  <2> QED BY <1>5, <2>1, <2>2, <2>3 DEF Ready
<1>6. Ready(rest, later, next)
  BY <1>2, <1>4, <1>5 DEF Ready
<1> QED BY <1>6 DEF rest

\* What is known of a job, whatever it is at.
JobFields == {"kind", "publish", "todo", "cur", "ids", "number", "from", "status"}

JobReady(j, set) ==
    /\ DOMAIN j = JobFields
    /\ j.kind # "idle" => j.todo # <<>>
    /\ Ready(j.todo, j.ids, set)

ImportInv ==
    /\ DOMAIN job = Operators
    /\ \A o \in Operators : JobReady(job[o], pieces)
    /\ Closed(pieces)

LEMMA NoJobReady ==
    ASSUME NEW status, NEW set
    PROVE  JobReady(NoJob(status), set)
<1>1. Ready(<<>>, NoIds, set)
  BY ShortLists, ReadyFromPlan, OrderedWithout
<1> QED BY <1>1 DEF JobReady, NoJob, JobFields

\* The other jobs do not mind what is stored in addition.
LEMMA OneJob ==
    ASSUME ImportInv, NEW o \in Operators, NEW j,
           job' = [job EXCEPT ![o] = j], JobReady(j, pieces'),
           KeysKept(pieces, pieces'), Closed(pieces')
    PROVE  ImportInv'
<1>1. DOMAIN job' = Operators /\ \A p \in Operators : job'[p] = IF p = o THEN j ELSE job[p]
  BY DEF ImportInv
<1>2. ASSUME NEW p \in Operators, p # o
      PROVE  JobReady(job[p], pieces')
  BY ReadyStays DEF ImportInv, JobReady
<1>3. \A p \in Operators : JobReady(job'[p], pieces')
  BY <1>1, <1>2
<1> QED BY <1>1, <1>3 DEF ImportInv

\* A job that ends, however it ends, has nothing left to do.
LEMMA EndKeeps ==
    ASSUME ImportInv, NEW o \in Operators, NEW status, End(o, status), UNCHANGED pieces
    PROVE  ImportInv'
<1>1. JobReady(NoJob(status), pieces')
  BY NoJobReady
<1>2. KeysKept(pieces, pieces') /\ Closed(pieces')
  BY DEF KeysKept, ImportInv
<1> HIDE DEF End
<1>3. job' = [job EXCEPT ![o] = NoJob(status)]
  BY DEF End
<1> QED BY <1>1, <1>2, <1>3, OneJob

\* One round trip done.
LEMMA NextKeeps ==
    ASSUME ImportInv, NEW o \in Operators, job[o].kind # "idle",
           NEW rest, DOMAIN rest = JobFields, rest.todo = job[o].todo,
           rest.ids = job[o].ids \/ Head1(o).op = "insert",
           Next1(o, rest), KeysKept(pieces, pieces'), Closed(pieces'),
           Head1(o).op = "piece" =>
               IsStored(pieces', IdOf(o, Head1(o).piece.mission), Head1(o).piece.piece)
    PROVE  ImportInv'
<1> DEFINE next == IF Tail(rest.todo) = <<>> THEN NoJob("done")
                   ELSE [rest EXCEPT !.todo = Tail(@)]
<1>1. Ready(job[o].todo, job[o].ids, pieces) /\ job[o].todo # <<>>
  BY DEF ImportInv, JobReady
<1>2. Head1(o) = job[o].todo[1]
  BY DEF Head1
<1>3. Ready(Tail(job[o].todo), rest.ids, pieces')
  BY <1>1, <1>2, ReadyTail DEF IdOf
<1>4. JobReady(next, pieces')
  <2>1. CASE Tail(rest.todo) = <<>>
    BY <2>1, NoJobReady
  <2>2. CASE Tail(rest.todo) # <<>>
    <3> DEFINE j == [rest EXCEPT !.todo = Tail(@)]
    <3>1. DOMAIN j = JobFields /\ j.todo = Tail(job[o].todo) /\ j.ids = rest.ids
      BY DEF JobFields
    <3> HIDE DEF j
    <3>2. JobReady(j, pieces')
      BY <1>3, <2>2, <3>1 DEF JobReady
    <3> QED BY <2>2, <3>2 DEF j
  <2> QED BY <2>1, <2>2
<1>5. job' = [job EXCEPT ![o] = next]
  BY DEF Next1
<1> HIDE DEF next
<1> QED BY <1>4, <1>5, OneJob

LEMMA AdvanceKeeps ==
    ASSUME ImportInv, NEW o \in Operators, job[o].kind # "idle", Advance(o),
           UNCHANGED pieces, Head1(o).op # "piece"
    PROVE  ImportInv'
<1>1. DOMAIN job[o] = JobFields
  BY DEF ImportInv, JobReady
<1>2. KeysKept(pieces, pieces') /\ Closed(pieces')
  BY DEF KeysKept, ImportInv
<1> QED BY <1>1, <1>2, NextKeeps DEF Advance

LEMMA AttemptKeeps ==
    ASSUME ImportInv, NEW o \in Operators, job[o].kind # "idle",
           Advance(o) \/ End(o, "failed"),
           UNCHANGED pieces, Head1(o).op # "piece"
    PROVE  ImportInv'
BY AdvanceKeeps, EndKeeps

\* The three lists a job begins with.
LEMMA MovesOrdered ==
    ASSUME NEW to
    PROVE  AssetsFirst(Moves(to)) /\ NoneOf("insert", Moves(to)) /\ Moves(to) # <<>>
<1> DEFINE A == <<[op |-> "from", to |-> to]>>
           B == IF to = "published" THEN <<[op |-> "validate"], [op |-> "publish"]>>
                ELSE <<[op |-> "move", to |-> to]>>
           C == <<[op |-> "event"]>>
<1>1. AssetsFirst(A) /\ NoneOf("insert", A) /\ AssetsFirst(C) /\ NoneOf("insert", C)
  BY ShortLists, OrderedWithout
<1>2. AssetsFirst(B) /\ NoneOf("insert", B)
  BY ShortLists, OrderedWithout
<1>3. Len(A) = 1 /\ Len(C) = 1
  OBVIOUS
<1> HIDE DEF A, B, C
<1>4. AssetsFirst(A \o B) /\ NoneOf("insert", A \o B)
  BY <1>1, <1>2, OrderedJoin
<1>5. AssetsFirst(A \o B \o C) /\ NoneOf("insert", A \o B \o C)
  BY <1>1, <1>4, OrderedJoin
<1>6. Len(A \o B \o C) = Len(A) + Len(B) + Len(C) /\ Len(B) \in Nat
  BY <1>1, <1>2, <1>4, Concatenated, ListFacts DEF AssetsFirst
<1>7. A \o B \o C # <<>>
  BY <1>3, <1>6
<1> QED BY <1>5, <1>7 DEF Moves, A, B, C

LEMMA QueriesOrdered ==
    LET todo == Chain([i \in DOMAIN Document.nodes |-> NodeQueries(Document.nodes[i])])
                \o <<[op |-> "children"], [op |-> "relations"]>>
    IN  AssetsFirst(todo) /\ todo # <<>>
<1> DEFINE lists == [i \in DOMAIN Document.nodes |-> NodeQueries(Document.nodes[i])]
           B == <<[op |-> "children"], [op |-> "relations"]>>
<1>1. /\ Len(Document.nodes) \in Nat /\ DOMAIN Document.nodes = 1..Len(Document.nodes)
  BY ListFacts, CurriculumImportAssumption DEF InLists
<1>2. IsList(lists)
  BY <1>1 DEF IsList, Members
<1>3. \A i \in DOMAIN lists : IsList(lists[i]) /\ NoneOf("piece", lists[i])
  BY ShortLists DEF NodeQueries, Item
<1>4. AssetsFirst(B) /\ NoneOf("insert", B) /\ Len(B) = 2
  BY ShortLists, OrderedWithout
<1> HIDE DEF lists, B
<1>5. AssetsFirst(Chain(lists))
  BY <1>2, <1>3, OrderedChain
<1>6. AssetsFirst(Chain(lists) \o B)
  BY <1>4, <1>5, OrderedJoin
<1>7. IsList(Chain(lists)) /\ IsList(B)
  BY <1>4, <1>5 DEF AssetsFirst
<1>8. Len(Chain(lists) \o B) = Len(Chain(lists)) + Len(B) /\ Len(Chain(lists)) \in Nat
  BY <1>7, Concatenated, ListFacts
<1>9. Chain(lists) \o B # <<>>
  BY <1>4, <1>8
<1> QED BY <1>6, <1>9 DEF lists, B

LEMMA PlanOrdered ==
    ASSUME NEW cur, NEW publish
    PROVE  LET todo == Writes(cur) \o <<[op |-> "validate"]>>
                       \o (IF publish THEN Moves("review") \o Moves("published") ELSE <<>>)
           IN  AssetsFirst(todo) /\ todo # <<>>
<1> DEFINE A == Writes(cur)
           B == <<[op |-> "validate"]>>
           C == IF publish THEN Moves("review") \o Moves("published") ELSE <<>>
<1>1. AssetsFirst(A)
  BY WritesOrdered
<1>2. AssetsFirst(B) /\ NoneOf("insert", B) /\ Len(B) = 1
  BY ShortLists, OrderedWithout
<1>3. AssetsFirst(C) /\ NoneOf("insert", C)
  BY MovesOrdered, OrderedJoin, ShortLists, OrderedWithout
<1> HIDE DEF A, B, C
<1>4. AssetsFirst(A \o B)
  BY <1>1, <1>2, OrderedJoin
<1>5. AssetsFirst(A \o B \o C)
  BY <1>3, <1>4, OrderedJoin
<1>6. IsList(A) /\ IsList(B) /\ IsList(A \o B) /\ IsList(C)
  BY <1>1, <1>2, <1>3, <1>4 DEF AssetsFirst
<1>7. Len(A \o B) = Len(A) + Len(B) /\ Len(A) \in Nat /\ Len(C) \in Nat
  BY <1>6, Concatenated, ListFacts
<1>8. Len(A \o B \o C) = Len(A \o B) + Len(C)
  BY <1>6, Concatenated
<1>9. A \o B \o C # <<>>
  BY <1>2, <1>7, <1>8
<1> QED BY <1>5, <1>9 DEF A, B, C

LEMMA Untouched ==
    ASSUME ImportInv, UNCHANGED pieces
    PROVE  KeysKept(pieces, pieces') /\ Closed(pieces')
BY DEF KeysKept, ImportInv

\* Every action keeps ImportInv; pieces are stored by Piece alone.
LEMMA ImportStep ==
    ASSUME ImportInv, [Next]_vars
    PROVE  ImportInv'
<1>1. CASE UNCHANGED vars
  BY <1>1 DEF vars, curriculum, ImportInv
<1>2. ASSUME NEW o \in Operators, NEW publish \in BOOLEAN, Import(o, publish)
      PROVE  ImportInv'
  <2> DEFINE todo == Chain([i \in DOMAIN Document.nodes |-> NodeQueries(Document.nodes[i])])
                     \o <<[op |-> "children"], [op |-> "relations"]>>
             j == [NoJob("none") EXCEPT !.kind = "import", !.publish = publish, !.cur = Blank,
                       !.todo = todo]
  <2>1. AssetsFirst(todo) /\ todo # <<>>
    BY QueriesOrdered
  <2>2. job' = [job EXCEPT ![o] = j] /\ UNCHANGED pieces
    BY <1>2 DEF Import, curriculum
  <2> HIDE DEF todo
  <2>3. DOMAIN j = JobFields /\ j.todo = todo /\ j.ids = NoIds
    BY DEF NoJob, JobFields
  <2> HIDE DEF j
  <2>4. JobReady(j, pieces')
    BY <2>1, <2>3, ReadyFromPlan DEF JobReady
  <2> QED BY <2>2, <2>4, OneJob, Untouched
<1>3. ASSUME NEW o \in Operators, NEW version, NEW to, Transition(o, version, to)
      PROVE  ImportInv'
  <2> DEFINE j == [NoJob("none") EXCEPT !.kind = "transition", !.todo = Moves(to),
                                        !.ids[Path] = version]
  <2>1. job' = [job EXCEPT ![o] = j] /\ UNCHANGED pieces
    BY <1>3 DEF Transition, curriculum
  <2>2. DOMAIN j = JobFields /\ j.todo = Moves(to)
    BY DEF NoJob, JobFields
  <2> HIDE DEF j
  <2>3. JobReady(j, pieces')
    BY <2>2, MovesOrdered, ReadyFromPlan DEF JobReady
  <2> QED BY <2>1, <2>3, OneJob, Untouched
<1>4. ASSUME NEW o \in Operators, job[o].kind # "idle", NEW rest,
             DOMAIN rest = DOMAIN job[o], rest.todo = job[o].todo, rest.ids = job[o].ids,
             Next1(o, rest), Head1(o).op # "piece", UNCHANGED pieces
      PROVE  ImportInv'
  <2>1. DOMAIN rest = JobFields
    BY <1>4 DEF ImportInv, JobReady
  <2> QED BY <1>4, <2>1, Untouched, NextKeeps
<1>5. ASSUME NEW o \in Operators, Find(o)
      PROVE  ImportInv'
  <2> DEFINE rest == [job[o] EXCEPT !.cur.found[Head1(o).node] = NewestOf(Head1(o).node)]
  <2>1. DOMAIN job[o] = JobFields
    BY DEF ImportInv, JobReady
  <2>2. DOMAIN rest = DOMAIN job[o] /\ rest.todo = job[o].todo /\ rest.ids = job[o].ids
    BY <2>1 DEF JobFields
  <2>3. Next1(o, rest) /\ job[o].kind # "idle" /\ Head1(o).op # "piece" /\ UNCHANGED pieces
    BY <1>5 DEF Find, AtOp, KeepStored, curriculum
  <2> HIDE DEF rest
  <2> QED BY <1>4, <2>2, <2>3
<1>6. ASSUME NEW o \in Operators, Content(o)
      PROVE  ImportInv'
  <2> DEFINE n == Head1(o).node
             rest == [job[o] EXCEPT !.cur.pieces = @ \cup StoredContent(n, job[o].cur.found[n])]
  <2>1. DOMAIN job[o] = JobFields
    BY DEF ImportInv, JobReady
  <2>2. DOMAIN rest = DOMAIN job[o] /\ rest.todo = job[o].todo /\ rest.ids = job[o].ids
    BY <2>1 DEF JobFields
  <2>3. Next1(o, rest) /\ job[o].kind # "idle" /\ Head1(o).op # "piece" /\ UNCHANGED pieces
    BY <1>6 DEF Content, AtOp, KeepStored, curriculum
  <2> HIDE DEF rest
  <2> QED BY <1>4, <2>2, <2>3
<1>7. ASSUME NEW o \in Operators, Children(o)
      PROVE  ImportInv'
  <2> DEFINE rest == [job[o] EXCEPT !.cur.children = StoredChildren(job[o].cur.found)]
  <2>1. DOMAIN job[o] = JobFields
    BY DEF ImportInv, JobReady
  <2>2. DOMAIN rest = DOMAIN job[o] /\ rest.todo = job[o].todo /\ rest.ids = job[o].ids
    BY <2>1 DEF JobFields
  <2>3. Next1(o, rest) /\ job[o].kind # "idle" /\ Head1(o).op # "piece" /\ UNCHANGED pieces
    BY <1>7 DEF Children, AtOp, KeepStored, curriculum
  <2> HIDE DEF rest
  <2> QED BY <1>4, <2>2, <2>3
<1>8. ASSUME NEW o \in Operators, Relations(o)
      PROVE  ImportInv'
  <2>1. UNCHANGED pieces
    BY <1>8 DEF Relations, KeepStored, curriculum
  <2>2. CASE \E status : End(o, status)
    BY <2>1, <2>2, EndKeeps
  <2>3. CASE \E cur, ids : job' = [job EXCEPT ![o] =
                     [@ EXCEPT !.cur = Forgotten,
                               !.ids = ids,
                               !.todo = Writes(cur) \o <<[op |-> "validate"]>>
                                        \o (IF job[o].publish
                                            THEN Moves("review") \o Moves("published")
                                            ELSE <<>>)]]
    <3>1. PICK cur, ids : job' = [job EXCEPT ![o] =
                     [@ EXCEPT !.cur = Forgotten,
                               !.ids = ids,
                               !.todo = Writes(cur) \o <<[op |-> "validate"]>>
                                        \o (IF job[o].publish
                                            THEN Moves("review") \o Moves("published")
                                            ELSE <<>>)]]
      BY <2>3
    <3> DEFINE todo == Writes(cur) \o <<[op |-> "validate"]>>
                       \o (IF job[o].publish THEN Moves("review") \o Moves("published")
                           ELSE <<>>)
               j == [job[o] EXCEPT !.cur = Forgotten, !.ids = ids, !.todo = todo]
    <3>2. AssetsFirst(todo) /\ todo # <<>>
      BY PlanOrdered
    <3>3. DOMAIN job = Operators /\ DOMAIN job[o] = JobFields
      BY DEF ImportInv, JobReady
    <3>4. job' = [job EXCEPT ![o] = j]
      BY <3>1
    <3> HIDE DEF todo
    <3>5. DOMAIN j = JobFields /\ j.todo = todo /\ j.ids = ids
      BY <3>3 DEF JobFields
    <3> HIDE DEF j
    <3>6. JobReady(j, pieces')
      BY <3>2, <3>5, ReadyFromPlan DEF JobReady
    <3> QED BY <2>1, <3>4, <3>6, OneJob, Untouched
  <2> QED BY <1>8, <2>2, <2>3 DEF Relations
<1>9. ASSUME NEW o \in Operators, Number(o)
      PROVE  ImportInv'
  <2> DEFINE rest == [job[o] EXCEPT !.number = Len(rows[Head1(o).node]) + 1]
  <2>1. DOMAIN job[o] = JobFields
    BY DEF ImportInv, JobReady
  <2>2. DOMAIN rest = DOMAIN job[o] /\ rest.todo = job[o].todo /\ rest.ids = job[o].ids
    BY <2>1 DEF JobFields
  <2>3. Next1(o, rest) /\ job[o].kind # "idle" /\ Head1(o).op # "piece" /\ UNCHANGED pieces
    BY <1>9 DEF Number, AtOp, KeepStored, curriculum
  <2> HIDE DEF rest
  <2> QED BY <1>4, <2>2, <2>3
<1>10. ASSUME NEW o \in Operators, Insert(o)
       PROVE  ImportInv'
  <2> DEFINE rest == [job[o] EXCEPT !.ids[Head1(o).node] = job[o].number]
  <2>1. job[o].kind # "idle" /\ Head1(o).op = "insert" /\ UNCHANGED pieces
    BY <1>10 DEF Insert, AtOp
  <2>2. Next1(o, rest) \/ End(o, "failed")
    BY <1>10 DEF Insert
  <2>3. DOMAIN job[o] = JobFields
    BY DEF ImportInv, JobReady
  <2>4. DOMAIN rest = JobFields /\ rest.todo = job[o].todo
    BY <2>3 DEF JobFields
  <2> HIDE DEF rest
  <2> QED BY <2>1, <2>2, <2>4, NextKeeps, EndKeeps, Untouched
<1>11. ASSUME NEW o \in Operators,
              Update(o) \/ Edge(o) \/ CheckDraft(o) \/ Validate(o) \/ From(o)
       PROVE  ImportInv'
  <2>1. /\ job[o].kind # "idle" /\ Head1(o).op # "piece" /\ UNCHANGED pieces
        /\ Advance(o) \/ End(o, "failed")
    BY <1>11 DEF Update, Edge, CheckDraft, Validate, From, Attempt, AtOp, curriculum
  <2> QED BY <2>1, AttemptKeeps
<1>12. ASSUME NEW o \in Operators,
              Link(o) \/ Rule(o) \/ Publish(o) \/ Move(o) \/ Event(o)
       PROVE  ImportInv'
  <2>1. /\ job[o].kind # "idle" /\ Head1(o).op # "piece" /\ UNCHANGED pieces
        /\ Advance(o)
    BY <1>12 DEF Link, Rule, Publish, Move, Event, AtOp, KeepStored, curriculum
  <2> QED BY <2>1, AdvanceKeeps
<1>13. ASSUME NEW o \in Operators, Piece(o)
       PROVE  ImportInv'
  <2> DEFINE p == Head1(o).piece
             new == [mission |-> IdOf(o, p.mission), piece |-> p.piece, text |-> p.text]
  <2>1. /\ job[o].kind # "idle" /\ Head1(o).op = "piece" /\ Advance(o)
        /\ pieces' = {q \in pieces : q.mission # new.mission \/ q.piece # new.piece} \cup {new}
    BY <1>13 DEF Piece, AtOp
  <2>2. new.mission = IdOf(o, p.mission) /\ new.piece = p.piece
    OBVIOUS
  <2> HIDE DEF new
  <2>3. KeysKept(pieces, pieces')
    BY <2>1 DEF KeysKept, IsStored
  <2>4. IsStored(pieces', new.mission, new.piece)
    BY <2>1 DEF IsStored
  <2>5. \A a \in Needs[p.piece] : IsStored(pieces, new.mission, a)
    <3>1. Ready(job[o].todo, job[o].ids, pieces) /\ job[o].todo # <<>>
      BY <2>1 DEF ImportInv, JobReady
    <3>2. 1 \in DOMAIN job[o].todo
      BY <3>1, ListFacts DEF Ready, IsList
    <3>3. Head1(o) = job[o].todo[1]
      BY DEF Head1
    <3>4. \A k \in 1..(1 - 1) : FALSE
      OBVIOUS
    <3> QED BY <2>1, <2>2, <3>1, <3>2, <3>3, <3>4 DEF Ready, IdOf
  <2>6. Closed(pieces')
    BY <2>1, <2>2, <2>3, <2>5 DEF Closed, ImportInv, KeysKept
  <2>7. DOMAIN job[o] = JobFields /\ Next1(o, job[o])
    BY <2>1 DEF ImportInv, JobReady, Advance
  <2> HIDE DEF p
  <2> QED BY <2>1, <2>2, <2>3, <2>4, <2>6, <2>7, NextKeeps DEF p
<1>14. ASSUME NEW o \in Operators, Stop(o)
       PROVE  ImportInv'
  BY <1>14, EndKeeps DEF Stop, KeepStored, curriculum
<1> QED
  BY <1>1, <1>2, <1>3, <1>5, <1>6, <1>7, <1>8, <1>9, <1>10, <1>11, <1>12, <1>13, <1>14 DEF Next

LEMMA ImportInit == Init => ImportInv
<1> SUFFICES ASSUME Init PROVE ImportInv
  OBVIOUS
<1>1. DOMAIN job = Operators /\ \A o \in Operators : JobReady(job[o], pieces)
  BY NoJobReady DEF Init
<1>2. ASSUME NEW r \in pieces, NEW a \in Needs[r.piece]
      PROVE  IsStored(pieces, r.mission, a)
  <2>1. pieces = {[mission |-> <<p.mission, 1>>, piece |-> p.piece, text |-> p.text] :
                      p \in Members(Earlier.pieces)}
    BY DEF Init, Empty, Holds
  <2>2. PICK p \in Members(Earlier.pieces) :
            r = [mission |-> <<p.mission, 1>>, piece |-> p.piece, text |-> p.text]
    BY <2>1
  <2>3. PICK q \in Members(Earlier.pieces) : q.mission = p.mission /\ q.piece = a
    BY <2>2, CurriculumImportAssumption DEF WellFormed, PiecesOf
  <2> DEFINE s == [mission |-> <<q.mission, 1>>, piece |-> q.piece, text |-> q.text]
  <2>4. s \in pieces /\ s.mission = r.mission /\ s.piece = a
    BY <2>1, <2>2, <2>3
  <2> QED BY <2>4 DEF IsStored
<1>3. Closed(pieces)
  BY <1>2 DEF Closed
<1> QED BY <1>1, <1>3 DEF ImportInv

\* Wherever an import is cut off, and whatever other imports and transitions run, no
\* stored step names an asset that is not stored with its mission
\* (executeReconciliationPlan: assets before steps).
THEOREM ReferencesStay == Spec => []ReferencesResolve
<1>1. ImportInv => ReferencesResolve
  <2> SUFFICES ASSUME ImportInv, NEW id
               PROVE  Resolves(id)
    BY DEF ReferencesResolve
  <2> QED BY DEF ImportInv, Closed, IsStored, Resolves, StoredPieces
<1> QED BY <1>1, ImportInit, ImportStep, PTL DEF Spec

-----------------------------------------------------------------------------
(* All that is stored can be planned for again *)

LEMMA ParentsKnown == \A n \in Nodes : Document.parent[n] \in Nodes \/ Document.parent[n] = NoNode
<1>1. Len(Document.nodes) \in Nat /\ DOMAIN Document.nodes = 1..Len(Document.nodes)
  BY ListFacts, CurriculumImportAssumption DEF InLists
<1>2. ASSUME NEW i \in DOMAIN Document.nodes, Document.parent[Document.nodes[i]] # NoNode
      PROVE  Document.parent[Document.nodes[i]] \in Nodes
  <2>1. PICK k \in 1..(i - 1) : Document.nodes[k] = Document.parent[Document.nodes[i]]
    BY <1>2, CurriculumImportAssumption DEF InLists
  <2>2. k \in DOMAIN Document.nodes
    BY <1>1
  <2> QED BY <2>1, <2>2 DEF Nodes, NodesOf
<1> QED BY <1>2 DEF Nodes, NodesOf

\* What the document says of a round trip that writes.
Authored(e) ==
    /\ e.op = "insert" => e.node \in Nodes
    /\ e.op = "piece" => e.piece \in Members(Document.pieces)
    /\ e.op = "link" => e.link \in Members(Document.links)
    /\ e.op = "edge" => e.edge \in Members(Document.edges)
    /\ e.op = "rule" => e.rule \in Members(Document.rules)

\* A round trip that reads or only moves a state.
PlainTrip(e) == e.op \notin {"insert", "piece", "link", "edge", "rule", "relations"}

\* The row that holds a version of a stable id.
HasRow(rs, n, version) == version \in DOMAIN rs[n]

RowsGrow(rs, next) == \A n \in Nodes : DOMAIN rs[n] \subseteq DOMAIN next[n]

InsertsNode(e, n) == e.op = "insert" /\ e.node = n

\* A node is inserted behind its parent, or the parent has its row.
ParentsReady(todo, ids, rs) ==
    \A j \in DOMAIN todo : todo[j].op = "insert" =>
        LET above == Document.parent[todo[j].node]
        IN  \/ above = NoNode
            \/ HasRow(rs, above, ids[above])
            \/ \E k \in 1..(j - 1) : InsertsNode(todo[k], above)

\* What was found is still there.
FoundRows(cur, rs) ==
    /\ "found" \in DOMAIN cur
    /\ DOMAIN cur.found = Nodes
    /\ \A n \in Nodes : cur.found[n].version = 0 \/ HasRow(rs, n, cur.found[n].version)

JobSound(j, rs) ==
    /\ DOMAIN j.ids = Nodes
    /\ \A e \in Members(j.todo) : Authored(e)
    /\ ParentsReady(j.todo, j.ids, rs)
    /\ NoneOf("relations", j.todo) \/ FoundRows(j.cur, rs)

\* The row hangs where the document places it.
RowUnder(row, n, rs) ==
    \/ Document.parent[n] = NoNode /\ row.parent = NoId
    \/ /\ Document.parent[n] \in Nodes
       /\ \E w \in DOMAIN rs[Document.parent[n]] : row.parent = <<Document.parent[n], w>>

\* All that is stored is in the document, whatever became of the rest of it.
StoredIsAuthored ==
    /\ \A n \in Nodes : \A v \in DOMAIN rows[n] : RowUnder(rows[n][v], n, rows)
    /\ \A p \in pieces : \E q \in Members(Document.pieces) :
          q.mission = p.mission[1] /\ q.piece = p.piece
    /\ \A l \in links : <<l[1][1], l[2][1]>> \in Members(Document.links)
    /\ \A e \in edges : <<e[1][1], e[2][1]>> \in Members(Document.edges)
    /\ \A s \in rules : \E r \in Members(Document.rules) : SameKey(r, s)

SoundInv ==
    /\ \A o \in Operators : JobSound(job[o], rows)
    /\ StoredIsAuthored

LEMMA PlainIsAuthored ==
    ASSUME NEW e, PlainTrip(e)
    PROVE  Authored(e) /\ e.op # "relations" /\ e.op # "insert"
BY DEF PlainTrip, Authored

LEMMA MovesPlain ==
    ASSUME NEW to
    PROVE  \A e \in Members(Moves(to)) : PlainTrip(e)
<1> DEFINE A == <<[op |-> "from", to |-> to]>>
           B == IF to = "published" THEN <<[op |-> "validate"], [op |-> "publish"]>>
                ELSE <<[op |-> "move", to |-> to]>>
           C == <<[op |-> "event"]>>
<1>1. IsList(A) /\ IsList(B) /\ IsList(C)
  BY ShortLists
<1>2. \A e \in Members(A) : PlainTrip(e)
  BY ShortMembers DEF PlainTrip
<1>3. \A e \in Members(B) : PlainTrip(e)
  BY ShortMembers DEF PlainTrip
<1>4. \A e \in Members(C) : PlainTrip(e)
  BY ShortMembers DEF PlainTrip
<1> HIDE DEF A, B, C
<1>5. Members(A \o B \o C) \subseteq Members(A) \cup Members(B) \cup Members(C)
  BY <1>1, MembersJoined, Concatenated
<1> QED BY <1>2, <1>3, <1>4, <1>5 DEF Moves, A, B, C

\* What is planned says of every node, piece, link, edge and rule what the
\* document says.
LEMMA WritesAuthored ==
    ASSUME NEW cur
    PROVE  \A e \in Members(Writes(cur)) : Authored(e) /\ e.op # "relations"
<1> DEFINE A == [i \in DOMAIN Document.nodes |-> NodeWrites(cur, Document.nodes[i])]
           E == [i \in DOMAIN Document.edges |-> EdgeWrites(cur, Document.edges[i])]
           L == [i \in DOMAIN Document.links |-> LinkWrites(cur, Document.links[i])]
           P == [i \in DOMAIN Document.pieces |-> PieceWrites(cur, Document.pieces[i])]
           R == [i \in DOMAIN Document.rules |-> RuleWrites(cur, Document.rules[i])]
           Fine(list) == \A e \in Members(list) : Authored(e) /\ e.op # "relations"
<1>2. IsList(A) /\ IsList(E) /\ IsList(L) /\ IsList(P) /\ IsList(R)
  BY ListOver, CurriculumImportAssumption DEF InLists
<1>3. \A i \in DOMAIN A : IsList(A[i]) /\ Fine(A[i])
  BY ShortLists, ShortMembers DEF NodeWrites, Item, Authored, Nodes, NodesOf
<1>4. \A i \in DOMAIN E : IsList(E[i]) /\ Fine(E[i])
  BY ShortLists, ShortMembers DEF EdgeWrites, Item, Authored, Members
<1>5. \A i \in DOMAIN L : IsList(L[i]) /\ Fine(L[i])
  BY ShortLists, ShortMembers DEF LinkWrites, Item, Authored, Members
<1>6. \A i \in DOMAIN P : IsList(P[i]) /\ Fine(P[i])
  BY ShortLists, ShortMembers DEF PieceWrites, Item, Authored, Members
<1>7. \A i \in DOMAIN R : IsList(R[i]) /\ Fine(R[i])
  BY ShortLists, ShortMembers DEF RuleWrites, Item, Authored, Members
<1> HIDE DEF A, E, L, P, R
<1>8. ASSUME NEW lists, IsList(lists), \A i \in DOMAIN lists : IsList(lists[i]) /\ Fine(lists[i])
      PROVE  IsList(Chain(lists)) /\ Fine(Chain(lists))
  BY <1>8, MembersChained, ChainInTurn
<1>9. ASSUME NEW s, NEW t, IsList(s), IsList(t), Fine(s), Fine(t)
      PROVE  IsList(s \o t) /\ Fine(s \o t)
  BY <1>9, MembersJoined, Concatenated
<1> HIDE DEF Fine
<1>10. IsList(Chain(A)) /\ Fine(Chain(A))
  BY <1>2, <1>3, <1>8
<1>11. IsList(Chain(E)) /\ Fine(Chain(E))
  BY <1>2, <1>4, <1>8
<1>12. IsList(Chain(L)) /\ Fine(Chain(L))
  BY <1>2, <1>5, <1>8
<1>13. IsList(Chain(P)) /\ Fine(Chain(P))
  BY <1>2, <1>6, <1>8
<1>14. IsList(Chain(R)) /\ Fine(Chain(R))
  BY <1>2, <1>7, <1>8
<1>15. IsList(Chain(A) \o Chain(E)) /\ Fine(Chain(A) \o Chain(E))
  BY <1>9, <1>10, <1>11
<1>16. IsList(Chain(A) \o Chain(E) \o Chain(L)) /\ Fine(Chain(A) \o Chain(E) \o Chain(L))
  BY <1>9, <1>12, <1>15
<1>17. /\ IsList(Chain(A) \o Chain(E) \o Chain(L) \o Chain(P))
       /\ Fine(Chain(A) \o Chain(E) \o Chain(L) \o Chain(P))
  BY <1>9, <1>13, <1>16
<1>18. Fine(Chain(A) \o Chain(E) \o Chain(L) \o Chain(P) \o Chain(R))
  BY <1>9, <1>14, <1>17
<1> QED BY <1>18 DEF Writes, ContentWrites, A, E, L, P, R, Fine

\* Parents before children, when more is planned behind them.
LEMMA ParentsJoin ==
    ASSUME NEW s, NEW t, NEW ids, NEW rs, IsList(s), IsList(t),
           ParentsReady(s, ids, rs), NoneOf("insert", t)
    PROVE  ParentsReady(s \o t, ids, rs)
<1> DEFINE c == s \o t
<1>1. \A j \in DOMAIN c : \/ j \in DOMAIN s /\ c[j] = s[j]
                         \/ \E i \in DOMAIN t : j = Len(s) + i /\ c[j] = t[i]
  BY JoinedEntry
<1>2. \A i \in DOMAIN s : c[i] = s[i]
  BY FirstPart
<1>3. Len(s) \in Nat /\ DOMAIN s = 1..Len(s)
  BY ListFacts
<1> HIDE DEF c
<1>4. ASSUME NEW j \in DOMAIN c, c[j].op = "insert"
      PROVE  LET above == Document.parent[c[j].node]
             IN  \/ above = NoNode
                 \/ HasRow(rs, above, ids[above])
                 \/ \E k \in 1..(j - 1) : InsertsNode(c[k], above)
  <2>1. j \in DOMAIN s /\ c[j] = s[j]
    BY <1>1, <1>4 DEF NoneOf
  <2>2. \A k \in 1..(j - 1) : c[k] = s[k]
    BY <1>2, <1>3, <2>1
  <2> QED BY <1>4, <2>1, <2>2 DEF ParentsReady
<1>5. ParentsReady(c, ids, rs)
  BY <1>4 DEF ParentsReady
<1> QED BY <1>5 DEF c

LEMMA NoInsertReady ==
    ASSUME NEW list, NEW ids, NEW rs, NoneOf("insert", list)
    PROVE  ParentsReady(list, ids, rs)
BY DEF ParentsReady, NoneOf

\* Rows are never taken away from under a job.
LEMMA ParentsGrow ==
    ASSUME NEW todo, NEW ids, NEW rs, NEW next, RowsGrow(rs, next),
           ParentsReady(todo, ids, rs), \A e \in Members(todo) : Authored(e)
    PROVE  ParentsReady(todo, ids, next)
<1>1. \A j \in DOMAIN todo : todo[j].op = "insert" =>
          Document.parent[todo[j].node] \in Nodes \/ Document.parent[todo[j].node] = NoNode
  BY ParentsKnown DEF Authored, Members
<1> QED BY <1>1 DEF ParentsReady, RowsGrow, HasRow

\* The insert that is done has given its children their parent.
LEMMA ParentsTail ==
    ASSUME NEW todo, NEW ids, NEW later, NEW rs, NEW next,
           IsList(todo), todo # <<>>, RowsGrow(rs, next),
           ParentsReady(todo, ids, rs), \A e \in Members(todo) : Authored(e),
           \A n \in Nodes : \/ later[n] = ids[n] /\ ~ InsertsNode(todo[1], n)
                            \/ HasRow(next, n, later[n])
    PROVE  ParentsReady(Tail(todo), later, next)
<1> DEFINE rest == Tail(todo)
<1>1. /\ IsList(rest) /\ DOMAIN rest = 1..(Len(todo) - 1)
      /\ \A j \in DOMAIN rest : rest[j] = todo[j + 1]
      /\ Len(todo) \in Nat /\ DOMAIN todo = 1..Len(todo) /\ Len(todo) > 0
  BY TailFacts
<1> HIDE DEF rest
<1>2. ASSUME NEW j \in DOMAIN rest, rest[j].op = "insert"
      PROVE  LET above == Document.parent[rest[j].node]
             IN  \/ above = NoNode
                 \/ HasRow(next, above, later[above])
                 \/ \E k \in 1..(j - 1) : InsertsNode(rest[k], above)
  <2> DEFINE above == Document.parent[rest[j].node]
  <2>1. j + 1 \in DOMAIN todo /\ rest[j] = todo[j + 1] /\ (j + 1) - 1 = j
    BY <1>1
  <2>2. rest[j].node \in Nodes
    BY <1>2, <2>1 DEF Authored, Members
  <2>3. above \in Nodes \/ above = NoNode
    BY <2>2, ParentsKnown
  <2>4. CASE above \in Nodes /\ HasRow(rs, above, ids[above])
    BY <2>4 DEF RowsGrow, HasRow
  <2>5. CASE above \in Nodes /\ \E k \in 1..j : InsertsNode(todo[k], above)
    <3>1. PICK k \in 1..j : InsertsNode(todo[k], above)
      BY <2>5
    <3>2. CASE k = 1
      BY <2>5, <3>1, <3>2
    <3>3. CASE k # 1
      <4>1. k - 1 \in 1..(j - 1) /\ k - 1 \in DOMAIN rest /\ (k - 1) + 1 = k
        BY <1>1, <3>3
      <4>2. rest[k - 1] = todo[k]
        BY <1>1, <4>1
      <4> QED BY <3>1, <4>1, <4>2
    <3> QED BY <3>2, <3>3
  <2> QED BY <1>2, <2>1, <2>3, <2>4, <2>5 DEF ParentsReady
<1>3. ParentsReady(rest, later, next)
  BY <1>2 DEF ParentsReady
<1> QED BY <1>3 DEF rest

\* A plan that is safe writes every parent it does not find.
LEMMA PlanParents ==
    ASSUME NEW cur, NEW rs, FoundRows(cur, rs), PlanIsSafeToExecute(Document, cur),
           NEW tail, IsList(tail), NoneOf("insert", tail)
    PROVE  ParentsReady(Writes(cur) \o tail, [n \in Nodes |-> cur.found[n].version], rs)
<1> DEFINE ids == [n \in Nodes |-> cur.found[n].version]
           A == [i \in DOMAIN Document.nodes |-> NodeWrites(cur, Document.nodes[i])]
           E == [i \in DOMAIN Document.edges |-> EdgeWrites(cur, Document.edges[i])]
           L == [i \in DOMAIN Document.links |-> LinkWrites(cur, Document.links[i])]
           R == [i \in DOMAIN Document.rules |-> RuleWrites(cur, Document.rules[i])]
           nodes == Chain(A)
<1>1. Len(Document.nodes) \in Nat /\ DOMAIN Document.nodes = 1..Len(Document.nodes)
  BY ListFacts, CurriculumImportAssumption DEF InLists
<1>3. IsList(A) /\ IsList(E) /\ IsList(L) /\ IsList(R)
  BY ListOver, CurriculumImportAssumption DEF InLists
<1>4. \A i \in DOMAIN A : IsList(A[i])
  BY ShortLists DEF NodeWrites
<1>5. \A i \in DOMAIN E : IsList(E[i]) /\ NoneOf("insert", E[i])
  BY ShortLists DEF EdgeWrites
<1>6. \A i \in DOMAIN L : IsList(L[i]) /\ NoneOf("insert", L[i])
  BY ShortLists DEF LinkWrites, Item
<1>7. \A i \in DOMAIN R : IsList(R[i]) /\ NoneOf("insert", R[i])
  BY ShortLists DEF RuleWrites
<1>8. DOMAIN A = DOMAIN Document.nodes /\ \A i \in DOMAIN A : A[i] = NodeWrites(cur, Document.nodes[i])
  OBVIOUS
<1>9. \A n \in Nodes : ids[n] = cur.found[n].version
  OBVIOUS
<1> HIDE DEF A, E, L, R, ids
<1>10. IsList(nodes) /\ InTurn(A, Len(A), nodes) /\ DOMAIN A = 1..Len(A)
  BY <1>3, <1>4, ChainInTurn, ListFacts
<1> HIDE DEF nodes
<1>11. ASSUME NEW j \in DOMAIN nodes, nodes[j].op = "insert"
       PROVE  LET above == Document.parent[nodes[j].node]
              IN  \/ above = NoNode
                  \/ HasRow(rs, above, ids[above])
                  \/ \E k \in 1..(j - 1) : InsertsNode(nodes[k], above)
  <2>1. PICK i \in 1..Len(A) :
            /\ nodes[j] \in Members(A[i])
            /\ \A before \in 1..(i - 1) : \A x \in Members(A[before]) :
                  \E k \in 1..(j - 1) : nodes[k] = x
    BY <1>10 DEF InTurn
  <2> DEFINE n == Document.nodes[i]
             above == Document.parent[n]
  <2>2. nodes[j].node = n /\ n \in Nodes
    <3>1. i \in DOMAIN Document.nodes /\ nodes[j] \in Members(NodeWrites(cur, n))
      BY <1>8, <1>10, <2>1
    <3>2. \A x \in Members(NodeWrites(cur, n)) : x.node = n
      BY ShortMembers DEF NodeWrites, Item
    <3>3. n \in Nodes
      BY <3>1 DEF Nodes, NodesOf
    <3> QED BY <3>1, <3>2, <3>3
  <2>3. SUFFICES ASSUME above # NoNode, ~ HasRow(rs, above, ids[above])
                 PROVE  \E k \in 1..(j - 1) : InsertsNode(nodes[k], above)
    BY <2>2
  <2>4. PICK before \in 1..(i - 1) : Document.nodes[before] = above
    BY <1>8, <1>10, <2>3, CurriculumImportAssumption DEF InLists
  <2>5. before \in DOMAIN Document.nodes
    BY <1>8, <1>10, <2>1
  <2>6. above \in Nodes
    BY <2>4, <2>5 DEF Nodes, NodesOf
  <2>7. cur.found[above].version = 0
    BY <1>9, <2>3, <2>6 DEF FoundRows
  <2>8. NodeAction(Document, cur, above) = "create"
    <3>1. NodeAction(Document, cur, above) \in {"create", "conflict"}
      BY <2>7 DEF NodeAction
    <3>2. NodeAction(Document, cur, above) \in Actions(Document, cur)
      BY <2>6 DEF Actions, Nodes
    <3> QED BY <3>1, <3>2 DEF PlanIsSafeToExecute, Refusing
  <2>9. Item("insert", above) \in Members(A[before])
    <3>1. A[before] = <<Item("number", above), Item("insert", above)>>
      BY <1>8, <2>4, <2>5, <2>8 DEF NodeWrites
    <3> QED BY <3>1, ShortMembers
  <2>10. PICK k \in 1..(j - 1) : nodes[k] = Item("insert", above)
    BY <2>1, <2>9
  <2> QED BY <2>10 DEF InsertsNode, Item
<1>12. ParentsReady(nodes, ids, rs)
  BY <1>11 DEF ParentsReady
<1>13. ASSUME NEW lists, IsList(lists),
              \A i \in DOMAIN lists : IsList(lists[i]) /\ NoneOf("insert", lists[i])
       PROVE  IsList(Chain(lists)) /\ NoneOf("insert", Chain(lists))
  BY <1>13, EntryOfOne, ChainInTurn DEF NoneOf, Members
<1>14. IsList(Chain(E)) /\ NoneOf("insert", Chain(E))
  BY <1>3, <1>5, <1>13
<1>15. IsList(Chain(L)) /\ NoneOf("insert", Chain(L))
  BY <1>3, <1>6, <1>13
<1>16. IsList(Chain(R)) /\ NoneOf("insert", Chain(R))
  BY <1>3, <1>7, <1>13
<1>17. IsList(ContentWrites(cur)) /\ NoneOf("insert", ContentWrites(cur))
  BY ContentOrdered DEF AssetsFirst
<1>18. IsList(nodes \o Chain(E)) /\ ParentsReady(nodes \o Chain(E), ids, rs)
  BY <1>10, <1>12, <1>14, ParentsJoin, Concatenated
<1>19. /\ IsList(nodes \o Chain(E) \o Chain(L))
       /\ ParentsReady(nodes \o Chain(E) \o Chain(L), ids, rs)
  BY <1>15, <1>18, ParentsJoin, Concatenated
<1>20. /\ IsList(nodes \o Chain(E) \o Chain(L) \o ContentWrites(cur))
       /\ ParentsReady(nodes \o Chain(E) \o Chain(L) \o ContentWrites(cur), ids, rs)
  BY <1>17, <1>19, ParentsJoin, Concatenated
<1>21. /\ IsList(nodes \o Chain(E) \o Chain(L) \o ContentWrites(cur) \o Chain(R))
       /\ ParentsReady(nodes \o Chain(E) \o Chain(L) \o ContentWrites(cur) \o Chain(R), ids, rs)
  BY <1>16, <1>20, ParentsJoin, Concatenated
<1>22. IsList(Writes(cur)) /\ ParentsReady(Writes(cur), ids, rs)
  BY <1>21 DEF Writes, nodes, A, E, L, R
<1>23. ParentsReady(Writes(cur) \o tail, ids, rs)
  BY <1>22, ParentsJoin
<1> QED BY <1>23 DEF ids

FullInv == ImportInv /\ RowsListed /\ SoundInv

\* The document keeps what its earlier edition says is there: it may revise and add.
OnlyAdds ==
    /\ \A n \in NodesOf(Earlier) : Earlier.parent[n] = Document.parent[n]
    /\ \A p \in Members(Earlier.pieces) : \E q \in Members(Document.pieces) :
          q.mission = p.mission /\ q.piece = p.piece
    /\ Members(Earlier.links) \subseteq Members(Document.links)
    /\ Members(Earlier.edges) \subseteq Members(Document.edges)
    /\ \A s \in Members(Earlier.rules) : \E r \in Members(Document.rules) : SameKey(r, s)

LEMMA NoJobSound ==
    ASSUME NEW status, NEW rs
    PROVE  JobSound(NoJob(status), rs)
<1>1. NoJob(status).todo = <<>> /\ DOMAIN NoJob(status).ids = Nodes
  BY DEF NoJob, NoIds
<1>2. NoneOf("insert", <<>>) /\ NoneOf("relations", <<>>) /\ Members(<<>>) = {}
  BY ShortLists, ShortMembers
<1>3. ParentsReady(<<>>, NoJob(status).ids, rs)
  BY <1>2, NoInsertReady
<1> HIDE DEF NoJob
<1> QED BY <1>1, <1>2, <1>3 DEF JobSound

LEMMA SoundGrows ==
    ASSUME NEW j, NEW rs, NEW next, JobSound(j, rs), RowsGrow(rs, next)
    PROVE  JobSound(j, next)
<1>1. ParentsReady(j.todo, j.ids, next)
  BY ParentsGrow DEF JobSound
<1>2. FoundRows(j.cur, rs) => FoundRows(j.cur, next)
  BY DEF FoundRows, RowsGrow, HasRow
<1> QED BY <1>1, <1>2 DEF JobSound

\* One job changes, and rows may have been added.
LEMMA JobsSound ==
    ASSUME FullInv, NEW o \in Operators, NEW j, job' = [job EXCEPT ![o] = j],
           JobSound(j, rows'), RowsGrow(rows, rows')
    PROVE  \A p \in Operators : JobSound(job'[p], rows')
<1>1. \A p \in Operators : job'[p] = IF p = o THEN j ELSE job[p]
  BY DEF FullInv, ImportInv
<1>2. ASSUME NEW p \in Operators, p # o
      PROVE  JobSound(job[p], rows')
  BY SoundGrows DEF FullInv, SoundInv
<1> QED BY <1>1, <1>2

LEMMA EndSound ==
    ASSUME FullInv, NEW o \in Operators, NEW status, End(o, status), RowsGrow(rows, rows')
    PROVE  \A p \in Operators : JobSound(job'[p], rows')
<1>1. job' = [job EXCEPT ![o] = NoJob(status)]
  BY DEF End
<1>2. JobSound(NoJob(status), rows')
  BY NoJobSound
<1> HIDE DEF End
<1> QED BY <1>1, <1>2, JobsSound

\* One round trip done.
LEMMA NextSound ==
    ASSUME FullInv, NEW o \in Operators, job[o].kind # "idle",
           NEW rest, DOMAIN rest = JobFields, rest.todo = job[o].todo,
           DOMAIN rest.ids = Nodes,
           \A n \in Nodes : \/ rest.ids[n] = job[o].ids[n] /\ ~ InsertsNode(Head1(o), n)
                            \/ HasRow(rows', n, rest.ids[n]),
           NoneOf("relations", job[o].todo) \/ FoundRows(rest.cur, rows'),
           Next1(o, rest), RowsGrow(rows, rows')
    PROVE  \A p \in Operators : JobSound(job'[p], rows')
<1> DEFINE next == IF Tail(rest.todo) = <<>> THEN NoJob("done")
                   ELSE [rest EXCEPT !.todo = Tail(@)]
           todo == job[o].todo
<1>1. IsList(todo) /\ todo # <<>> /\ Head1(o) = todo[1]
  BY DEF FullInv, ImportInv, JobReady, Ready, Head1
<1>2. ParentsReady(todo, job[o].ids, rows) /\ \A e \in Members(todo) : Authored(e)
  BY DEF FullInv, SoundInv, JobSound
<1>3. ParentsReady(Tail(todo), rest.ids, rows')
  BY <1>1, <1>2, ParentsTail
<1>4. \A x \in Members(Tail(todo)) : x \in Members(todo)
  <2>1. \A j \in DOMAIN Tail(todo) : j + 1 \in DOMAIN todo /\ Tail(todo)[j] = todo[j + 1]
    BY <1>1, TailFacts
  <2> HIDE DEF todo
  <2> QED BY <2>1 DEF Members
<1>5. NoneOf("relations", todo) => NoneOf("relations", Tail(todo))
  <2>1. \A j \in DOMAIN Tail(todo) : j + 1 \in DOMAIN todo /\ Tail(todo)[j] = todo[j + 1]
    BY <1>1, TailFacts
  <2> HIDE DEF todo
  <2> QED BY <2>1 DEF NoneOf
<1>6. JobSound(next, rows')
  <2>1. CASE Tail(rest.todo) = <<>>
    BY <2>1, NoJobSound
  <2>2. CASE Tail(rest.todo) # <<>>
    <3> DEFINE j == [rest EXCEPT !.todo = Tail(@)]
    <3>1. j.todo = Tail(todo) /\ j.ids = rest.ids /\ j.cur = rest.cur
      BY DEF JobFields
    <3> HIDE DEF j, todo
    <3>2. JobSound(j, rows')
      BY <1>2, <1>3, <1>4, <1>5, <3>1 DEF JobSound, todo
    <3> QED BY <2>2, <3>2 DEF j
  <2> QED BY <2>1, <2>2
<1>7. job' = [job EXCEPT ![o] = next]
  BY DEF Next1
<1> HIDE DEF next
<1> QED BY <1>6, <1>7, JobsSound

LEMMA AdvanceSound ==
    ASSUME FullInv, NEW o \in Operators, job[o].kind # "idle", Advance(o),
           Head1(o).op # "insert", RowsGrow(rows, rows')
    PROVE  \A p \in Operators : JobSound(job'[p], rows')
<1>1. DOMAIN job[o] = JobFields
  BY DEF FullInv, ImportInv, JobReady
<1>2. JobSound(job[o], rows')
  BY SoundGrows DEF FullInv, SoundInv
<1>3. \A n \in Nodes : ~ InsertsNode(Head1(o), n)
  BY DEF InsertsNode
<1> QED BY <1>1, <1>2, <1>3, NextSound DEF Advance, JobSound

\* Steps that insert no row keep the versions there are.
LEMMA SameVersions ==
    ASSUME RowsListed, NEW o,
           UNCHANGED rows \/ Update(o) \/ Publish(o) \/ Move(o)
    PROVE  \A n \in Nodes : DOMAIN rows'[n] = DOMAIN rows[n]
<1>1. CASE UNCHANGED rows
  BY <1>1
<1>2. CASE Update(o) /\ ~ UNCHANGED rows
  <2>1. PICK m, w : rows' = [rows EXCEPT ![m][w] = Revised(rows[m][w], m)]
    BY <1>2 DEF Update, Attempt, curriculum
  <2> QED BY <2>1 DEF RowsListed
<1>3. CASE Publish(o)
  BY <1>3 DEF Publish
<1>4. CASE Move(o)
  <2>1. PICK w, to : rows' = [rows EXCEPT ![Path][w].state = to]
    BY <1>4 DEF Move
  <2>2. \A n \in Nodes : rows'[n] = IF n = Path THEN [rows[n] EXCEPT ![w].state = to] ELSE rows[n]
    BY <2>1 DEF RowsListed
  <2> QED BY <2>2
<1> QED BY <1>1, <1>2, <1>3, <1>4

\* No row is ever deleted, and none changes its parent.
LEMMA Grown ==
    ASSUME RowsListed, [Next]_vars
    PROVE  RowsGrow(rows, rows')
BY RowsKept DEF RowsGrow

LEMMA ParentsStay ==
    ASSUME RowsListed, [Next]_vars, NEW n \in Nodes, NEW v \in DOMAIN rows[n],
           RowUnder(rows[n][v], n, rows)
    PROVE  RowUnder(rows'[n][v], n, rows')
<1>1. rows'[n][v].parent = rows[n][v].parent
  BY RowsKept
<1>2. \A m \in Nodes : DOMAIN rows[m] \subseteq DOMAIN rows'[m]
  BY RowsKept
<1> QED BY <1>1, <1>2 DEF RowUnder

\* What a step that inserts nothing leaves of the rows.
LEMMA RowsStayUnder ==
    ASSUME FullInv, [Next]_vars, \A n \in Nodes : DOMAIN rows'[n] = DOMAIN rows[n]
    PROVE  \A n \in Nodes : \A v \in DOMAIN rows'[n] : RowUnder(rows'[n][v], n, rows')
BY ParentsStay DEF FullInv, SoundInv, StoredIsAuthored

LEMMA HeadAuthored ==
    ASSUME FullInv, NEW o \in Operators, job[o].kind # "idle"
    PROVE  Authored(Head1(o))
<1>1. IsList(job[o].todo) /\ job[o].todo # <<>> /\ Head1(o) = job[o].todo[1]
  BY DEF FullInv, ImportInv, JobReady, Ready, Head1
<1>2. 1 \in DOMAIN job[o].todo
  BY <1>1, ListFacts DEF IsList
<1> QED BY <1>1, <1>2 DEF FullInv, SoundInv, JobSound, Members

\* A step of any action but Insert that leaves the other tables alone.
LEMMA AuthoredStays ==
    ASSUME FullInv, [Next]_vars, \A n \in Nodes : DOMAIN rows'[n] = DOMAIN rows[n],
           UNCHANGED <<pieces, links, edges, rules>>
    PROVE  StoredIsAuthored'
BY RowsStayUnder DEF FullInv, SoundInv, StoredIsAuthored

\* Every action keeps SoundInv.
LEMMA SoundStep ==
    ASSUME FullInv, [Next]_vars
    PROVE  SoundInv'
<1> USE DEF curriculum
<1>1. RowsGrow(rows, rows')
  BY Grown DEF FullInv
<1>2. ASSUME NEW o \in Operators
      PROVE  /\ DOMAIN job[o] = JobFields /\ DOMAIN job = Operators
             /\ JobSound(job[o], rows) /\ JobSound(job[o], rows')
  BY <1>1, SoundGrows DEF FullInv, ImportInv, SoundInv, JobReady
<1>3. CASE UNCHANGED vars
  <2>1. UNCHANGED <<rows, pieces, links, edges, rules, job>>
    BY <1>3 DEF vars
  <2> QED BY <2>1 DEF FullInv, SoundInv, StoredIsAuthored
<1>4. ASSUME UNCHANGED curriculum
      PROVE  StoredIsAuthored'
  BY <1>4 DEF FullInv, SoundInv, StoredIsAuthored
<1>5. ASSUME NEW o \in Operators, NEW publish \in BOOLEAN, Import(o, publish)
      PROVE  SoundInv'
  <2> DEFINE A == Chain([i \in DOMAIN Document.nodes |-> NodeQueries(Document.nodes[i])])
             B == <<[op |-> "children"], [op |-> "relations"]>>
             todo == A \o B
             j == [NoJob("none") EXCEPT !.kind = "import", !.publish = publish, !.cur = Blank,
                       !.todo = todo]
  <2>1. \A e \in Members(todo) : Authored(e) /\ e.op # "insert"
    <3> DEFINE lists == [i \in DOMAIN Document.nodes |-> NodeQueries(Document.nodes[i])]
    <3>1. Len(Document.nodes) \in Nat /\ DOMAIN Document.nodes = 1..Len(Document.nodes)
      BY ListFacts, CurriculumImportAssumption DEF InLists
    <3>2. IsList(lists)
      BY <3>1 DEF IsList, Members
    <3>3. \A i \in DOMAIN lists : /\ IsList(lists[i])
                                  /\ \A e \in Members(lists[i]) : PlainTrip(e)
      BY ShortLists, ShortMembers DEF NodeQueries, Item, PlainTrip
    <3> HIDE DEF lists
    <3>4. IsList(Chain(lists)) /\ \A e \in Members(Chain(lists)) : PlainTrip(e)
      BY <3>2, <3>3, ChainInTurn, MembersChained
    <3>5. IsList(B) /\ \A e \in Members(B) : Authored(e) /\ e.op # "insert"
      BY ShortLists, ShortMembers DEF Authored
    <3> HIDE DEF B
    <3>6. Members(Chain(lists) \o B) \subseteq Members(Chain(lists)) \cup Members(B)
      BY <3>4, <3>5, MembersJoined
    <3> QED BY <3>4, <3>5, <3>6, PlainIsAuthored DEF lists
  <2>2. job' = [job EXCEPT ![o] = j] /\ UNCHANGED curriculum
    BY <1>5 DEF Import
  <2> HIDE DEF todo
  <2>3. j.todo = todo /\ j.ids = NoIds /\ j.cur = Blank
    BY DEF NoJob
  <2> HIDE DEF j
  <2>4. FoundRows(Blank, rows')
    BY DEF FoundRows, Blank, NoRow
  <2>5. ParentsReady(todo, NoIds, rows')
    <3>1. NoneOf("insert", todo)
      BY <2>1 DEF NoneOf, Members
    <3> QED BY <3>1, NoInsertReady
  <2>6. JobSound(j, rows')
    BY <2>1, <2>3, <2>4, <2>5 DEF JobSound, NoIds
  <2> QED BY <1>1, <1>4, <2>2, <2>6, JobsSound DEF SoundInv
<1>6. ASSUME NEW o \in Operators, NEW version, NEW to, Transition(o, version, to)
      PROVE  SoundInv'
  <2> DEFINE j == [NoJob("none") EXCEPT !.kind = "transition", !.todo = Moves(to),
                                        !.ids[Path] = version]
  <2>1. job' = [job EXCEPT ![o] = j] /\ UNCHANGED curriculum
    BY <1>6 DEF Transition
  <2>2. DOMAIN j.ids = Nodes /\ j.todo = Moves(to)
    BY DEF NoJob, NoIds
  <2> HIDE DEF j
  <2>3. \A e \in Members(Moves(to)) : Authored(e) /\ e.op # "relations" /\ e.op # "insert"
    BY MovesPlain, PlainIsAuthored
  <2>4. NoneOf("insert", Moves(to)) /\ NoneOf("relations", Moves(to))
    BY <2>3 DEF NoneOf, Members
  <2>5. JobSound(j, rows')
    BY <2>2, <2>3, <2>4, NoInsertReady DEF JobSound
  <2> QED BY <1>1, <1>4, <2>1, <2>5, JobsSound DEF SoundInv
<1>7. ASSUME NEW o \in Operators, job[o].kind # "idle", NEW rest,
             DOMAIN rest = DOMAIN job[o], rest.todo = job[o].todo, rest.ids = job[o].ids,
             NoneOf("relations", job[o].todo) \/ FoundRows(rest.cur, rows'),
             Next1(o, rest), Head1(o).op # "insert", UNCHANGED curriculum
      PROVE  SoundInv'
  <2>1. DOMAIN rest = JobFields /\ DOMAIN rest.ids = Nodes
    BY <1>2, <1>7 DEF JobSound
  <2>2. \A n \in Nodes : rest.ids[n] = job[o].ids[n] /\ ~ InsertsNode(Head1(o), n)
    BY <1>7 DEF InsertsNode
  <2> QED BY <1>1, <1>4, <1>7, <2>1, <2>2, NextSound DEF SoundInv
<1>8. ASSUME NEW o \in Operators, Find(o)
      PROVE  SoundInv'
  <2> DEFINE n == Head1(o).node
             rest == [job[o] EXCEPT !.cur.found[n] = NewestOf(n)]
  <2>1. DOMAIN rest = DOMAIN job[o] /\ rest.todo = job[o].todo /\ rest.ids = job[o].ids
    BY <1>2 DEF JobFields
  <2>2. rest.cur = [job[o].cur EXCEPT !.found[n] = NewestOf(n)]
    BY <1>2 DEF JobFields
  <2>3. /\ Next1(o, rest) /\ job[o].kind # "idle" /\ Head1(o).op # "insert"
        /\ UNCHANGED curriculum
    BY <1>8 DEF Find, AtOp, KeepStored
  <2> HIDE DEF rest
  <2>4. FoundRows(job[o].cur, rows') => FoundRows(rest.cur, rows')
    <3>1. ASSUME NEW m \in Nodes
          PROVE  NewestOf(m).version = 0 \/ HasRow(rows', m, NewestOf(m).version)
      <4>1. Listed(rows[m]) /\ rows' = rows
        BY <2>3 DEF FullInv, RowsListed
      <4>2. CASE rows[m] = <<>>
        BY <4>2 DEF NewestOf, NoRow
      <4>3. CASE rows[m] # <<>>
        <5>1. Len(rows[m]) \in Nat /\ DOMAIN rows[m] = 1..Len(rows[m]) /\ Len(rows[m]) > 0
          BY <4>1, <4>3 DEF Listed
        <5> QED BY <4>1, <4>3, <5>1 DEF NewestOf, HasRow
      <4> QED BY <4>2, <4>3
    <3>2. ASSUME FoundRows(job[o].cur, rows')
          PROVE  FoundRows(rest.cur, rows')
      <4> DEFINE cur == job[o].cur
      <4> HIDE DEF n, cur
      <4>1. rest.cur = [cur EXCEPT !.found[n] = NewestOf(n)] /\ FoundRows(cur, rows')
        BY <2>2, <3>2 DEF cur
      <4>2. "found" \in DOMAIN rest.cur /\ DOMAIN rest.cur.found = Nodes
        BY <4>1 DEF FoundRows
      <4>3. \A m \in Nodes : rest.cur.found[m] = IF m = n THEN NewestOf(m) ELSE cur.found[m]
        BY <4>1 DEF FoundRows
      <4> QED BY <3>1, <4>1, <4>2, <4>3 DEF FoundRows
    <3> QED BY <3>2
  <2>5. NoneOf("relations", job[o].todo) \/ FoundRows(rest.cur, rows')
    BY <1>2, <2>4 DEF JobSound
  <2> QED BY <1>7, <2>1, <2>3, <2>5
<1>9. ASSUME NEW o \in Operators, Content(o)
      PROVE  SoundInv'
  <2> DEFINE n == Head1(o).node
             rest == [job[o] EXCEPT !.cur.pieces = @ \cup StoredContent(n, job[o].cur.found[n])]
  <2>1. /\ DOMAIN rest = DOMAIN job[o] /\ rest.todo = job[o].todo /\ rest.ids = job[o].ids
        /\ \E set : rest.cur = [job[o].cur EXCEPT !.pieces = set]
    BY <1>2 DEF JobFields
  <2>2. /\ Next1(o, rest) /\ job[o].kind # "idle" /\ Head1(o).op # "insert"
        /\ UNCHANGED curriculum
    BY <1>9 DEF Content, AtOp, KeepStored
  <2> HIDE DEF rest
  <2>3. FoundRows(job[o].cur, rows') => FoundRows(rest.cur, rows')
    BY <2>1 DEF FoundRows
  <2>4. NoneOf("relations", job[o].todo) \/ FoundRows(rest.cur, rows')
    BY <1>2, <2>3 DEF JobSound
  <2> QED BY <1>7, <2>1, <2>2, <2>4
<1>10. ASSUME NEW o \in Operators, Children(o)
       PROVE  SoundInv'
  <2> DEFINE rest == [job[o] EXCEPT !.cur.children = StoredChildren(job[o].cur.found)]
  <2>1. /\ DOMAIN rest = DOMAIN job[o] /\ rest.todo = job[o].todo /\ rest.ids = job[o].ids
        /\ \E set : rest.cur = [job[o].cur EXCEPT !.children = set]
    BY <1>2 DEF JobFields
  <2>2. /\ Next1(o, rest) /\ job[o].kind # "idle" /\ Head1(o).op # "insert"
        /\ UNCHANGED curriculum
    BY <1>10 DEF Children, AtOp, KeepStored
  <2> HIDE DEF rest
  <2>3. FoundRows(job[o].cur, rows') => FoundRows(rest.cur, rows')
    BY <2>1 DEF FoundRows
  <2>4. NoneOf("relations", job[o].todo) \/ FoundRows(rest.cur, rows')
    BY <1>2, <2>3 DEF JobSound
  <2> QED BY <1>7, <2>1, <2>2, <2>4
<1>11. ASSUME NEW o \in Operators, Number(o)
       PROVE  SoundInv'
  <2> DEFINE rest == [job[o] EXCEPT !.number = Len(rows[Head1(o).node]) + 1]
  <2>1. /\ DOMAIN rest = DOMAIN job[o] /\ rest.todo = job[o].todo /\ rest.ids = job[o].ids
        /\ rest.cur = job[o].cur
    BY <1>2 DEF JobFields
  <2>2. /\ Next1(o, rest) /\ job[o].kind # "idle" /\ Head1(o).op # "insert"
        /\ UNCHANGED curriculum
    BY <1>11 DEF Number, AtOp, KeepStored
  <2> HIDE DEF rest
  <2>3. NoneOf("relations", job[o].todo) \/ FoundRows(rest.cur, rows')
    BY <1>2, <2>1 DEF JobSound
  <2> QED BY <1>7, <2>1, <2>2, <2>3
<1>12. ASSUME NEW o \in Operators, Relations(o)
       PROVE  SoundInv'
  <2>1. UNCHANGED curriculum
    BY <1>12 DEF Relations, KeepStored
  <2>2. CASE \E status : End(o, status)
    BY <1>1, <1>4, <2>1, <2>2, EndSound DEF SoundInv
  <2>3. CASE \E l, e, r :
               LET cur == [job[o].cur EXCEPT !.links = l, !.edges = e, !.rules = r]
               IN  /\ PlanIsSafeToExecute(Document, cur)
                   /\ job' = [job EXCEPT ![o] =
                        [@ EXCEPT !.cur = Forgotten,
                                  !.ids = [n \in Nodes |-> job[o].cur.found[n].version],
                                  !.todo = Writes(cur) \o <<[op |-> "validate"]>>
                                           \o (IF job[o].publish
                                               THEN Moves("review") \o Moves("published")
                                               ELSE <<>>)]]
    <3>1. PICK l, e, r :
               LET cur == [job[o].cur EXCEPT !.links = l, !.edges = e, !.rules = r]
               IN  /\ PlanIsSafeToExecute(Document, cur)
                   /\ job' = [job EXCEPT ![o] =
                        [@ EXCEPT !.cur = Forgotten,
                                  !.ids = [n \in Nodes |-> job[o].cur.found[n].version],
                                  !.todo = Writes(cur) \o <<[op |-> "validate"]>>
                                           \o (IF job[o].publish
                                               THEN Moves("review") \o Moves("published")
                                               ELSE <<>>)]]
      BY <2>3
    <3> DEFINE cur == [job[o].cur EXCEPT !.links = l, !.edges = e, !.rules = r]
               V == <<[op |-> "validate"]>>
               M == IF job[o].publish THEN Moves("review") \o Moves("published") ELSE <<>>
               todo == Writes(cur) \o V \o M
               ids == [n \in Nodes |-> job[o].cur.found[n].version]
               j == [job[o] EXCEPT !.cur = Forgotten, !.ids = ids, !.todo = todo]
    <3>2. FoundRows(job[o].cur, rows')
      <4>1. IsList(job[o].todo) /\ job[o].todo # <<>> /\ job[o].todo[1].op = "relations"
        BY <1>12 DEF Relations, AtOp, FullInv, ImportInv, JobReady, Ready, Head1
      <4>2. 1 \in DOMAIN job[o].todo
        BY <4>1, ListFacts DEF IsList
      <4> QED BY <1>2, <4>1, <4>2 DEF JobSound, NoneOf
    <3>3. FoundRows(cur, rows') /\ cur.found = job[o].cur.found
      BY <3>2 DEF FoundRows
    <3>4. PlanIsSafeToExecute(Document, cur) /\ job' = [job EXCEPT ![o] = j]
      BY <3>1
    <3> HIDE DEF cur, j
    <3>5. IsList(V) /\ NoneOf("insert", V) /\ \A x \in Members(V) : PlainTrip(x)
      BY ShortLists, ShortMembers DEF PlainTrip
    <3>6. IsList(M) /\ NoneOf("insert", M) /\ \A x \in Members(M) : PlainTrip(x)
      <4>1. CASE job[o].publish
        <5>1. M = Moves("review") \o Moves("published")
          BY <4>1
        <5>2. \A to : IsList(Moves(to)) /\ NoneOf("insert", Moves(to)) /\ AssetsFirst(Moves(to))
          BY MovesOrdered DEF AssetsFirst
        <5>3. Members(M) \subseteq Members(Moves("review")) \cup Members(Moves("published"))
          BY <5>1, <5>2, MembersJoined
        <5>4. IsList(M) /\ NoneOf("insert", M)
          BY <5>1, <5>2, OrderedJoin, Concatenated
        <5> QED BY <5>3, <5>4, MovesPlain
      <4>2. CASE ~ job[o].publish
        BY <4>2, ShortLists, ShortMembers
      <4> QED BY <4>1, <4>2
    <3> HIDE DEF V, M
    <3>7. ParentsReady(todo, ids, rows') /\ IsList(Writes(cur)) /\ IsList(Writes(cur) \o V)
      <4>1. IsList(Writes(cur))
        BY WritesOrdered DEF AssetsFirst
      <4>2. IsList(Writes(cur) \o V)
        BY <3>5, <4>1, Concatenated
      <4>3. ParentsReady(Writes(cur) \o V, [n \in Nodes |-> cur.found[n].version], rows')
        BY <3>3, <3>4, <3>5, PlanParents
      <4>4. ParentsReady(Writes(cur) \o V, ids, rows')
        BY <3>3, <4>3
      <4> HIDE DEF ids
      <4> QED BY <3>6, <4>1, <4>2, <4>4, ParentsJoin
    <3>8. \A x \in Members(todo) : Authored(x) /\ x.op # "relations"
      <4>1. Members(todo) \subseteq Members(Writes(cur) \o V) \cup Members(M)
        BY <3>6, <3>7, MembersJoined
      <4>2. Members(Writes(cur) \o V) \subseteq Members(Writes(cur)) \cup Members(V)
        BY <3>5, <3>7, MembersJoined
      <4> QED BY <3>5, <3>6, <4>1, <4>2, WritesAuthored, PlainIsAuthored
    <3>9. NoneOf("relations", todo)
      <4> HIDE DEF todo
      <4> QED BY <3>8 DEF NoneOf, Members
    <3>10. DOMAIN ids = Nodes
      OBVIOUS
    <3> HIDE DEF todo, ids
    <3>11. j.todo = todo /\ j.ids = ids
      BY <1>2 DEF j, JobFields
    <3>12. JobSound(j, rows')
      BY <3>7, <3>8, <3>9, <3>10, <3>11 DEF JobSound
    <3> QED BY <1>1, <1>4, <2>1, <3>4, <3>12, JobsSound DEF SoundInv
  <2> QED BY <1>12, <2>2, <2>3 DEF Relations
<1>13. ASSUME NEW o \in Operators, Insert(o)
       PROVE  SoundInv'
  <2> DEFINE n == Head1(o).node
             new == [parent |-> ParentOf(o, n), text |-> Document.text[n],
                     place |-> Document.place[n], state |-> "draft"]
             rest == [job[o] EXCEPT !.ids[n] = job[o].number]
  <2>1. /\ job[o].kind # "idle" /\ Head1(o).op = "insert"
        /\ UNCHANGED <<pieces, links, edges, rules>>
    BY <1>13 DEF Insert, AtOp
  <2>2. n \in Nodes
    BY <2>1, HeadAuthored DEF Authored
  <2>3. CASE UNCHANGED rows /\ End(o, "failed")
    BY <1>1, <1>4, <2>1, <2>3, EndSound DEF SoundInv
  <2>4. CASE /\ job[o].number = Len(rows[n]) + 1
             /\ rows' = [rows EXCEPT ![n] = Append(@, new)] /\ Next1(o, rest)
    <3>1. rows'[n] = Append(rows[n], new) /\ \A m \in Nodes : m # n => rows'[m] = rows[m]
      BY <2>2, <2>4 DEF FullInv, RowsListed
    <3>2. /\ Len(rows[n]) \in Nat /\ DOMAIN rows[n] = 1..Len(rows[n])
          /\ DOMAIN rows'[n] = 1..(Len(rows[n]) + 1)
          /\ rows'[n][Len(rows[n]) + 1] = new
      <4>1. rows[n] \in Seq(Members(rows[n]) \cup {new})
        BY <2>2 DEF FullInv, RowsListed, Listed
      <4> DEFINE S == Members(rows[n]) \cup {new}
      <4>2. rows[n] \in Seq(S) /\ new \in S
        BY <4>1
      <4> HIDE DEF S, new, n
      <4> QED BY <3>1, <4>2
    <3>3. HasRow(rows', n, job[o].number)
      BY <2>4, <3>2 DEF HasRow
    <3> HIDE DEF new
    <3>4. \A p \in Operators : JobSound(job'[p], rows')
      <4>1. DOMAIN rest = JobFields /\ rest.todo = job[o].todo /\ rest.cur = job[o].cur
        BY <1>2 DEF JobFields
      <4>2. DOMAIN rest.ids = Nodes /\ rest.ids[n] = job[o].number
            /\ \A m \in Nodes : m # n => rest.ids[m] = job[o].ids[m]
        BY <1>2, <2>2 DEF JobSound, JobFields
      <4> HIDE DEF rest
      <4>3. \A m \in Nodes : \/ rest.ids[m] = job[o].ids[m] /\ ~ InsertsNode(Head1(o), m)
                             \/ HasRow(rows', m, rest.ids[m])
        BY <3>3, <4>2 DEF InsertsNode
      <4>4. NoneOf("relations", job[o].todo) \/ FoundRows(rest.cur, rows')
        BY <1>2, <4>1 DEF JobSound
      <4> QED BY <1>1, <2>1, <2>4, <4>1, <4>2, <4>3, <4>4, NextSound
    <3>5. RowUnder(new, n, rows)
      <4> DEFINE above == Document.parent[n]
                 todo == job[o].todo
      <4>1. IsList(todo) /\ todo # <<>> /\ Head1(o) = todo[1]
        BY <2>1 DEF FullInv, ImportInv, JobReady, Ready, Head1
      <4>2. 1 \in DOMAIN todo
        BY <4>1, ListFacts DEF IsList
      <4>3. \A k \in 1..(1 - 1) : FALSE
        OBVIOUS
      <4>4. above = NoNode \/ HasRow(rows, above, job[o].ids[above])
        BY <1>2, <2>1, <4>1, <4>2, <4>3 DEF JobSound, ParentsReady
      <4>5. new.parent = IF above = NoNode THEN NoId ELSE <<above, job[o].ids[above]>>
        BY DEF new, ParentOf, IdOf
      <4>6. above = NoNode \/ above \in Nodes
        BY <2>2, ParentsKnown
      <4> QED BY <4>4, <4>5, <4>6 DEF RowUnder, HasRow
    <3>6. RowUnder(new, n, rows')
      BY <1>1, <3>5 DEF RowUnder, RowsGrow
    <3>7. ASSUME NEW m \in Nodes, NEW v \in DOMAIN rows'[m]
          PROVE  RowUnder(rows'[m][v], m, rows')
      <4>1. CASE v \in DOMAIN rows[m]
        BY <4>1, ParentsStay DEF FullInv, SoundInv, StoredIsAuthored
      <4>2. CASE v \notin DOMAIN rows[m]
        <5>1. m = n
          BY <3>1, <4>2, <3>7
        <5>2. v = Len(rows[n]) + 1
          BY <3>2, <3>7, <4>2, <5>1
        <5> QED BY <3>2, <3>6, <5>1, <5>2
      <4> QED BY <4>1, <4>2
    <3>8. StoredIsAuthored'
      BY <2>1, <3>7 DEF FullInv, SoundInv, StoredIsAuthored
    <3> QED BY <3>4, <3>8 DEF SoundInv
  <2> QED BY <1>13, <2>3, <2>4 DEF Insert
<1>14. ASSUME NEW o \in Operators,
              Update(o) \/ CheckDraft(o) \/ Validate(o) \/ From(o)
              \/ Publish(o) \/ Move(o) \/ Event(o)
       PROVE  SoundInv'
  <2>1. job[o].kind # "idle" /\ Head1(o).op # "insert"
    BY <1>14 DEF Update, CheckDraft, Validate, From, Publish, Move, Event, AtOp
  <2>2. Advance(o) \/ End(o, "failed")
    BY <1>14 DEF Update, CheckDraft, Validate, From, Publish, Move, Event, Attempt
  <2>3. UNCHANGED <<pieces, links, edges, rules>>
    BY <1>14 DEF Update, CheckDraft, Validate, From, Publish, Move, Event, Attempt, KeepStored
  <2>4. UNCHANGED rows \/ Update(o) \/ Publish(o) \/ Move(o)
    BY <1>14 DEF CheckDraft, Validate, From, Event, Attempt, KeepStored
  <2>5. StoredIsAuthored'
    BY <2>3, <2>4, SameVersions, AuthoredStays DEF FullInv
  <2>6. \A p \in Operators : JobSound(job'[p], rows')
    BY <1>1, <2>1, <2>2, AdvanceSound, EndSound
  <2> QED BY <2>5, <2>6 DEF SoundInv
<1>15. ASSUME NEW o \in Operators, Edge(o) \/ Link(o) \/ Piece(o) \/ Rule(o)
       PROVE  SoundInv'
  <2>1. job[o].kind # "idle" /\ Head1(o).op # "insert" /\ UNCHANGED rows
    BY <1>15 DEF Edge, Link, Piece, Rule, Attempt, AtOp
  <2>2. Advance(o) \/ End(o, "failed")
    BY <1>15 DEF Edge, Link, Piece, Rule, Attempt
  <2>3. \A p \in Operators : JobSound(job'[p], rows')
    BY <1>1, <2>1, <2>2, AdvanceSound, EndSound
  <2>4. \A n \in Nodes : \A v \in DOMAIN rows'[n] : RowUnder(rows'[n][v], n, rows')
    BY <2>1 DEF FullInv, SoundInv, StoredIsAuthored
  <2>5. Authored(Head1(o))
    BY <2>1, HeadAuthored
  <2>6. \A x \in Members(Document.links) \cup Members(Document.edges) : <<x[1], x[2]>> = x
    BY CurriculumImportAssumption DEF InLists
  <2>7. \A p \in pieces' : \E q \in Members(Document.pieces) :
            q.mission = p.mission[1] /\ q.piece = p.piece
    <3>1. CASE UNCHANGED pieces
      BY <3>1 DEF FullInv, SoundInv, StoredIsAuthored
    <3>2. CASE Piece(o)
      <4> DEFINE p == Head1(o).piece
                 new == [mission |-> IdOf(o, p.mission), piece |-> p.piece, text |-> p.text]
      <4>1. pieces' \subseteq pieces \cup {new} /\ Head1(o).op = "piece"
        BY <3>2 DEF Piece, AtOp
      <4>2. p \in Members(Document.pieces)
        BY <2>5, <4>1 DEF Authored
      <4>3. new.mission[1] = p.mission /\ new.piece = p.piece
        BY DEF IdOf
      <4> HIDE DEF new, p
      <4> QED BY <4>1, <4>2, <4>3 DEF FullInv, SoundInv, StoredIsAuthored
    <3> QED BY <1>15, <3>1, <3>2 DEF Edge, Link, Rule, Attempt
  <2>8. \A l \in links' : <<l[1][1], l[2][1]>> \in Members(Document.links)
    <3>1. CASE UNCHANGED links
      BY <3>1 DEF FullInv, SoundInv, StoredIsAuthored
    <3>2. CASE Link(o)
      <4> DEFINE l == Head1(o).link
                 new == <<IdOf(o, l[1]), IdOf(o, l[2])>>
      <4>1. links' = links \cup {new} /\ Head1(o).op = "link"
        BY <3>2 DEF Link, AtOp
      <4>2. l \in Members(Document.links)
        BY <2>5, <4>1 DEF Authored
      <4>3. <<new[1][1], new[2][1]>> = l
        BY <2>6, <4>2 DEF IdOf
      <4> HIDE DEF new, l
      <4> QED BY <4>1, <4>2, <4>3 DEF FullInv, SoundInv, StoredIsAuthored
    <3> QED BY <1>15, <3>1, <3>2 DEF Edge, Piece, Rule, Attempt
  <2>9. \A e \in edges' : <<e[1][1], e[2][1]>> \in Members(Document.edges)
    <3>1. CASE UNCHANGED edges
      BY <3>1 DEF FullInv, SoundInv, StoredIsAuthored
    <3>2. CASE Edge(o) /\ ~ UNCHANGED edges
      <4> DEFINE l == Head1(o).edge
                 new == <<IdOf(o, l[1]), IdOf(o, l[2])>>
      <4>1. edges' = edges \cup {new} /\ Head1(o).op = "edge"
        BY <3>2 DEF Edge, AtOp, Attempt
      <4>2. l \in Members(Document.edges)
        BY <2>5, <4>1 DEF Authored
      <4>3. <<new[1][1], new[2][1]>> = l
        BY <2>6, <4>2 DEF IdOf
      <4> HIDE DEF new, l
      <4> QED BY <4>1, <4>2, <4>3 DEF FullInv, SoundInv, StoredIsAuthored
    <3> QED BY <1>15, <3>1, <3>2 DEF Link, Piece, Rule
  <2>10. \A s \in rules' : \E r \in Members(Document.rules) : SameKey(r, s)
    <3>1. CASE UNCHANGED rules
      BY <3>1 DEF FullInv, SoundInv, StoredIsAuthored
    <3>2. CASE Rule(o)
      <4>1. rules' \subseteq rules \cup {Head1(o).rule} /\ Head1(o).op = "rule"
        BY <3>2 DEF Rule, AtOp
      <4>2. Head1(o).rule \in Members(Document.rules) /\ SameKey(Head1(o).rule, Head1(o).rule)
        BY <2>5, <4>1 DEF Authored, SameKey
      <4> QED BY <4>1, <4>2 DEF FullInv, SoundInv, StoredIsAuthored
    <3> QED BY <1>15, <3>1, <3>2 DEF Edge, Link, Piece, Attempt
  <2> QED BY <2>3, <2>4, <2>7, <2>8, <2>9, <2>10 DEF SoundInv, StoredIsAuthored
<1>16. ASSUME NEW o \in Operators, Stop(o)
       PROVE  SoundInv'
  <2>1. End(o, "stopped") /\ UNCHANGED curriculum
    BY <1>16 DEF Stop, KeepStored
  <2> QED BY <1>1, <1>4, <2>1, EndSound DEF SoundInv
<1> QED
  BY <1>3, <1>5, <1>6, <1>8, <1>9, <1>10, <1>11, <1>12, <1>13, <1>14, <1>15, <1>16 DEF Next

LEMMA OneRow ==
    /\ DOMAIN <<>> = {}
    /\ \A row : DOMAIN <<row>> = {1} /\ <<row>>[1] = row
OBVIOUS

LEMMA FullStep == FullInv /\ [Next]_vars => FullInv'
BY ImportStep, RowsKept, SoundStep DEF FullInv

LEMMA FullInit ==
    ASSUME OnlyAdds, Init
    PROVE  FullInv
<1>1. \A o \in Operators : JobSound(job[o], rows)
  BY NoJobSound DEF Init
<1>2. ASSUME Empty
      PROVE  StoredIsAuthored
  <2>1. \A n \in Nodes : DOMAIN rows[n] = {}
    BY <1>2, OneRow DEF Empty
  <2>2. \A x : x \notin pieces /\ x \notin links /\ x \notin edges /\ x \notin rules
    BY <1>2 DEF Empty
  <2> QED BY <2>1, <2>2 DEF StoredIsAuthored
<1>3. ASSUME NEW state, Holds(Earlier, state)
      PROVE  StoredIsAuthored
  <2>1. \A n \in Nodes : rows[n] = IF n \in NodesOf(Earlier) THEN <<FirstRow(Earlier, n, state)>> ELSE <<>>
    BY <1>3 DEF Holds
  <2>2. ASSUME NEW n \in Nodes, NEW v \in DOMAIN rows[n]
        PROVE  RowUnder(rows[n][v], n, rows)
    <3>1. n \in NodesOf(Earlier) /\ rows[n][v] = FirstRow(Earlier, n, state)
      <4>1. n \in NodesOf(Earlier)
        BY <2>1, <2>2, OneRow
      <4>2. rows[n] = <<FirstRow(Earlier, n, state)>>
        BY <2>1, <4>1
      <4> QED BY <2>2, <4>1, <4>2, OneRow
    <3>2. Earlier.parent[n] = Document.parent[n]
      BY <3>1 DEF OnlyAdds
    <3>3. CASE Document.parent[n] = NoNode
      BY <3>1, <3>2, <3>3 DEF RowUnder, FirstRow
    <3>4. CASE Document.parent[n] # NoNode
      <4> DEFINE above == Document.parent[n]
      <4>1. above \in NodesOf(Earlier)
        <5>1. PICK i \in DOMAIN Earlier.nodes : Earlier.nodes[i] = n
          BY <3>1 DEF NodesOf
        <5>2. PICK k \in 1..(i - 1) : Earlier.nodes[k] = above
          BY <3>2, <3>4, <5>1, CurriculumImportAssumption DEF InLists
        <5>3. k \in DOMAIN Earlier.nodes
          BY <5>1, <5>2, ListFacts, CurriculumImportAssumption DEF InLists
        <5> QED BY <5>2, <5>3 DEF NodesOf
      <4>2. above \in Nodes
        BY <4>1, CurriculumImportAssumption DEF Nodes
      <4>3. 1 \in DOMAIN rows[above]
        BY <2>1, <4>1, <4>2, OneRow
      <4>4. rows[n][v].parent = <<above, 1>>
        BY <3>1, <3>2, <3>4 DEF FirstRow
      <4> QED BY <4>2, <4>3, <4>4 DEF RowUnder
    <3> QED BY <3>3, <3>4
  <2>3. \A p \in pieces : \E q \in Members(Document.pieces) :
            q.mission = p.mission[1] /\ q.piece = p.piece
    <3>1. ASSUME NEW r \in Members(Earlier.pieces),
                 NEW p, p = [mission |-> <<r.mission, 1>>, piece |-> r.piece, text |-> r.text]
          PROVE  \E q \in Members(Document.pieces) : q.mission = p.mission[1] /\ q.piece = p.piece
      BY <3>1 DEF OnlyAdds
    <3> QED BY <1>3, <3>1 DEF Holds
  <2>4. \A l \in links : <<l[1][1], l[2][1]>> \in Members(Document.links)
    <3>1. \A m \in Members(Earlier.links) : <<m[1], m[2]>> = m
      BY CurriculumImportAssumption DEF InLists
    <3> QED BY <1>3, <3>1 DEF Holds, OnlyAdds
  <2>5. \A e \in edges : <<e[1][1], e[2][1]>> \in Members(Document.edges)
    <3>1. \A m \in Members(Earlier.edges) : <<m[1], m[2]>> = m
      BY CurriculumImportAssumption DEF InLists
    <3> QED BY <1>3, <3>1 DEF Holds, OnlyAdds
  <2>6. \A s \in rules : \E r \in Members(Document.rules) : SameKey(r, s)
    BY <1>3 DEF Holds, OnlyAdds
  <2> QED BY <2>2, <2>3, <2>4, <2>5, <2>6 DEF StoredIsAuthored
<1>4. Empty \/ Holds(Earlier, "draft") \/ Holds(Earlier, "published")
  BY DEF Init
<1>5. StoredIsAuthored
  BY <1>2, <1>3, <1>4
<1> QED BY <1>1, <1>5, ImportInit, RowsInit DEF FullInv, SoundInv

\* Nothing that is stored stands in the way of the next plan.
LEMMA SafeAgain ==
    ASSUME FullInv, OneVersionEach, AllDrafts
    PROVE  PlanIsSafeToExecute(Document, Current)
<1> DEFINE found == [n \in Nodes |-> NewestOf(n)]
           cur == Current
<1>1. /\ cur.found = found /\ cur.children = StoredChildren(found)
      /\ cur.pieces = UNION {StoredContent(n, found[n]) : n \in OfKind(Document, "mission")}
      /\ cur.links = StoredPairs(found, links) /\ cur.edges = StoredPairs(found, edges)
      /\ cur.rules = rules
  BY DEF Current
<1>2. ASSUME NEW n \in Nodes
      PROVE  \/ found[n].version = 0 /\ found[n].state = "none" /\ DOMAIN rows[n] = {}
             \/ /\ found[n].version = 1 /\ found[n].state = "draft"
                /\ DOMAIN rows[n] = {1} /\ found[n].parent = rows[n][1].parent
  <2>1. IsList(rows[n])
    BY DEF FullInv, RowsListed, Listed, IsList
  <2>2. Len(rows[n]) \in Nat /\ DOMAIN rows[n] = 1..Len(rows[n]) /\ Len(rows[n]) <= 1
    BY <2>1, ListFacts DEF OneVersionEach
  <2>3. found[n] = NewestOf(n)
    OBVIOUS
  <2> HIDE DEF found
  <2>4. CASE rows[n] = <<>>
    <3>1. NewestOf(n) = NoRow
      BY <2>4 DEF NewestOf
    <3>2. NoRow.version = 0 /\ NoRow.state = "none"
      BY DEF NoRow
    <3>3. DOMAIN rows[n] = {}
      BY <2>4, OneRow
    <3> QED BY <2>3, <3>1, <3>2, <3>3
  <2>5. CASE rows[n] # <<>>
    <3>1. Len(rows[n]) # 0
      BY <2>1, <2>5, EmptyList
    <3>2. Len(rows[n]) = 1 /\ DOMAIN rows[n] = {1}
      <4> DEFINE len == Len(rows[n])
      <4>1. len \in Nat /\ len <= 1 /\ len # 0
        BY <2>2, <3>1
      <4> HIDE DEF len
      <4>2. len = 1 /\ 1..1 = {1}
        BY <4>1
      <4> QED BY <2>2, <4>2 DEF len
    <3>3. <<n, 1>> \in Ids
      BY <3>2 DEF Ids
    <3>4. rows[n][1].state = "draft"
      BY <3>3 DEF AllDrafts, RowOf
    <3> QED BY <2>3, <2>5, <3>2, <3>4 DEF NewestOf
  <2> QED BY <2>4, <2>5
<1> HIDE DEF found
<1>3. \A n \in Nodes : ~ Frozen(found[n]) /\ found[n].state # "published"
  BY <1>2 DEF Frozen
<1>4. NodesOf(Document) = Nodes
  BY DEF Nodes
<1>5. ASSUME NEW n \in Nodes
      PROVE  NodeAction(Document, cur, n) \notin Refusing
  <2> DEFINE above == Document.parent[n]
  <2>1. above \in Nodes \/ above = NoNode
    BY ParentsKnown
  <2>2. CASE found[n].version = 0
    <3>1. ~ (above # NoNode /\ Frozen(found[above]))
      BY <1>3, <2>1
    <3> QED BY <1>1, <2>2, <3>1 DEF NodeAction, Refusing
  <2>3. CASE found[n].version # 0
    <3>1. /\ DOMAIN rows[n] = {1} /\ RowUnder(rows[n][1], n, rows)
          /\ found[n].parent = rows[n][1].parent
      BY <1>2, <2>3 DEF FullInv, SoundInv, StoredIsAuthored
    <3>2. above # NoNode /\ found[above].version # 0 => found[n].parent = <<above, found[above].version>>
      BY <1>2, <2>1, <3>1 DEF RowUnder
    <3> QED BY <1>1, <1>3, <2>3, <3>2 DEF NodeAction, Refusing
  <2> QED BY <2>2, <2>3
<1>6. ASSUME NEW row, ~ Frozen(row), NEW authored, NEW kept, NEW dropped, ~ dropped
      PROVE  PartAction(row, authored, kept, dropped) \notin Refusing
  BY <1>6 DEF PartAction, Refusing
<1>7. ASSUME NEW x \in OfKind(Document, "mission")
      PROVE  ContentAction(Document, cur, x) \notin Refusing
  <2>1. x \in Nodes /\ ~ Frozen(cur.found[x])
    BY <1>1, <1>3 DEF OfKind, Nodes
  <2> DEFINE authored == PiecesOf(Members(Document.pieces), x)
             kept == PiecesOf(cur.pieces, x)
             dropped == \E p \in kept : \A q \in authored : q.piece # p.piece
  <2>2. ASSUME NEW p \in kept
        PROVE  \E q \in authored : q.piece = p.piece
    <3>1. PICK n \in OfKind(Document, "mission") : p \in StoredContent(n, found[n]) /\ p.mission = x
      BY <1>1 DEF PiecesOf
    <3>2. PICK r \in pieces : /\ r.mission = <<n, found[n].version>>
                              /\ p = [mission |-> n, piece |-> r.piece, text |-> r.text]
      BY <3>1 DEF StoredContent
    <3>3. PICK q \in Members(Document.pieces) : q.mission = r.mission[1] /\ q.piece = r.piece
      BY DEF FullInv, SoundInv, StoredIsAuthored
    <3>4. q.mission = x /\ q.piece = p.piece
      BY <3>1, <3>2, <3>3
    <3> QED BY <3>4 DEF PiecesOf
  <2>3. ~ dropped
    BY <2>2
  <2>4. ContentAction(Document, cur, x) = PartAction(cur.found[x], authored, kept, dropped)
    BY DEF ContentAction
  <2> HIDE DEF authored, kept, dropped, cur
  <2> QED BY <1>6, <2>1, <2>3, <2>4
<1>8. ASSUME NEW pairs, NEW S, \A l \in pairs : <<l[1][1], l[2][1]>> \in S
      PROVE  StoredPairs(found, pairs) \subseteq S
  BY <1>8 DEF StoredPairs
<1>9. cur.links \subseteq Members(Document.links) /\ cur.edges \subseteq Members(Document.edges)
  BY <1>1, <1>8 DEF FullInv, SoundInv, StoredIsAuthored
<1>10. ASSUME NEW x \in OfKind(Document, "mission")
       PROVE  LinkAction(Document, cur, x) \notin Refusing
  <2>1. x \in Nodes /\ ~ Frozen(cur.found[x])
    BY <1>1, <1>3 DEF OfKind, Nodes
  <2> DEFINE authored == LinksOf(Members(Document.links), x)
             kept == LinksOf(cur.links, x)
             dropped == ~ kept \subseteq authored
  <2>2. ~ dropped
    BY <1>9 DEF LinksOf
  <2>3. LinkAction(Document, cur, x) = PartAction(cur.found[x], authored, kept, dropped)
    BY DEF LinkAction
  <2> HIDE DEF authored, kept, dropped, cur
  <2> QED BY <1>6, <2>1, <2>2, <2>3
<1>11. EdgesAction(Document, cur) \notin Refusing
  <2>1. \A e \in Members(Document.edges) : e[1] \in Nodes
    BY CurriculumImportAssumption DEF InLists, Nodes
  <2>2. ~ \E e \in Members(Document.edges) \ cur.edges : cur.found[e[1]].state = "published"
    BY <1>1, <1>3, <2>1
  <2> HIDE DEF cur
  <2> QED BY <1>9, <2>2 DEF EdgesAction, Refusing
<1>12. ASSUME NEW r \in Members(Document.rules)
       PROVE  RuleAction(Document, cur, r) \notin Refusing
  <2>1. r.target \in Nodes
    BY CurriculumImportAssumption DEF WellFormed, Nodes
  <2>2. ~ Frozen(cur.found[r.target])
    BY <1>1, <1>3, <2>1
  <2> HIDE DEF cur
  <2> QED BY <2>2 DEF RuleAction, Refusing
<1>13. Orphans(Document, cur) = {}
  <2>1. ASSUME NEW c \in cur.children
        PROVE  c[2] \in NodesOf(Document) /\ Document.parent[c[2]] = c[1]
    <3>1. PICK id \in Under({<<n, found[n].version>> : n \in DOMAIN found}) :
              c = <<RowOf(id).parent[1], id[1]>>
      BY <1>1 DEF StoredChildren
    <3>2. PICK n \in Nodes : id \in {<<n, v>> : v \in DOMAIN rows[n]}
      BY <3>1 DEF Under, Ids
    <3>3. PICK v \in DOMAIN rows[n] : id = <<n, v>>
      BY <3>2
    <3>4. RowUnder(rows[n][v], n, rows)
      BY DEF FullInv, SoundInv, StoredIsAuthored
    <3>5. rows[n][v].parent[1] = Document.parent[n]
      BY <3>4 DEF RowUnder, NoId
    <3> QED BY <1>4, <3>1, <3>3, <3>5 DEF RowOf
  <2> QED BY <2>1 DEF Orphans
<1>14. UnauthoredRules(Document, cur) = {}
  BY <1>1 DEF UnauthoredRules, FullInv, SoundInv, StoredIsAuthored
<1> HIDE DEF cur
<1>15. Actions(Document, cur) \cap Refusing = {}
  BY <1>4, <1>5, <1>7, <1>10, <1>11, <1>12 DEF Actions
<1>16. PlanIsSafeToExecute(Document, cur)
  BY <1>13, <1>14, <1>15 DEF PlanIsSafeToExecute
<1> QED BY <1>16 DEF cur

\* If the document only adds to its earlier edition, then whatever an import of it cut
\* off anywhere leaves can be planned for again, as long as there is one version of
\* every stable id and all are drafts (planCurriculumReconciliation).
THEOREM StaysReimportable ==
    ASSUME OnlyAdds
    PROVE  Spec => []Reimportable
<1>1. Init => FullInv
  BY FullInit
<1>2. FullInv => Reimportable
  BY SafeAgain DEF Reimportable
<1> QED BY <1>1, <1>2, FullStep, PTL DEF Spec

-----------------------------------------------------------------------------
(* What a turn of the Tutor makes of lists.                                *)

\* g[i] is the first i lists, one after the other.
Flattened(lists, n, g) ==
    g = [i \in 1..n |-> IF i = 1 THEN lists[i] ELSE g[i - 1] \o lists[i]]

\* The recursive function of FlattenSeq exists, whatever the lists.
LEMMA FlattenDefined ==
    ASSUME NEW lists, NEW n \in Nat
    PROVE  \E g : Flattened(lists, n, g)
<1> DEFINE T == {k \in Nat : \E g : Flattened(lists, k, g)}
<1>1. 0 \in T
  <2> DEFINE g == [i \in 1..0 |-> <<>>]
  <2>1. Flattened(lists, 0, g)
    BY DEF Flattened
  <2> QED BY <2>1
<1>2. ASSUME NEW k \in Nat, k \in T
      PROVE  k + 1 \in T
  <2>1. PICK g : Flattened(lists, k, g)
    BY <1>2
  <2> DEFINE last == IF k + 1 = 1 THEN lists[k + 1] ELSE g[k] \o lists[k + 1]
             h == [i \in 1..(k + 1) |-> IF i = k + 1 THEN last ELSE g[i]]
  <2>2. \A i \in 1..k : g[i] = IF i = 1 THEN lists[i] ELSE g[i - 1] \o lists[i]
    BY <2>1 DEF Flattened
  <2> HIDE DEF last
  <2>3. h[k + 1] = last /\ \A i \in 1..k : h[i] = g[i]
    OBVIOUS
  <2>4. h = [i \in 1..(k + 1) |-> h[i]]
    OBVIOUS
  <2> HIDE DEF h
  <2>5. ASSUME NEW i \in 1..(k + 1)
        PROVE  h[i] = IF i = 1 THEN lists[i] ELSE h[i - 1] \o lists[i]
    <3>1. CASE i = k + 1
      <4>1. k + 1 # 1 => h[k] = g[k]
        BY <2>3
      <4>2. (k + 1) - 1 = k
        OBVIOUS
      <4> QED BY <2>3, <3>1, <4>1, <4>2 DEF last
    <3>2. CASE i # k + 1
      <4>1. i \in 1..k /\ (i # 1 => i - 1 \in 1..k)
        BY <3>2
      <4> QED BY <2>2, <2>3, <4>1
    <3> QED BY <3>1, <3>2
  <2>6. Flattened(lists, k + 1, h)
    BY <2>4, <2>5 DEF Flattened
  <2> QED BY <2>6
<1> HIDE DEF T
<1>3. n \in T
  BY <1>1, <1>2, NumberInduction
<1> QED BY <1>3 DEF T

LEMMA FlattenUnfolds ==
    ASSUME NEW lists, Len(lists) # 0
    PROVE  FlattenSeq(lists) = (CHOOSE g : Flattened(lists, Len(lists), g))[Len(lists)]
BY DEF FlattenSeq, Flattened

\* The entries of lists, one list after the other, are entries of the lists.
LEMMA FlattenOf ==
    ASSUME NEW S, NEW lists \in Seq(Seq(S))
    PROVE  /\ FlattenSeq(lists) \in Seq(S)
           /\ (\E i \in DOMAIN lists : lists[i] # <<>>) => FlattenSeq(lists) # <<>>
<1>1. Len(lists) \in Nat /\ DOMAIN lists = 1..Len(lists)
      /\ \A i \in 1..Len(lists) : lists[i] \in Seq(S)
  OBVIOUS
<1>2. CASE Len(lists) = 0
  <2>1. lists = <<>>
    BY <1>1, <1>2
  <2>2. FlattenSeq(lists) = <<>>
    BY <1>2, <2>1 DEF FlattenSeq
  <2> QED BY <1>1, <1>2, <2>2
<1>3. CASE Len(lists) # 0
  <2> DEFINE g == CHOOSE h : Flattened(lists, Len(lists), h)
  <2>1. Flattened(lists, Len(lists), g)
    BY <1>1, FlattenDefined
  <2>2. FlattenSeq(lists) = g[Len(lists)]
    BY <1>3, FlattenUnfolds
  <2> HIDE DEF g
  <2>3. \A i \in 1..Len(lists) : g[i] = IF i = 1 THEN lists[i] ELSE g[i - 1] \o lists[i]
    BY <2>1 DEF Flattened
  <2> DEFINE Good(n) ==
                 /\ g[n] \in Seq(S)
                 /\ (\E i \in 1..n : lists[i] # <<>>) => g[n] # <<>>
             T == {n \in Nat : n \in 1..Len(lists) => Good(n)}
  <2>4. 0 \in T
    OBVIOUS
  <2>5. ASSUME NEW n \in Nat, n \in T
        PROVE  n + 1 \in T
    <3>1. SUFFICES ASSUME n + 1 \in 1..Len(lists)
                   PROVE  Good(n + 1)
      OBVIOUS
    <3>2. CASE n = 0
      <4>1. g[1] = lists[1] /\ lists[1] \in Seq(S)
        BY <1>1, <2>3, <3>1, <3>2
      <4> QED BY <3>2, <4>1
    <3>3. CASE n # 0
      <4>1. n \in 1..Len(lists)
        BY <1>1, <3>1, <3>3
      <4>2. Good(n)
        BY <2>5, <4>1
      <4>3. g[n + 1] = g[n] \o lists[n + 1] /\ lists[n + 1] \in Seq(S)
        <5>1. n + 1 # 1 /\ (n + 1) - 1 = n
          BY <3>3
        <5> QED BY <1>1, <2>3, <3>1, <5>1
      <4>4. g[n + 1] \in Seq(S)
        BY <4>2, <4>3
      <4>5. g[n] # <<>> \/ lists[n + 1] # <<>> => g[n + 1] # <<>>
        <5> PICK a, b : a = g[n] /\ b = lists[n + 1]
          OBVIOUS
        <5>1. a \in Seq(S) /\ b \in Seq(S)
          BY <4>2, <4>3
        <5>2. a # <<>> \/ b # <<>> => a \o b # <<>>
          BY <5>1
        <5> QED BY <4>3, <5>2
      <4>6. ASSUME NEW i \in 1..(n + 1), lists[i] # <<>>
            PROVE  g[n] # <<>> \/ lists[n + 1] # <<>>
        <5>1. i = n + 1 \/ i \in 1..n
          OBVIOUS
        <5> QED BY <4>2, <4>6, <5>1
      <4> QED BY <4>4, <4>5, <4>6
    <3> QED BY <3>2, <3>3
  <2> HIDE DEF T
  <2>6. Nat \subseteq T
    BY <2>4, <2>5, NumberInduction
  <2>7. Good(Len(lists))
    BY <1>1, <1>3, <2>6 DEF T
  <2> QED BY <1>1, <2>2, <2>7
<1> QED BY <1>2, <1>3

\* What is kept of a list are entries at the positions to keep.
LEMMA WhereKeeps ==
    ASSUME NEW S, NEW list \in Seq(S), NEW keep
    PROVE  /\ Where(list, keep) \in Seq({list[i] : i \in DOMAIN list \cap keep})
           /\ DOMAIN list \cap keep # {} => Where(list, keep) # <<>>
<1> DEFINE kept == {list[i] : i \in DOMAIN list \cap keep}
           lists == [i \in DOMAIN list |-> Only(i \in keep, list[i])]
<1>1. DOMAIN list = 1..Len(list) /\ Len(list) \in Nat
  OBVIOUS
<1>2. \A i \in DOMAIN list : /\ lists[i] \in Seq(kept)
                             /\ i \in keep => lists[i] # <<>>
  <2>1. ASSUME NEW i \in DOMAIN list
        PROVE  lists[i] \in Seq(kept) /\ (i \in keep => lists[i] # <<>>)
    <3>1. lists[i] = Only(i \in keep, list[i])
      OBVIOUS
    <3>2. CASE i \in keep
      <4>1. list[i] \in kept
        BY <3>2
      <4>2. lists[i] = <<list[i]>>
        BY <3>1, <3>2 DEF Only
      <4> HIDE DEF kept, lists
      <4> QED BY <4>1, <4>2
    <3>3. CASE i \notin keep
      <4>1. lists[i] = <<>>
        BY <3>1, <3>3 DEF Only
      <4> HIDE DEF kept, lists
      <4> QED BY <3>3, <4>1
    <3> QED BY <3>2, <3>3
  <2> QED BY <2>1
<1>3. DOMAIN lists = 1..Len(list) /\ lists = [i \in 1..Len(list) |-> lists[i]]
  BY <1>1
<1>4. Where(list, keep) = FlattenSeq(lists)
  BY DEF Where
<1> HIDE DEF kept, lists
<1>5. lists \in [1..Len(list) -> Seq(kept)]
  BY <1>1, <1>2, <1>3
<1>6. lists \in Seq(Seq(kept))
  BY <1>1, <1>5
<1>7. /\ FlattenSeq(lists) \in Seq(kept)
      /\ (\E i \in DOMAIN lists : lists[i] # <<>>) => FlattenSeq(lists) # <<>>
  BY <1>6, FlattenOf
<1> QED BY <1>1, <1>2, <1>3, <1>4, <1>7 DEF kept

LEMMA EmptyOf ==
    ASSUME NEW list \in Seq({})
    PROVE  list = <<>>
<1>1. Len(list) = 0
  <2>1. Len(list) \in Nat /\ \A i \in 1..Len(list) : list[i] \in {}
    OBVIOUS
  <2> QED BY <2>1
<1> QED BY <1>1

LEMMA SeqWidens ==
    ASSUME NEW S, NEW U, S \subseteq U, NEW list \in Seq(S)
    PROVE  list \in Seq(U)
OBVIOUS

\* References asked for twice are asked for once, and none is made up.
LEMMA NormalizedOf ==
    ASSUME NEW refs, refs \in Seq(ToSet(refs))
    PROVE  /\ NormalizedRefs(refs) \in Seq(ToSet(refs))
           /\ NormalizedRefs(refs) = <<>> <=> refs = <<>>
<1> DEFINE keep == {i \in DOMAIN refs : ~Repeats(refs, i)}
           kept == {refs[i] : i \in DOMAIN refs \cap keep}
<1>1. NormalizedRefs(refs) = Where(refs, keep)
  BY DEF NormalizedRefs
<1>2. kept \subseteq ToSet(refs)
  BY DEF ToSet
<1>3. /\ Where(refs, keep) \in Seq(kept)
      /\ DOMAIN refs \cap keep # {} => Where(refs, keep) # <<>>
  <2> HIDE DEF keep
  <2> QED BY WhereKeeps
<1>4. ASSUME refs # <<>>
      PROVE  DOMAIN refs \cap keep # {}
  <2>1. 1 \in DOMAIN refs
    BY <1>4
  <2>2. ~Repeats(refs, 1)
    BY DEF Repeats
  <2> QED BY <2>1, <2>2
<1>5. ASSUME refs = <<>>
      PROVE  Where(refs, keep) = <<>>
  <2>1. kept = {}
    BY <1>5
  <2> QED BY <1>3, <2>1, EmptyOf
<1> HIDE DEF keep, kept
<1>6. Where(refs, keep) \in Seq(ToSet(refs))
  BY <1>2, <1>3, SeqWidens
<1> QED BY <1>1, <1>3, <1>4, <1>5, <1>6

\* What was found of what was asked for.
Fitting(refs, resolved) ==
    {resolved[n] : n \in {k \in DOMAIN resolved : RefOf(resolved[k]) \in ToSet(refs)}}

\* Put in order, it is still only that.
LEMMA OrderedOf ==
    ASSUME NEW refs, refs \in Seq(ToSet(refs)), NEW resolved, resolved \in Seq(ToSet(resolved))
    PROVE  Ordered(refs, resolved) \in Seq(Fitting(refs, resolved))
<1> DEFINE ofKind == [k \in DOMAIN Kinds |->
                         Where(refs, {i \in DOMAIN refs : refs[i].kind = Kinds[k]})]
<1>1. PICK byKind : byKind = FlattenSeq(ofKind)
  OBVIOUS
<1> DEFINE found == [i \in DOMAIN byKind |->
                        Where(resolved, {n \in DOMAIN resolved : RefOf(resolved[n]) = byKind[i]})]
<1>2. Ordered(refs, resolved) = FlattenSeq(found)
  BY <1>1 DEF Ordered
<1>3. ofKind \in Seq(Seq(ToSet(refs)))
  <2>1. DOMAIN Kinds = 1..Len(Kinds) /\ Len(Kinds) \in Nat
    BY TutorAssumption
  <2>2. ASSUME NEW k \in DOMAIN Kinds
        PROVE  ofKind[k] \in Seq(ToSet(refs))
    <3> DEFINE keep == {i \in DOMAIN refs : refs[i].kind = Kinds[k]}
               kept == {refs[i] : i \in DOMAIN refs \cap keep}
    <3>1. ofKind[k] = Where(refs, keep)
      OBVIOUS
    <3>2. kept \subseteq ToSet(refs)
      BY DEF ToSet
    <3> HIDE DEF keep, ofKind
    <3>3. Where(refs, keep) \in Seq(kept)
      BY WhereKeeps
    <3> HIDE DEF kept
    <3> QED BY <3>1, <3>2, <3>3, SeqWidens
  <2>3. ofKind = [k \in 1..Len(Kinds) |-> ofKind[k]]
    BY <2>1
  <2> HIDE DEF ofKind
  <2>4. ofKind \in [1..Len(Kinds) -> Seq(ToSet(refs))]
    BY <2>1, <2>2, <2>3
  <2> QED BY <2>1, <2>4
<1> HIDE DEF ofKind
<1>4. byKind \in Seq(ToSet(refs))
  BY <1>1, <1>3, FlattenOf
<1>5. found \in Seq(Seq(Fitting(refs, resolved)))
  <2>1. DOMAIN byKind = 1..Len(byKind) /\ Len(byKind) \in Nat
    BY <1>4
  <2>2. ASSUME NEW i \in DOMAIN byKind
        PROVE  found[i] \in Seq(Fitting(refs, resolved))
    <3> DEFINE keep == {n \in DOMAIN resolved : RefOf(resolved[n]) = byKind[i]}
               kept == {resolved[n] : n \in DOMAIN resolved \cap keep}
    <3>1. found[i] = Where(resolved, keep)
      OBVIOUS
    <3>2. byKind[i] \in ToSet(refs)
      BY <1>4, <2>1
    <3>3. kept \subseteq Fitting(refs, resolved)
      BY <3>2 DEF Fitting
    <3> HIDE DEF keep, found
    <3>4. Where(resolved, keep) \in Seq(kept)
      BY WhereKeeps
    <3> HIDE DEF kept
    <3> QED BY <3>1, <3>3, <3>4, SeqWidens
  <2>3. found = [i \in 1..Len(byKind) |-> found[i]]
    BY <2>1
  <2> HIDE DEF found
  <2>4. found \in [1..Len(byKind) -> Seq(Fitting(refs, resolved))]
    BY <2>1, <2>2, <2>3
  <2> QED BY <2>1, <2>4
<1> HIDE DEF found
<1> QED BY <1>2, <1>5, FlattenOf

\* g[i] is what is taken of the first i segments.
Taken(ordered, n, g) ==
    g = [i \in 0..n |->
            IF i = 0 THEN [chosen |-> << >>, budget |-> TextBudget, open |-> TRUE]
            ELSE Take(g[i - 1], Clipped(ordered[i]))]

LEMMA TakenDefined ==
    ASSUME NEW ordered, NEW n \in Nat
    PROVE  \E g : Taken(ordered, n, g)
<1> DEFINE start == [chosen |-> << >>, budget |-> TextBudget, open |-> TRUE]
           T == {k \in Nat : \E g : Taken(ordered, k, g)}
<1>1. 0 \in T
  <2> DEFINE g == [i \in 0..0 |-> start]
  <2>1. Taken(ordered, 0, g)
    BY DEF Taken
  <2> QED BY <2>1
<1>2. ASSUME NEW k \in Nat, k \in T
      PROVE  k + 1 \in T
  <2>1. PICK g : Taken(ordered, k, g)
    BY <1>2
  <2> DEFINE last == Take(g[k], Clipped(ordered[k + 1]))
             h == [i \in 0..(k + 1) |-> IF i = k + 1 THEN last ELSE g[i]]
  <2>2. \A i \in 0..k : g[i] = IF i = 0 THEN start ELSE Take(g[i - 1], Clipped(ordered[i]))
    BY <2>1 DEF Taken
  <2> HIDE DEF last, start
  <2>3. h[k + 1] = last /\ \A i \in 0..k : h[i] = g[i]
    OBVIOUS
  <2>4. h = [i \in 0..(k + 1) |-> h[i]]
    OBVIOUS
  <2> HIDE DEF h
  <2>5. ASSUME NEW i \in 0..(k + 1)
        PROVE  h[i] = IF i = 0 THEN start ELSE Take(h[i - 1], Clipped(ordered[i]))
    <3>1. CASE i = k + 1
      <4>1. h[k] = g[k] /\ k + 1 # 0 /\ (k + 1) - 1 = k
        BY <2>3
      <4> QED BY <2>3, <3>1, <4>1 DEF last
    <3>2. CASE i # k + 1
      BY <2>2, <2>3, <3>2
    <3> QED BY <3>1, <3>2
  <2>6. Taken(ordered, k + 1, h)
    BY <2>4, <2>5 DEF Taken, start
  <2> QED BY <2>6
<1> HIDE DEF T
<1>3. n \in T
  BY <1>1, <1>2, NumberInduction
<1> QED BY <1>3 DEF T

LEMMA ChosenUnfolds ==
    ASSUME NEW ordered
    PROVE  Chosen(ordered)
             = (CHOOSE g : Taken(ordered, Len(ordered), g))[Len(ordered)].chosen
BY DEF Chosen, Taken

\* As far as segments were gone through, what was chosen of them.
Choice(S, n, acc) ==
    /\ DOMAIN acc = {"chosen", "budget", "open"}
    /\ acc.chosen \in Seq(S) /\ Len(acc.chosen) <= n

LEMMA TakeOne ==
    ASSUME NEW S, NEW n \in Nat, NEW acc, Choice(S, n, acc), NEW segment \in S
    PROVE  Choice(S, n + 1, Take(acc, segment))
<1>1. Choice(S, n + 1, acc)
  BY DEF Choice
<1>2. Choice(S, n + 1, [acc EXCEPT !.open = FALSE])
  BY DEF Choice
<1>3. Choice(S, n + 1, [acc EXCEPT !.chosen = Append(@, segment), !.budget = @ - segment.size])
  <2>1. PICK more : more = Append(acc.chosen, segment)
    OBVIOUS
  <2>2. more \in Seq(S) /\ Len(more) <= n + 1
    BY <2>1 DEF Choice
  <2>3. PICK next : next = [acc EXCEPT !.chosen = more, !.budget = @ - segment.size]
    OBVIOUS
  <2>4. DOMAIN next = {"chosen", "budget", "open"} /\ next.chosen = more
    BY <2>3 DEF Choice
  <2> QED BY <2>1, <2>2, <2>3, <2>4 DEF Choice
<1> QED BY <1>1, <1>2, <1>3 DEF Take

\* No more is chosen than was found, and nothing else.
LEMMA ChosenOf ==
    ASSUME NEW S, NEW ordered \in Seq(S)
    PROVE  /\ Chosen(ordered) \in Seq({Clipped(segment) : segment \in S})
           /\ Len(Chosen(ordered)) <= Len(ordered)
<1> DEFINE g == CHOOSE h : Taken(ordered, Len(ordered), h)
           clipped == {Clipped(segment) : segment \in S}
<1>1. Len(ordered) \in Nat /\ \A i \in 1..Len(ordered) : ordered[i] \in S
  OBVIOUS
<1>2. Taken(ordered, Len(ordered), g)
  BY <1>1, TakenDefined
<1>3. Chosen(ordered) = g[Len(ordered)].chosen
  BY ChosenUnfolds
<1> HIDE DEF g
<1> DEFINE T == {n \in Nat : n <= Len(ordered) => Choice(clipped, n, g[n])}
<1>4. 0 \in T
  <2>1. g[0] = [chosen |-> << >>, budget |-> TextBudget, open |-> TRUE]
    BY <1>1, <1>2 DEF Taken
  <2>2. Choice(clipped, 0, g[0])
    <3> HIDE DEF clipped
    <3> QED BY <2>1 DEF Choice
  <2> QED BY <2>2
<1>5. ASSUME NEW n \in Nat, n \in T
      PROVE  n + 1 \in T
  <2>1. SUFFICES ASSUME n + 1 <= Len(ordered)
                 PROVE  Choice(clipped, n + 1, g[n + 1])
    OBVIOUS
  <2>2. Choice(clipped, n, g[n])
    BY <1>1, <1>5, <2>1
  <2>3. PICK segment : segment = Clipped(ordered[n + 1])
    OBVIOUS
  <2>4. segment \in clipped
    BY <1>1, <2>1, <2>3
  <2>5. g[n + 1] = Take(g[n], segment)
    <3>1. n + 1 \in 0..Len(ordered) /\ n + 1 # 0 /\ (n + 1) - 1 = n
      BY <1>1, <2>1
    <3> QED BY <1>2, <2>3, <3>1 DEF Taken
  <2> HIDE DEF clipped
  <2> QED BY <2>2, <2>4, <2>5, TakeOne
<1> HIDE DEF T
<1>6. Nat \subseteq T
  BY <1>4, <1>5, NumberInduction
<1> HIDE DEF clipped
<1>7. Choice(clipped, Len(ordered), g[Len(ordered)])
  <2>1. Len(ordered) \in T /\ Len(ordered) <= Len(ordered)
    BY <1>1, <1>6
  <2> QED BY <2>1 DEF T
<1> QED BY <1>3, <1>7 DEF Choice, clipped

-----------------------------------------------------------------------------
(* The Tutor's answers *)

\* What a turn may answer from: content that was asked for, in the mode that
\* tells whether any was.
Grounded(g) ==
    /\ g.mode = "general" <=> input.refs = << >>
    /\ \A i \in DOMAIN g.segments : RefOf(g.segments[i]) \in ToSet(input.refs)
    /\ g.dropped \in Nat

\* A turn that goes on has given no answer, past its grounding it is grounded,
\* and an answer given was verified against that grounding.
TurnInv ==
    /\ input \in Inputs
    /\ step # "done" => outcome = NoOutcome
    /\ step = "grounding" => input.refs # << >>
    /\ step \in {"grounded", "calling", "pausing"} => Grounded(grounding)
    /\ outcome.status = "answered" /\ ~input.deterministic =>
          /\ Grounded(grounding)
          /\ \E output : outcome.response = Answer(output, Request, grounding)

\* What is selected of what the source resolved grounds the turn.
LEMMA SelectionGrounds ==
    ASSUME NEW sent \in Inputs, NEW resolved \in Resolutions \cup {<< >>},
           NEW refs, refs = NormalizedRefs(sent.refs),
           NEW g, g = SelectedGrounding(refs, resolved)
    PROVE  /\ g.mode = "general" <=> sent.refs = << >>
           /\ \A i \in DOMAIN g.segments : RefOf(g.segments[i]) \in ToSet(sent.refs)
           /\ g.dropped \in Nat
<1>1. sent.refs \in Seq(ToSet(sent.refs))
  BY TutorAssumption
<1>2. refs \in Seq(ToSet(sent.refs)) /\ (refs = << >> <=> sent.refs = << >>)
  BY <1>1, NormalizedOf
<1>3. CASE refs = << >>
  <2>1. g = Grounding("general", << >>, 0)
    BY <1>3 DEF SelectedGrounding
  <2> QED BY <1>2, <1>3, <2>1 DEF Grounding
<1>4. CASE refs # << >>
  <2>1. PICK ordered : ordered = Ordered(refs, resolved)
    OBVIOUS
  <2>2. PICK chosen : chosen = Chosen(ordered)
    OBVIOUS
  <2>3. /\ g.segments = chosen /\ g.dropped = Len(ordered) - Len(chosen)
        /\ g.mode \in {"lesson_grounded", "context_unavailable"}
    BY <1>4, <2>1, <2>2 DEF SelectedGrounding, Grounding
  <2>4. /\ resolved \in Seq(ToSet(resolved))
        /\ \A i \in DOMAIN resolved :
              DOMAIN resolved[i] = {"kind", "id", "size", "text", "followable"}
    <3>1. CASE resolved = << >>
      BY <3>1
    <3>2. CASE resolved \in Resolutions
      BY <3>2, TutorAssumption
    <3> QED BY <3>1, <3>2
  <2>5. refs \in Seq(ToSet(refs)) /\ ToSet(refs) \subseteq ToSet(sent.refs)
    BY <1>2 DEF ToSet
  <2>6. ordered \in Seq(Fitting(refs, resolved))
    BY <2>1, <2>4, <2>5, OrderedOf
  <2>7. /\ chosen \in Seq({Clipped(segment) : segment \in Fitting(refs, resolved)})
        /\ Len(chosen) <= Len(ordered)
    BY <2>2, <2>6, ChosenOf
  <2>8. ASSUME NEW segment \in Fitting(refs, resolved)
        PROVE  RefOf(Clipped(segment)) \in ToSet(refs)
    <3>1. DOMAIN segment = {"kind", "id", "size", "text", "followable"}
      BY <2>4 DEF Fitting
    <3>2. RefOf(Clipped(segment)) = RefOf(segment)
      BY <3>1 DEF RefOf, Clipped
    <3> QED BY <3>2 DEF Fitting
  <2>9. \A i \in DOMAIN chosen : RefOf(chosen[i]) \in ToSet(refs)
    <3>1. \A i \in DOMAIN chosen : \E segment \in Fitting(refs, resolved) : chosen[i] = Clipped(segment)
      BY <2>7
    <3> QED BY <2>8, <3>1
  <2>10. g.dropped \in Nat
    <3>1. Len(ordered) \in Nat /\ Len(chosen) \in Nat
      BY <2>6, <2>7
    <3> QED BY <2>3, <2>7, <3>1
  <2> QED BY <1>2, <1>4, <2>3, <2>5, <2>9, <2>10
<1> QED BY <1>3, <1>4

LEMMA TurnInvInit == TurnInit => TurnInv
BY DEF TurnInit, TurnInv, NoOutcome

LEMMA TurnInvNext == TurnInv /\ [TurnNext]_turnVars => TurnInv'
<1> SUFFICES ASSUME TurnInv, [TurnNext]_turnVars PROVE TurnInv'
  OBVIOUS
<1>1. CASE UNCHANGED turnVars
  BY <1>1 DEF turnVars, TurnInv, Grounded, Request, Assembled
<1>2. ASSUME UNCHANGED <<input, grounding, outcome>>, step \in {"received", "resolved"},
             step' \in {"resolved"}
      PROVE  TurnInv'
  BY <1>2 DEF TurnInv, NoOutcome
<1>3. CASE ResolveOwnership
  BY <1>2, <1>3 DEF ResolveOwnership
<1>4. CASE Refuse
  BY <1>4 DEF Refuse, EndTurn, TurnInv
<1>5. CASE Defer
  BY <1>5 DEF Defer, EndTurn, TurnInv
<1>6. CASE Accept
  <2>0. input' = input /\ outcome' = outcome /\ outcome = NoOutcome /\ input \in Inputs
    BY <1>6 DEF Accept, TurnInv
  <2>1. Request.refs = NormalizedRefs(input.refs)
    BY DEF Request, Assembled
  <2>2. Request.refs = << >> <=> input.refs = << >>
    BY <2>0, <2>1, TutorAssumption, NormalizedOf
  <2>3. CASE Request.refs = << >>
    <3>1. grounding' = SelectedGrounding(<< >>, << >>) /\ step' = "grounded"
      BY <1>6, <2>3 DEF Accept
    <3>2. Grounded(grounding)'
      BY <2>0, <2>1, <2>3, <3>1, SelectionGrounds DEF Grounded
    <3> QED BY <2>0, <3>1, <3>2 DEF TurnInv, NoOutcome
  <2>4. CASE Request.refs # << >>
    <3>1. step' = "grounding"
      BY <1>6, <2>4 DEF Accept
    <3> QED BY <2>0, <2>2, <2>4, <3>1 DEF TurnInv, NoOutcome
  <2> QED BY <2>3, <2>4
<1>7. ASSUME step = "grounding", step' = "grounded", UNCHANGED <<input, outcome>>,
             \/ grounding' = Unreadable
             \/ \E resolved \in Resolutions : grounding' = SelectedGrounding(Request.refs, resolved)
      PROVE  TurnInv'
  <2>1. input.refs # << >> /\ input \in Inputs /\ outcome = NoOutcome
    BY <1>7 DEF TurnInv
  <2>2. Grounded(grounding)'
    <3>1. CASE grounding' = Unreadable
      BY <1>7, <2>1, <3>1 DEF Grounded, Unreadable, Grounding
    <3>2. ASSUME NEW resolved \in Resolutions,
                 grounding' = SelectedGrounding(Request.refs, resolved)
          PROVE  Grounded(grounding)'
      <4>1. Request.refs = NormalizedRefs(input.refs)
        BY DEF Request, Assembled
      <4> QED BY <1>7, <2>1, <3>2, <4>1, SelectionGrounds DEF Grounded
    <3> QED BY <1>7, <3>1, <3>2
  <2> QED BY <1>7, <2>1, <2>2 DEF TurnInv, NoOutcome
<1>8. CASE SourceResolves \/ SourceUnavailable \/ SourceTimesOut
  BY <1>7, <1>8 DEF SourceResolves, SourceUnavailable, SourceTimesOut
<1>9. ASSUME UNCHANGED <<input, grounding>>, step \in {"grounded", "calling", "pausing"},
             \/ step' \in {"calling", "pausing"} /\ outcome' = outcome
             \/ step' = "done" /\ outcome'.status # "answered"
             \/ /\ step' = "done"
                /\ \E output : outcome'.response = Answer(output, Request, grounding)
      PROVE  TurnInv'
  <2>1. Grounded(grounding) /\ outcome = NoOutcome /\ input \in Inputs
    BY <1>9 DEF TurnInv
  <2>2. Grounded(grounding)' /\ Request' = Request
    BY <1>9, <2>1 DEF Grounded, Request
  <2> QED BY <1>9, <2>1, <2>2 DEF TurnInv, NoOutcome
<1>10. CASE NotSent
  BY <1>9, <1>10 DEF NotSent, Unavailable, EndTurn
<1>11. CASE Call
  BY <1>9, <1>11 DEF Call
<1>12. ASSUME NEW error, Failed(error), step = "calling"
       PROVE  TurnInv'
  BY <1>9, <1>12 DEF Failed, Unavailable, EndTurn
<1>13. CASE ProviderFails \/ ProviderTimesOut
  BY <1>12, <1>13 DEF ProviderFails, ProviderTimesOut
<1>14. CASE ProviderCompletes
  <2>1. PICK output \in Outputs \cup LocalOutputs(CurrentCall.prompt, Unseen) :
            IF Malformed(output)
            THEN Unavailable("invalid_provider_response", grounding.mode, attempts)
            ELSE EndTurn([status |-> "answered", attempts |-> attempts,
                      response |-> Answer(output, Request, grounding)])
    BY <1>14 DEF ProviderCompletes
  <2>2. UNCHANGED <<input, grounding>> /\ step = "calling"
    BY <1>14 DEF ProviderCompletes
  <2>3. CASE Malformed(output)
    BY <1>9, <2>1, <2>2, <2>3 DEF Unavailable, EndTurn
  <2>4. CASE ~Malformed(output)
    <3>1. step' = "done" /\ outcome'.response = Answer(output, Request, grounding)
      BY <2>1, <2>4 DEF EndTurn
    <3> QED BY <1>9, <2>2, <3>1
  <2> QED BY <2>3, <2>4
<1>15. CASE LateEnd \/ Finished
  <2>1. UNCHANGED <<input, step, grounding, outcome>>
    BY <1>15 DEF LateEnd, Finished, turnVars
  <2> QED BY <2>1 DEF TurnInv, Grounded, Request
<1> QED BY <1>1, <1>3, <1>4, <1>5, <1>6, <1>8, <1>10, <1>11, <1>13, <1>14, <1>15 DEF TurnNext

\* A question about a lesson is answered from that lesson's content or not at all,
\* citations point at content that was asked for, and an answer says that it
\* comes from the lesson only if it does and nothing found was left out
\* (selectTutorGrounding and normalizeTutorResponse).
THEOREM AnswersStayGrounded == TurnSpec => []AnswersAreGrounded
<1>1. TurnInv => AnswersAreGrounded
  <2> SUFFICES ASSUME TurnInv, outcome.status = "answered", ~input.deterministic
               PROVE  LET response == outcome.response
                          shown == {grounding.segments[i].id : i \in DOMAIN grounding.segments}
                      IN  /\ response.mode = "general" <=> input.refs = <<>>
                          /\ response.citations \subseteq
                                shown \cap {input.refs[i].id : i \in DOMAIN input.refs}
                          /\ response.level = "grounded" =>
                                response.citations # {} /\ grounding.dropped = 0
    BY DEF AnswersAreGrounded
  <2>1. Grounded(grounding)
    BY DEF TurnInv
  <2>2. PICK output : outcome.response = Answer(output, Request, grounding)
    BY DEF TurnInv
  <2>3. PICK cited : cited = Verified(output.claimed, grounding.segments)
    OBVIOUS
  <2>4. /\ outcome.response.mode = grounding.mode /\ outcome.response.citations = cited
        /\ outcome.response.level = Uncertainty(grounding, cited, output.uncertain)
    BY <2>2, <2>3 DEF Answer
  <2>5. \A c \in cited : \E i \in DOMAIN grounding.segments : c = grounding.segments[i].id
    BY <2>3 DEF Verified, Citable
  <2>6. ASSUME NEW i \in DOMAIN grounding.segments
        PROVE  \E k \in DOMAIN input.refs : grounding.segments[i].id = input.refs[k].id
    <3>1. PICK k \in DOMAIN input.refs : input.refs[k] = RefOf(grounding.segments[i])
      BY <2>1 DEF Grounded, ToSet
    <3> QED BY <3>1 DEF RefOf
  <2>7. cited \subseteq {grounding.segments[i].id : i \in DOMAIN grounding.segments}
                            \cap {input.refs[i].id : i \in DOMAIN input.refs}
    BY <2>5, <2>6
  <2>8. Uncertainty(grounding, cited, output.uncertain) = "grounded"
           => cited # {} /\ grounding.dropped = 0
    BY <2>1 DEF Uncertainty, Grounded
  <2> QED BY <2>1, <2>4, <2>7, <2>8 DEF Grounded
<1> QED BY <1>1, TurnInvInit, TurnInvNext, PTL DEF TurnSpec
=============================================================================

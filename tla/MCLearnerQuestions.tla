-------------------------- MODULE MCLearnerQuestions --------------------------
(***************************************************************************)
(* What a learner asks, for TLC: in some behaviours a turn of the Tutor,   *)
(* in others the search for curriculum, the requests that keep the         *)
(* learner's notes, or one request of any kind to the API and its route.   *)
(* They share no data, so no behaviour needs two.                          *)
(*                                                                         *)
(* Of the Tutor: requests that differ in one respect each from one that is *)
(* answered, two pieces of content that together are too much, and a       *)
(* source that also resolves to what was not asked for.  Of the search: a  *)
(* concept with three names, told in a title, in descriptions and in a     *)
(* step; a pair of curated terms, a misspelt term and an empty query; as   *)
(* many results as one, and reads no longer than that.  Of the notes: one  *)
(* note and one tag under two devices, and edits of no, one and two        *)
(* blocks.  Of the API: every route with every method, a page at an        *)
(* allowed origin, one elsewhere and a program, a student, an              *)
(* administrator with and without a second factor, one whose address is    *)
(* not verified, and a token that has expired.                             *)
(***************************************************************************)
EXTENDS TutorTurn, CurriculumSearch, StudentNotes, HttpServer, TLC

CONSTANTS
    mine, theirs, intro, terms, extra,
    vlan, vlans, lan, lans, network, terraform, terrafrom, ad, directory,
    n1

VARIABLE half            \* what the learner asks in this behaviour

Seg(kind, id, size, text, followable) ==
    [kind |-> kind, id |-> id, size |-> size, text |-> text, followable |-> followable]

Ref(kind, id) == [kind |-> kind, id |-> id]
Both == <<Ref("glossary", terms), Ref("lesson_text", intro), Ref("glossary", terms)>>

Excerpt(note, text, size, chosen) ==
    [note |-> note, text |-> text, size |-> size, chosen |-> chosen]

PlainInput ==
    [supported |-> TRUE, forbidden |-> FALSE, correlation |-> "clean", task |-> "explain",
     question |-> [text |-> "clean", size |-> 1], located |-> TRUE, refs |-> Both,
     excerpts |-> << >>, deterministic |-> FALSE, claim |-> "none"]

WithExcerpt(e) == [PlainInput EXCEPT !.excerpts = <<e>>]

TheInputs ==
    {PlainInput,
     [PlainInput EXCEPT !.refs = << >>],
     [PlainInput EXCEPT !.refs = <<Ref("answer_key", intro)>>],
     [PlainInput EXCEPT !.supported = FALSE],
     [PlainInput EXCEPT !.forbidden = TRUE, !.question.text = "credential"],
     [PlainInput EXCEPT !.question.text = "credential"],
     [PlainInput EXCEPT !.question.size = 2],
     [PlainInput EXCEPT !.task = "draft"],
     [PlainInput EXCEPT !.deterministic = TRUE, !.claim = "attested"],
     WithExcerpt(Excerpt(mine, "clean", 1, TRUE)),
     WithExcerpt(Excerpt(mine, "clean", 2, TRUE)),
     WithExcerpt(Excerpt(mine, "clean", 3, TRUE)),
     WithExcerpt(Excerpt(mine, "clean", 1, FALSE)),
     WithExcerpt(Excerpt(mine, "residue", 1, TRUE)),
     WithExcerpt(Excerpt(theirs, "clean", 1, TRUE)),
     [PlainInput EXCEPT !.excerpts = <<Excerpt(mine, "clean", 1, TRUE), Excerpt(theirs, "clean", 1, TRUE)>>]}

Intro == Seg("lesson_text", intro, 2, "clean", TRUE)
Glossary == Seg("glossary", terms, 1, "credential", TRUE)
Long == Seg("glossary", terms, 4, "clean", FALSE)
Extra == Seg("reference", extra, 1, "clean", TRUE)
Poison == Seg("lesson_text", intro, 1, "residue", TRUE)
Blank == Seg("lesson_text", intro, 0, "blank", TRUE)

TheResolutions ==
    {<< >>, <<Glossary, Intro>>, <<Long, Intro, Extra>>, <<Extra>>, <<Poison>>, <<Blank, Glossary>>,
     <<Blank>>}

TheOutputs ==
    [authority : {FALSE}, answer : {TRUE}, uncertain : BOOLEAN,
     claimed : {{}, {intro}, {intro, extra}}]

TheKinds == <<"lesson_text", "glossary", "reference">>
TheCapabilities == [tasks |-> {"explain"}, context |-> 5]
-----------------------------------------------------------------------------
\* vlan, lan and network name one concept; vlans and lans are their plurals.
TheTerms == {vlan, vlans, lan, lans, network, terraform, terrafrom, ad, directory}
TheGroups == {<<vlan, lan, network>>}
SingularOf == [t \in TheTerms |-> IF t = vlans THEN vlan ELSE IF t = lans THEN lan ELSE NoTerm]
WithinOf == [t \in TheTerms |-> IF t = lans THEN {lan} ELSE {}]
TheCurated == << <<directory, ad>> >>
MentionsOf == [t \in TheTerms |-> {t}]
CorrectionOf ==
    [q \in [term : TheTerms, dressed : BOOLEAN] |-> IF q.term = terrafrom THEN terraform ELSE NoTerm]

Wording(t, dressed) == [term |-> t, dressed |-> dressed]
Refused == Wording(terrafrom, TRUE)
TheQueries ==
    {Refused, Wording(lans, TRUE), Wording(vlans, FALSE), Wording(ad, FALSE), Wording(terrafrom, FALSE)}

Row(type, id) == [type |-> type, id |-> id, version |-> 1]
Networks == Row("course", 1)
Switching == Row("mission", 1)
Virtual == Row("mission", 2)
Practice == Row("mission", 3)
Identity == Row("competency", 1)
AllRows == {Networks, Switching, Virtual, Practice, Identity}
AllPublished == {AllRows}
Released == {Virtual, Networks}
CoursesOf == [r \in {Switching, Virtual, Practice} |-> Networks]

TitleOf == [r \in AllRows |-> [t \in TheTerms |->
    CASE r = Virtual /\ t = network -> "whole_title"
      [] r = Identity /\ t = directory -> "title_token"
      [] r = Networks /\ t = terraform -> "whole_title"
      [] OTHER -> "description_only"]]
DescriptionOf == [r \in AllRows |->
    CASE r = Switching -> {vlan} [] r = Networks -> {lan} [] OTHER -> {}]
StepsOf == [r \in AllRows |->
    CASE r = Practice -> {lan} [] r = Switching -> {network} [] OTHER -> {}]
-----------------------------------------------------------------------------
Block(position, text) == [position |-> position, text |-> text]
TheEdits ==
    {{}, {Block(0, "one")}, {Block(0, "two"), Block(1, "three")}, {Block(0, "one"), Block(0, "three")}}
TheContextLists == {EmptyBag, SetToBag({"mission"})}
TheMarks == {[target |-> n1, version |-> Absent], [target |-> n1, version |-> 1]}
-----------------------------------------------------------------------------
TheUsers == {"sam", "fay", "una"}
OwnerOf ==
    [t \in {"sam2", "fay1", "fay2", "una2", "old"} |->
        CASE t = "sam2" -> "sam" [] t = "una2" -> "una" [] OTHER -> "fay"]
TheTokens == DOMAIN OwnerOf
AssuredTokens == TheTokens \ {"fay1"}
ValidTokens == TheTokens \ {"old"}
FirstRole == [u \in TheUsers |-> IF u = "sam" THEN "student" ELSE "founder_admin"]

Environment(appEnv, given, origins) ==
    [appEnv |-> appEnv, given |-> given, origins |-> origins, port |-> 3001]
TheEnvironments ==
    {Environment("development", Settings, {}), Environment("development", {}, {}),
     Environment("production", Settings, {"elsewhere"}), Environment("production", {}, {})}
-----------------------------------------------------------------------------
\* A part that does nothing starts in one state only.
BothInit ==
    /\ TurnInit /\ SearchInit /\ StudentNotesInit /\ HttpInit
    /\ half \in {"tutor", "search", "notes", "api"}
    /\ half # "tutor" => input = PlainInput
    /\ half # "api" => environment.appEnv = "development" /\ environment.given = Settings

BothNext ==
    \/ half = "tutor" /\ TurnNext /\ UNCHANGED <<half, searchVars, notesVars, httpVars>>
    \/ half = "search" /\ SearchNext /\ UNCHANGED <<half, turnVars, notesVars, httpVars>>
    \/ half = "notes" /\ StudentNotesNext /\ UNCHANGED <<half, turnVars, searchVars, httpVars>>
    \/ half = "api" /\ HttpNext /\ UNCHANGED <<half, turnVars, searchVars, notesVars>>

BothSpec ==
    BothInit /\ [][BothNext]_<<half, turnVars, searchVars, notesVars, httpVars>> /\ WF_turnVars(Progress)
=============================================================================

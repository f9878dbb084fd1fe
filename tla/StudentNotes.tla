---------------------------- MODULE StudentNotes ----------------------------
(***************************************************************************)
(* One student's private notes: their blocks, learning contexts and tags,  *)
(* and the student's bookmarks (services/api/src/notes.ts,                 *)
(* note-organization.ts, note-retrieval.ts, and the tables of migrations   *)
(* 20260812000500 to 20260812000700).                                      *)
(*                                                                         *)
(* Each query is a transaction of its own.  Blocks, contexts and tags are  *)
(* replaced by a query that deletes what is there and another that inserts *)
(* what was asked for, so the requests of two devices interleave between   *)
(* them, and a query may fail or the server stop after the first.          *)
(***************************************************************************)
EXTENDS Naturals, FiniteSets, Sequences, Bags

CONSTANTS
    Notes, Tags,        \* ids, each given once
    Names,              \* tag names, as normalised
    Edits,              \* what the blocks of a note may be replaced by
    ContextLists,       \* what the contexts of a note may be replaced by
    Contents,           \* title and body of a note
    Marks,              \* targets of bookmarks
    Requests,           \* requests that may be under way together
    MaxAsked,           \* bound: requests of several queries begun
    MaxBookmarks,       \* bound: bookmarks
    Unborn, Gone,       \* an id not given yet; one whose row was deleted
    Absent              \* no version of a bookmark; no contexts in an update

VARIABLES
    notes,              \* student_notes
    blocks, contexts, tagged,
                        \* student_note_blocks, _contexts, _tag_assignments
    tags,               \* student_note_tags
    bookmarks,          \* student_bookmarks
    call,               \* where each request stands
    asked               \* how many of several queries were begun

notesVars == <<notes, blocks, contexts, tagged, tags, bookmarks, call, asked>>
stored == <<notes, blocks, contexts, tagged, tags, bookmarks>>

Idle == [op |-> "idle"]

\* validateBlock: positions are natural numbers; the rest of its checks is
\* about texts.  Nothing asks that the positions of an edit differ.
ValidEdit(edit) == \A b \in edit : b.position \in Nat

StudentNotesConstants ==
    /\ \A edit \in Edits : ValidEdit(edit)
    /\ \A list \in ContextLists : IsABag(list)
    /\ \A m \in Marks : m.version = Absent \/ m.version \in Nat \ {0}
    /\ Unborn # Gone
    /\ Unborn \notin Names /\ Gone \notin Names /\ Absent \notin ContextLists
    /\ MaxAsked \in Nat /\ MaxBookmarks \in Nat

ASSUME StudentNotesAssumption == StudentNotesConstants

There(n) == notes[n] \notin {Unborn, Gone}
Live(t) == tags[t] \in Names

\* The fields of `call` are the variables its handler keeps across queries.
StudentNotesTypeOK ==
    /\ \A n \in Notes :
          /\ notes[n] \in {Unborn, Gone} \cup [text : Contents, pinned : BOOLEAN]
          /\ IsABag(contexts[n]) /\ tagged[n] \subseteq Tags
          /\ blocks[n] \subseteq UNION Edits
          /\ ~There(n) => blocks[n] = {} /\ contexts[n] = EmptyBag /\ tagged[n] = {}
    /\ \A t \in Tags : tags[t] \in Names \cup {Unborn, Gone}
    /\ IsABag(bookmarks) /\ BagToSet(bookmarks) \subseteq Marks
    /\ \A r \in Requests :
          \/ call[r] = Idle
          \/ /\ call[r].op \in {"blocks", "tags", "contexts"} /\ call[r].note \in Notes
             /\ call[r].step \in {"delete", "insert", "list"}
    /\ asked \in 0 .. MaxAsked

StudentNotesInit ==
    /\ notes = [n \in Notes |-> Unborn] /\ tags = [t \in Tags |-> Unborn]
    /\ blocks = [n \in Notes |-> {}] /\ tagged = [n \in Notes |-> {}]
    /\ contexts = [n \in Notes |-> EmptyBag] /\ bookmarks = EmptyBag
    /\ call = [r \in Requests |-> Idle] /\ asked = 0
-----------------------------------------------------------------------------
Starts(r, op, n, new) ==
    /\ call[r] = Idle /\ asked < MaxAsked
    /\ call' = [call EXCEPT ![r] = [op |-> op, note |-> n, new |-> new, step |-> "delete"]]
    /\ asked' = asked + 1

At(r, op, step) == call[r].op = op /\ call[r].step = step
GoesOn(r, step) == call' = [call EXCEPT ![r].step = step]
Ends(r) == call' = [call EXCEPT ![r] = Idle]

\* The query under way fails, the server stops, or the client goes: no query
\* that was answered is undone.
Fail(r) == call[r] # Idle /\ Ends(r) /\ UNCHANGED <<stored, asked>>
-----------------------------------------------------------------------------
\* replaceNoteBlocks, the read that verifies the note.  A note that is not
\* there, and with it every request refused without a write, changes nothing.
ReplaceBlocks(r, n, edit) ==
    There(n) /\ Starts(r, "blocks", n, edit) /\ UNCHANGED stored

DeleteBlocks(r) ==
    /\ At(r, "blocks", "delete")
    /\ blocks' = [blocks EXCEPT ![call[r].note] = {}]
    /\ GoesOn(r, IF call[r].new = {} THEN "list" ELSE "insert")
    /\ UNCHANGED <<notes, contexts, tagged, tags, bookmarks, asked>>

\* unique (note_id, position), of the rows there and of those inserted.
PositionsAreFree(rows) == \A b, c \in rows : b.position = c.position => b = c

\* Mutant: the blocks of a note have no unique position.
InsertBlocksAnywhere(r) ==
    LET n == call[r].note
    IN  /\ At(r, "blocks", "insert") /\ There(n)
        /\ blocks' = [blocks EXCEPT ![n] = @ \cup call[r].new]
        /\ GoesOn(r, "list")
        /\ UNCHANGED <<notes, contexts, tagged, tags, bookmarks, asked>>

\* The INSERT is one statement: all its rows, or an error and none.
InsertBlocks(r) ==
    LET n == call[r].note
    IN  /\ At(r, "blocks", "insert")
        /\ There(n) /\ blocks[n] \cap call[r].new = {}
        /\ PositionsAreFree(blocks[n] \cup call[r].new)
        /\ blocks' = [blocks EXCEPT ![n] = @ \cup call[r].new]
        /\ GoesOn(r, "list")
        /\ UNCHANGED <<notes, contexts, tagged, tags, bookmarks, asked>>

\* listNoteBlocks, which the client is told whoever wrote what it finds.
ListBlocks(r) == At(r, "blocks", "list") /\ Ends(r) /\ UNCHANGED <<stored, asked>>
-----------------------------------------------------------------------------
\* replaceNoteTags, its two reads: the note, and every tag asked for.  They are
\* one step, for neither notes nor tags come back once they are gone.
ReplaceTags(r, n, ts) ==
    /\ There(n) /\ \A t \in ts : Live(t)
    /\ Starts(r, "tags", n, ts) /\ UNCHANGED stored

DeleteTags(r) ==
    /\ At(r, "tags", "delete")
    /\ tagged' = [tagged EXCEPT ![call[r].note] = {}]
    /\ IF call[r].new = {} THEN Ends(r) ELSE GoesOn(r, "insert")
    /\ UNCHANGED <<notes, blocks, contexts, tags, bookmarks, asked>>

\* student_note_tag_assignments: its keys, and its policy for inserts.
Assignable(n, ts) == There(n) /\ (\A t \in ts : Live(t)) /\ tagged[n] \cap ts = {}

InsertTags(r) ==
    LET n == call[r].note
    IN  /\ At(r, "tags", "insert") /\ Assignable(n, call[r].new)
        /\ tagged' = [tagged EXCEPT ![n] = @ \cup call[r].new]
        /\ Ends(r)
        /\ UNCHANGED <<notes, blocks, contexts, tags, bookmarks, asked>>
-----------------------------------------------------------------------------
\* createStudentNote, its INSERT; replaceContexts follows, even with no contexts.
CreateNote(r, n, text, list) ==
    /\ notes[n] = Unborn
    /\ notes' = [notes EXCEPT ![n] = [text |-> text, pinned |-> FALSE]]
    /\ Starts(r, "contexts", n, list)
    /\ UNCHANGED <<blocks, contexts, tagged, tags, bookmarks>>

\* updateStudentNote: the UPDATE, then replaceContexts if contexts were sent.
UpdateNote(r, n, text, list) ==
    /\ There(n)
    /\ notes' = [notes EXCEPT ![n].text = text]
    /\ IF list = Absent
       THEN call[r] = Idle /\ UNCHANGED <<call, asked>>
       ELSE Starts(r, "contexts", n, list)
    /\ UNCHANGED <<blocks, contexts, tagged, tags, bookmarks>>

\* replaceContexts.  Its table has no key but its id: rows add up.
DeleteContexts(r) ==
    /\ At(r, "contexts", "delete")
    /\ contexts' = [contexts EXCEPT ![call[r].note] = EmptyBag]
    /\ IF call[r].new = EmptyBag THEN Ends(r) ELSE GoesOn(r, "insert")
    /\ UNCHANGED <<notes, blocks, tagged, tags, bookmarks, asked>>

InsertContexts(r) ==
    LET n == call[r].note
    IN  /\ At(r, "contexts", "insert") /\ There(n)
        /\ contexts' = [contexts EXCEPT ![n] = @ (+) call[r].new]
        /\ Ends(r)
        /\ UNCHANGED <<notes, blocks, tagged, tags, bookmarks, asked>>

\* deleteStudentNote.  The foreign keys take all but the bookmarks of the note.
DeleteNote(n) ==
    /\ There(n)
    /\ notes' = [notes EXCEPT ![n] = Gone]
    /\ blocks' = [blocks EXCEPT ![n] = {}] /\ tagged' = [tagged EXCEPT ![n] = {}]
    /\ contexts' = [contexts EXCEPT ![n] = EmptyBag]
    /\ UNCHANGED <<tags, bookmarks, call, asked>>

SetPinned(n, pinned) ==
    /\ There(n) /\ notes' = [notes EXCEPT ![n].pinned = pinned]
    /\ UNCHANGED <<blocks, contexts, tagged, tags, bookmarks, call, asked>>
-----------------------------------------------------------------------------
\* student_note_tags: unique (user_id, name).
NameIsFree(name) == \A t \in Tags : tags[t] # name

CreateTag(t, name) ==
    /\ tags[t] = Unborn /\ NameIsFree(name)
    /\ tags' = [tags EXCEPT ![t] = name]
    /\ UNCHANGED <<notes, blocks, contexts, tagged, bookmarks, call, asked>>

RenameTag(t, name) ==
    /\ Live(t) /\ (tags[t] = name \/ NameIsFree(name))
    /\ tags' = [tags EXCEPT ![t] = name]
    /\ UNCHANGED <<notes, blocks, contexts, tagged, bookmarks, call, asked>>

DeleteTag(t) ==
    /\ Live(t)
    /\ tags' = [tags EXCEPT ![t] = Gone]
    /\ tagged' = [n \in Notes |-> tagged[n] \ {t}]
    /\ UNCHANGED <<notes, blocks, contexts, bookmarks, call, asked>>
-----------------------------------------------------------------------------
\* unique (user_id, target_type, target_stable_id, target_version): rows
\* without a version are never equal.
MarkIsFree(m) == m.version = Absent \/ ~BagIn(m, bookmarks)

CreateBookmark(m) ==
    /\ BagCardinality(bookmarks) < MaxBookmarks /\ MarkIsFree(m)
    /\ bookmarks' = bookmarks (+) SetToBag({m})
    /\ UNCHANGED <<notes, blocks, contexts, tagged, tags, call, asked>>

DeleteBookmark(m) ==
    /\ BagIn(m, bookmarks)
    /\ bookmarks' = bookmarks (-) SetToBag({m})
    /\ UNCHANGED <<notes, blocks, contexts, tagged, tags, call, asked>>
-----------------------------------------------------------------------------
\* The routes of the server that change anything, and what follows them.
AskOfNotes(r) ==
    \E n \in Notes :
        \/ \E edit \in Edits : ReplaceBlocks(r, n, edit)
        \/ \E ts \in SUBSET Tags : ReplaceTags(r, n, ts)
        \/ \E text \in Contents, list \in ContextLists : CreateNote(r, n, text, list)
        \/ \E text \in Contents, list \in ContextLists \cup {Absent} : UpdateNote(r, n, text, list)

Continue(r) ==
    \/ DeleteBlocks(r) \/ InsertBlocks(r) \/ ListBlocks(r)
    \/ DeleteTags(r) \/ InsertTags(r)
    \/ DeleteContexts(r) \/ InsertContexts(r)
    \/ Fail(r)

AskAtOnce ==
    \/ \E n \in Notes : DeleteNote(n) \/ \E pinned \in BOOLEAN : SetPinned(n, pinned)
    \/ \E t \in Tags : DeleteTag(t) \/ \E name \in Names : CreateTag(t, name) \/ RenameTag(t, name)
    \/ \E m \in Marks : CreateBookmark(m) \/ DeleteBookmark(m)

StudentNotesNext == AskAtOnce \/ \E r \in Requests : AskOfNotes(r) \/ Continue(r)

StudentNotesSpec == StudentNotesInit /\ [][StudentNotesNext]_notesVars
-----------------------------------------------------------------------------
(* The blocks of a note are those of one edit the student asked for, whole, *)
(* or none: never a mix of two edits and never a part of one, however two   *)
(* devices save at once and whichever query fails.  This rests on the       *)
(* unique position: the second INSERT is refused where the first has put a  *)
(* block, as long as edits number their blocks alike.                       *)
BlocksAreOfOneEdit == \A n \in Notes : blocks[n] \in Edits \cup {{}}

\* Of contexts and tags the same does not hold: two replacements may both insert.
TagsAreOfOneEdit ==
    [][\A n \in Notes : tagged'[n] \subseteq tagged[n] \/ tagged[n] = {}]_notesVars

ContextsAreOfOneEdit == \A n \in Notes : contexts[n] \in ContextLists \cup {EmptyBag}
=============================================================================

--------------------------- MODULE CurriculumImport ---------------------------
(***************************************************************************)
(* Importing a curriculum document and moving learning paths through their *)
(* lifecycle (services/api/src/curriculum-import.ts, curriculum-current-   *)
(* state.ts, curriculum-admin.ts, curriculum-quality.ts).                  *)
(*                                                                         *)
(* First what an import of an authored document would do to what is        *)
(* stored: the pure planner of services/api/src/curriculum-reconciliation, *)
(* and what packages/shared-types/src/curriculum-document.ts demands of a  *)
(* document before anyone plans with it.  A document is a record of        *)
(*   nodes   stable ids in the order they are written: the learning path,  *)
(*           the course, modules, missions, competencies                   *)
(*   kind, parent, text, place   functions on the nodes; text stands for   *)
(*           title, description and minutes, place for the position among  *)
(*           siblings                                                      *)
(*   pieces  assets and steps, [mission, piece, text], assets first        *)
(*   links   <<mission, competency>>, all of them required                 *)
(*   edges   <<competency, competency it requires>>                        *)
(*   rules   prerequisite rules, [target, needs, text]                     *)
(* and what was read (cur) a record of found, children, pieces, links,     *)
(* edges and rules.                                                        *)
(*                                                                         *)
(* An import then reads what is stored, plans, and executes the plan, one  *)
(* round trip after the other and no transaction around them.  The plan    *)
(* becomes the list of round trips still to do (todo); each action takes   *)
(* the first of them.  Lifecycle transitions over HTTP run the same steps. *)
(***************************************************************************)
EXTENDS Naturals, Sequences, FiniteSets

CONSTANTS NoNode,   \* the parent of a learning path and of a competency
          Needs     \* [pieces -> assets it names]

NoId == <<NoNode, 0>>

\* A stable id that has no row.
NoRow == [version |-> 0, parent |-> NoId, text |-> "", place |-> 0, state |-> "none"]

NodesOf(doc) == {doc.nodes[i] : i \in DOMAIN doc.nodes}
OfKind(doc, kind) == {n \in NodesOf(doc) : doc.kind[n] = kind}
Members(seq) == {seq[i] : i \in DOMAIN seq}
PiecesOf(set, mission) == {p \in set : p.mission = mission}
LinksOf(set, mission) == {l \in set : l[1] = mission}

-----------------------------------------------------------------------------
(* validateDocumentIntegrity                                               *)

\* Every set of competencies has one that requires none of the set.
Acyclic(edges, competencies) ==
    \A S \in SUBSET competencies \ {{}} :
        \E k \in S : \A e \in edges : e[1] = k => e[2] \notin S

WellFormed(doc) ==
    LET modules == OfKind(doc, "module")
        missions == OfKind(doc, "mission")
        competencies == OfKind(doc, "competency")
        pieces == Members(doc.pieces)
        links == Members(doc.links)
        edges == Members(doc.edges)
    IN  /\ \A i, j \in DOMAIN doc.nodes : doc.nodes[i] = doc.nodes[j] => i = j
        /\ modules # {}
        /\ \A m \in modules : \E x \in missions : doc.parent[x] = m
        /\ \A x \in missions : doc.parent[x] \in modules
        /\ \A m, n \in modules \cup missions :
              doc.parent[m] = doc.parent[n] /\ doc.place[m] = doc.place[n] => m = n
        /\ \A l \in links : l[2] \in competencies
        /\ \A x \in missions : LinksOf(links, x) # {}
        /\ \A k \in competencies : \E l \in links : l[2] = k
        /\ \A p \in pieces : \A a \in Needs[p.piece] :
              \E q \in PiecesOf(pieces, p.mission) : q.piece = a
        /\ \A e \in edges : e[1] \in competencies /\ e[2] \in competencies
        /\ Acyclic(edges, competencies)
        /\ \A r \in Members(doc.rules) : r.target \in NodesOf(doc)

-----------------------------------------------------------------------------
(* planCurriculumReconciliation                                            *)

Refusing == {"conflict", "unsupported_removal"}

\* Not a draft: published, in review or retired curriculum is not revised in place.
Frozen(row) == row.version # 0 /\ row.state # "draft"

NodeAction(doc, cur, n) ==
    LET was == cur.found[n]
        hasParent == doc.parent[n] # NoNode /\ cur.found[doc.parent[n]].version # 0
        above == cur.found[doc.parent[n]]
    IN  CASE was.version = 0 ->
               IF hasParent /\ Frozen(above) THEN "conflict" ELSE "create"
          [] was.version # 0 /\ hasParent /\ was.parent # <<doc.parent[n], above.version>> ->
               "unsupported_removal"
          [] OTHER ->
               IF was.text = doc.text[n] /\ was.place = doc.place[n] THEN "reuse"
               ELSE IF Frozen(was) THEN "conflict" ELSE "update"

\* Stored children of a parent that the document no longer places there.
Orphans(doc, cur) ==
    {c \in cur.children : ~ (c[2] \in NodesOf(doc) /\ doc.parent[c[2]] = c[1])}

\* Content or links of one mission: what is authored, what is stored, and
\* whether something stored is no longer authored.
PartAction(row, authored, stored, dropped) ==
    CASE authored = stored -> "reuse"
      [] authored # stored /\ row.version = 0 -> "create"
      [] authored # stored /\ row.version # 0 /\ Frozen(row) -> "conflict"
      [] OTHER -> IF dropped THEN "unsupported_removal" ELSE "update"

ContentAction(doc, cur, mission) ==
    LET authored == PiecesOf(Members(doc.pieces), mission)
        kept == PiecesOf(cur.pieces, mission)
    IN  PartAction(cur.found[mission], authored, kept,
                   \E p \in kept : \A q \in authored : q.piece # p.piece)

LinkAction(doc, cur, mission) ==
    LET authored == LinksOf(Members(doc.links), mission)
        kept == LinksOf(cur.links, mission)
    IN  PartAction(cur.found[mission], authored, kept, ~ kept \subseteq authored)

EdgesAction(doc, cur) ==
    LET new == Members(doc.edges) \ cur.edges
    IN  CASE ~ cur.edges \subseteq Members(doc.edges) -> "unsupported_removal"
          [] cur.edges \subseteq Members(doc.edges)
             /\ \E e \in new : cur.found[e[1]].state = "published" -> "conflict"
          [] OTHER -> IF new = {} THEN "reuse" ELSE "create"

SameKey(r, s) == r.target = s.target /\ r.needs = s.needs

RuleAction(doc, cur, r) ==
    CASE r \in cur.rules -> "reuse"
      [] r \notin cur.rules /\ Frozen(cur.found[r.target]) -> "conflict"
      [] OTHER -> IF \E s \in cur.rules : SameKey(r, s) THEN "update" ELSE "create"

UnauthoredRules(doc, cur) ==
    {s \in cur.rules : \A r \in Members(doc.rules) : ~ SameKey(r, s)}

\* The action of every section of the plan.
Actions(doc, cur) ==
    {NodeAction(doc, cur, n) : n \in NodesOf(doc)}
    \cup {ContentAction(doc, cur, x) : x \in OfKind(doc, "mission")}
    \cup {LinkAction(doc, cur, x) : x \in OfKind(doc, "mission")}
    \cup {EdgesAction(doc, cur)}
    \cup {RuleAction(doc, cur, r) : r \in Members(doc.rules)}

PlanIsSafeToExecute(doc, cur) ==
    /\ Orphans(doc, cur) = {}
    /\ UnauthoredRules(doc, cur) = {}
    /\ Actions(doc, cur) \cap Refusing = {}

PlanRequiresWrites(doc, cur) == Actions(doc, cur) # {"reuse"}

-----------------------------------------------------------------------------
CONSTANTS Operators,   \* the command line and the request handlers
          Document,    \* the document that is imported
          Earlier,     \* an edition of it imported before
          Targets,     \* states that requests ask for
          Budget       \* bound: transitions begun, an import counting as two

States == {"draft", "review", "published", "retired"}

IsList(list) == list \in Seq(Members(list))

\* Every section of a document is a list, in the order an import goes through it:
\* a node after its parent, a mission's assets before the steps that name them.
InLists(doc) ==
    /\ IsList(doc.nodes) /\ IsList(doc.pieces) /\ IsList(doc.links)
    /\ IsList(doc.edges) /\ IsList(doc.rules)
    /\ Members(doc.links) \cup Members(doc.edges) \subseteq NodesOf(doc) \X NodesOf(doc)
    /\ \A i \in DOMAIN doc.nodes : doc.parent[doc.nodes[i]] # NoNode =>
          \E k \in 1..(i - 1) : doc.nodes[k] = doc.parent[doc.nodes[i]]
    /\ \A i \in DOMAIN doc.pieces : \A a \in Needs[doc.pieces[i].piece] :
          \E k \in 1..(i - 1) : /\ doc.pieces[k].mission = doc.pieces[i].mission
                                /\ doc.pieces[k].piece = a

ASSUME CurriculumImportAssumption ==
    /\ IsFiniteSet(Operators)
    /\ Budget \in Nat /\ Targets \subseteq States
    /\ WellFormed(Document) /\ WellFormed(Earlier)
    /\ NodesOf(Earlier) \subseteq NodesOf(Document)
    /\ InLists(Document) /\ InLists(Earlier)

VARIABLES
    rows,      \* [Nodes -> Seq(row)]: version v of a stable id is its v-th row
    pieces,    \* mission_steps and curriculum_assets, by mission row
    links,     \* mission_competencies: <<mission row, competency row>>
    edges,     \* competency_prerequisites: <<competency row, required row>>
    rules,     \* learning_prerequisite_rules, by stable ids
    job,       \* [Operators -> what the operator's command is at]
    spent      \* of the budget, on the jobs begun so far

curriculum == <<rows, pieces, links, edges, rules>>
vars == <<curriculum, job, spent>>

Nodes == NodesOf(Document)
Path == Document.nodes[1]

\* A row of a node table and its primary key.
Row == [parent : (Nodes \cup {NoNode}) \X Nat, text : STRING, place : Nat, state : States]
Ids == UNION {{<<n, v>> : v \in DOMAIN rows[n]} : n \in Nodes}
RowOf(id) == rows[id[1]][id[2]]
Under(ids) == {id \in Ids : RowOf(id).parent \in ids}

Blank == [found |-> [n \in Nodes |-> NoRow], children |-> {}, pieces |-> {}, links |-> {},
          edges |-> {}, rules |-> {}]
\* Outside the reading, nothing is kept of it.
Forgotten == [Blank EXCEPT !.found = <<>>]
NoIds == [n \in Nodes |-> 0]

NoJob(status) == [kind |-> "idle", publish |-> FALSE, todo |-> <<>>, cur |-> Forgotten,
                  ids |-> NoIds, number |-> 0, from |-> "none", status |-> status]

Statuses == {"none", "done", "refused", "failed", "stopped"}
Ops == {"find", "content", "children", "relations", "number", "insert", "update", "edge",
        "check", "link", "piece", "rule", "validate", "from", "publish", "move", "event"}

-----------------------------------------------------------------------------
(* What is stored, and the states an import may find it in                 *)

NewestOf(n) ==
    IF rows[n] = <<>> THEN NoRow
    ELSE LET v == Len(rows[n])
         IN  [version |-> v, parent |-> rows[n][v].parent, text |-> rows[n][v].text,
              place |-> rows[n][v].place, state |-> rows[n][v].state]

\* What the queries return, given the rows found by the earlier ones.
StoredContent(n, row) ==
    {[mission |-> n, piece |-> p.piece, text |-> p.text] :
        p \in {q \in pieces : q.mission = <<n, row.version>>}}
StoredChildren(found) ==
    {<<RowOf(id).parent[1], id[1]>> :
        id \in Under({<<n, found[n].version>> : n \in DOMAIN found})}
StoredPairs(found, pairs) ==
    {<<q[1][1], q[2][1]>> : q \in {p \in pairs : p[1][2] = found[p[1][1]].version}}

FirstRow(doc, n, state) ==
    [parent |-> IF doc.parent[n] = NoNode THEN NoId ELSE <<doc.parent[n], 1>>,
     text |-> doc.text[n], place |-> doc.place[n], state |-> state]

\* Everything the document says, stored as first versions.
Holds(doc, state) ==
    /\ rows = [n \in Nodes |-> IF n \in NodesOf(doc) THEN <<FirstRow(doc, n, state)>> ELSE <<>>]
    /\ pieces = {[mission |-> <<p.mission, 1>>, piece |-> p.piece, text |-> p.text] :
                    p \in Members(doc.pieces)}
    /\ links = {<<<<l[1], 1>>, <<l[2], 1>>>> : l \in Members(doc.links)}
    /\ edges = {<<<<e[1], 1>>, <<e[2], 1>>>> : e \in Members(doc.edges)}
    /\ rules = Members(doc.rules)

Empty ==
    /\ rows = [n \in Nodes |-> <<>>]
    /\ pieces = {} /\ links = {} /\ edges = {} /\ rules = {}

Init ==
    /\ Empty \/ Holds(Earlier, "draft") \/ Holds(Earlier, "published")
    /\ job = [o \in Operators |-> NoJob("none")]
    /\ spent = 0

-----------------------------------------------------------------------------
Head1(o) == Head(job[o].todo)
AtOp(o, op) == job[o].kind # "idle" /\ Head1(o).op = op

\* The round trip is done; the last one ends the job.
Next1(o, rest) ==
    job' = [job EXCEPT ![o] = IF Tail(rest.todo) = <<>> THEN NoJob("done")
                              ELSE [rest EXCEPT !.todo = Tail(@)]]
Advance(o) == Next1(o, job[o])
End(o, status) == job' = [job EXCEPT ![o] = NoJob(status)]

\* Either the write is accepted, or the statement or its guard raises an error.
Attempt(o, accepted, write) ==
    \/ accepted /\ write /\ Advance(o)
    \/ ~ accepted /\ UNCHANGED curriculum /\ End(o, "failed")

KeepStored == UNCHANGED <<curriculum, spent>>
IdOf(o, n) == <<n, job[o].ids[n]>>

\* The command is killed, or the database does not answer.
Stop(o) ==
    /\ job[o].kind # "idle"
    /\ End(o, "stopped")
    /\ KeepStored

-----------------------------------------------------------------------------
(* readCurrentCurriculumState                                              *)

Item(op, n) == [op |-> op, node |-> n]

\* A mission's content is read right after its row.
NodeQueries(n) ==
    IF Document.kind[n] = "mission" THEN <<Item("find", n), Item("content", n)>>
    ELSE <<Item("find", n)>>

\* The list of lists, one after the other.
Chain(lists) ==
    LET upTo[i \in 0..Len(lists)] == IF i = 0 THEN <<>> ELSE upTo[i - 1] \o lists[i]
    IN  upTo[Len(lists)]

Import(o, publish) ==
    /\ job[o].kind = "idle" /\ spent + 2 <= Budget
    /\ spent' = spent + 2
    /\ job' = [job EXCEPT ![o] =
           [NoJob("none") EXCEPT !.kind = "import", !.publish = publish, !.cur = Blank,
                !.todo = Chain([i \in DOMAIN Document.nodes |-> NodeQueries(Document.nodes[i])])
                         \o <<[op |-> "children"], [op |-> "relations"]>>]]
    /\ UNCHANGED curriculum

\* The newest version of a stable id.
Find(o) ==
    /\ AtOp(o, "find")
    /\ LET n == Head1(o).node
       IN  Next1(o, [job[o] EXCEPT !.cur.found[n] = NewestOf(n)])
    /\ KeepStored

Content(o) ==
    /\ AtOp(o, "content")
    /\ LET n == Head1(o).node
       IN  Next1(o, [job[o] EXCEPT !.cur.pieces =
                         @ \cup StoredContent(n, job[o].cur.found[n])])
    /\ KeepStored

\* Children of the path, the course and the modules that were found.
Children(o) ==
    /\ AtOp(o, "children")
    /\ Next1(o, [job[o] EXCEPT !.cur.children = StoredChildren(job[o].cur.found)])
    /\ KeepStored

-----------------------------------------------------------------------------
(* The plan as round trips: executeReconciliationPlan                      *)

NodeWrites(cur, n) ==
    CASE NodeAction(Document, cur, n) = "create" -> <<Item("number", n), Item("insert", n)>>
      [] NodeAction(Document, cur, n) = "update" -> <<Item("update", n)>>
      [] OTHER -> <<>>

EdgeWrites(cur, e) == IF e \in cur.edges THEN <<>> ELSE <<[op |-> "edge", edge |-> e]>>

\* All links of a mission whose links changed, each behind a look at the mission.
LinkWrites(cur, l) ==
    IF LinkAction(Document, cur, l[1]) = "reuse" THEN <<>>
    ELSE <<Item("check", l[1]), [op |-> "link", link |-> l]>>

PieceWrites(cur, p) ==
    IF ContentAction(Document, cur, p.mission) = "reuse" THEN <<>>
    ELSE <<Item("check", p.mission), [op |-> "piece", piece |-> p]>>

\* Mutant: steps before the assets they name.
ContentReversed(cur) ==
    LET last == Len(Document.pieces)
    IN  Chain([i \in 1..last |-> PieceWrites(cur, Document.pieces[last + 1 - i])])

ContentWrites(cur) ==
    Chain([i \in DOMAIN Document.pieces |-> PieceWrites(cur, Document.pieces[i])])

RuleWrites(cur, r) ==
    IF RuleAction(Document, cur, r) = "reuse" THEN <<>> ELSE <<[op |-> "rule", rule |-> r]>>

\* transitionLearningPathState: publishing validates first; every move is recorded.
Moves(to) ==
    <<[op |-> "from", to |-> to]>>
    \o (IF to = "published" THEN <<[op |-> "validate"], [op |-> "publish"]>>
        ELSE <<[op |-> "move", to |-> to]>>)
    \o <<[op |-> "event"]>>

Writes(cur) ==
    Chain([i \in DOMAIN Document.nodes |-> NodeWrites(cur, Document.nodes[i])])
    \o Chain([i \in DOMAIN Document.edges |-> EdgeWrites(cur, Document.edges[i])])
    \o Chain([i \in DOMAIN Document.links |-> LinkWrites(cur, Document.links[i])])
    \o ContentWrites(cur)
    \o Chain([i \in DOMAIN Document.rules |-> RuleWrites(cur, Document.rules[i])])

\* What is left once everything is read: a refusal, nothing, or the writes.
Relations(o) ==
    /\ AtOp(o, "relations")
    /\ LET found == job[o].cur.found
           cur == [job[o].cur EXCEPT !.links = StoredPairs(found, links),
                                     !.edges = StoredPairs(found, edges),
                                     !.rules = rules]
       IN  \/ /\ ~ PlanIsSafeToExecute(Document, cur)
              /\ End(o, "refused")
           \/ /\ PlanIsSafeToExecute(Document, cur)
              /\ ~ PlanRequiresWrites(Document, cur) /\ found[Path].state = "published"
              /\ End(o, "done")
           \/ /\ PlanIsSafeToExecute(Document, cur)
              /\ found[Path].state = "review"
              /\ End(o, "refused")
           \/ /\ PlanIsSafeToExecute(Document, cur)
              /\ found[Path].state # "review"
              /\ PlanRequiresWrites(Document, cur) \/ found[Path].state # "published"
              /\ job' = [job EXCEPT ![o] =
                     [@ EXCEPT !.cur = Forgotten,
                               !.ids = [n \in Nodes |-> found[n].version],
                               !.todo = Writes(cur) \o <<[op |-> "validate"]>>
                                        \o (IF job[o].publish
                                            THEN Moves("review") \o Moves("published")
                                            ELSE <<>>)]]
    /\ KeepStored

-----------------------------------------------------------------------------
(* The writers of curriculum-admin.ts and curriculum-quality.ts            *)

\* nextVersionFor
Number(o) ==
    /\ AtOp(o, "number")
    /\ Next1(o, [job[o] EXCEPT !.number = Len(rows[Head1(o).node]) + 1])
    /\ KeepStored

\* The unique constraint on parent and position, for the row id.
PlaceFree(id, parent, place) ==
    parent = NoId \/ \A other \in Under({parent}) \ {id} : RowOf(other).place # place

ParentOf(o, n) == IF Document.parent[n] = NoNode THEN NoId ELSE IdOf(o, Document.parent[n])

\* createDraftLearningPath and its four siblings: a new version, as a draft.
Insert(o) ==
    /\ AtOp(o, "insert")
    /\ LET n == Head1(o).node
           new == [parent |-> ParentOf(o, n), text |-> Document.text[n],
                   place |-> Document.place[n], state |-> "draft"]
       IN  \/ /\ job[o].number = Len(rows[n]) + 1
              /\ PlaceFree(NoId, new.parent, new.place)
              /\ rows' = [rows EXCEPT ![n] = Append(@, new)]
              /\ Next1(o, [job[o] EXCEPT !.ids[n] = job[o].number])
           \/ /\ job[o].number # Len(rows[n]) + 1 \/ ~ PlaceFree(NoId, new.parent, new.place)
              /\ UNCHANGED rows
              /\ End(o, "failed")
    /\ UNCHANGED <<pieces, links, edges, rules, spent>>

Revised(row, n) == [row EXCEPT !.text = Document.text[n], !.place = Document.place[n]]

\* Mutant: the UPDATE names the row by id alone.
UpdateAnyway(o) ==
    /\ AtOp(o, "update")
    /\ LET id == IdOf(o, Head1(o).node)
       IN  Attempt(o, PlaceFree(id, RowOf(id).parent, Document.place[id[1]]),
                   /\ rows' = [rows EXCEPT ![id[1]][id[2]] = Revised(@, id[1])]
                   /\ UNCHANGED <<pieces, links, edges, rules>>)
    /\ UNCHANGED spent

\* updateDraftLearningPath, updateDraftCurriculumNode: draft is part of the UPDATE.
Update(o) ==
    /\ AtOp(o, "update")
    /\ LET id == IdOf(o, Head1(o).node)
       IN  Attempt(o, /\ RowOf(id).state = "draft"
                      /\ PlaceFree(id, RowOf(id).parent, Document.place[id[1]]),
                   /\ rows' = [rows EXCEPT ![id[1]][id[2]] = Revised(@, id[1])]
                   /\ UNCHANGED <<pieces, links, edges, rules>>)
    /\ UNCHANGED spent

\* Mutant: dependent and requirement in the wrong order.
EdgeReversed(o) ==
    /\ AtOp(o, "edge")
    /\ LET e == Head1(o).edge
           new == <<IdOf(o, e[2]), IdOf(o, e[1])>>
       IN  Attempt(o, new \notin edges,
                   edges' = edges \cup {new} /\ UNCHANGED <<rows, pieces, links, rules>>)
    /\ UNCHANGED spent

\* addCompetencyPrerequisite: a plain INSERT.
Edge(o) ==
    /\ AtOp(o, "edge")
    /\ LET e == Head1(o).edge
           new == <<IdOf(o, e[1]), IdOf(o, e[2])>>
       IN  Attempt(o, new \notin edges,
                   edges' = edges \cup {new} /\ UNCHANGED <<rows, pieces, links, rules>>)
    /\ UNCHANGED spent

\* assertMissionIsDraft: a look before the write, and no more than that.
CheckDraft(o) ==
    /\ AtOp(o, "check")
    /\ Attempt(o, RowOf(IdOf(o, Head1(o).node)).state = "draft", UNCHANGED curriculum)
    /\ UNCHANGED spent

\* linkMissionCompetency
Link(o) ==
    /\ AtOp(o, "link")
    /\ LET l == Head1(o).link
       IN  links' = links \cup {<<IdOf(o, l[1]), IdOf(o, l[2])>>}
    /\ Advance(o)
    /\ UNCHANGED <<rows, pieces, edges, rules, spent>>

\* addMissionAsset, upsertMissionStep
Piece(o) ==
    /\ AtOp(o, "piece")
    /\ LET p == Head1(o).piece
           new == [mission |-> IdOf(o, p.mission), piece |-> p.piece, text |-> p.text]
       IN  pieces' = {q \in pieces : q.mission # new.mission \/ q.piece # new.piece} \cup {new}
    /\ Advance(o)
    /\ UNCHANGED <<rows, links, edges, rules, spent>>

\* upsertPrerequisiteRule: nobody looks at the target.
Rule(o) ==
    /\ AtOp(o, "rule")
    /\ LET r == Head1(o).rule
       IN  rules' = {s \in rules : ~ SameKey(r, s)} \cup {r}
    /\ Advance(o)
    /\ UNCHANGED <<rows, pieces, links, edges, spent>>

-----------------------------------------------------------------------------
(* Validation, publication and the other transitions                       *)

MissionsUnder(path) == Under(Under(Under({path})))

StoredPieces(id) == {p.piece : p \in {q \in pieces : q.mission = id}}

\* Every asset a step of the mission names is stored with the mission.
Resolves(id) == \A p \in StoredPieces(id) : Needs[p] \subseteq StoredPieces(id)

\* validateLearningPathForPublication, buildLearningPathQualityReport
Valid(path) ==
    /\ Under({path}) # {}
    /\ \A c \in Under({path}) : Under({c}) # {}
    /\ \A m \in Under(Under({path})) : Under({m}) # {}
    /\ \A x \in MissionsUnder(path) : (\E l \in links : l[1] = x) /\ Resolves(x)

Validate(o) ==
    /\ AtOp(o, "validate")
    /\ Attempt(o, Valid(IdOf(o, Path)), UNCHANGED curriculum)
    /\ UNCHANGED spent

\* isValidPublicationTransition
IsValidPublicationTransition(from, to) ==
    \/ from = to
    \/ from = "draft" /\ to \in {"review", "retired"}
    \/ from = "review" /\ to \in {"draft", "published", "retired"}
    \/ from = "published" /\ to = "retired"
    \/ from = "retired" /\ to = "draft"

\* POST .../learning-paths/:id/transition
Transition(o, version, to) ==
    /\ job[o].kind = "idle" /\ spent < Budget
    /\ version \in DOMAIN rows[Path]
    /\ spent' = spent + 1
    /\ job' = [job EXCEPT ![o] = [NoJob("none") EXCEPT !.kind = "transition", !.todo = Moves(to),
                                                       !.ids[Path] = version]]
    /\ UNCHANGED curriculum

From(o) ==
    /\ AtOp(o, "from")
    /\ Attempt(o, IsValidPublicationTransition(RowOf(IdOf(o, Path)).state, Head1(o).to),
               UNCHANGED curriculum)
    /\ UNCHANGED spent

\* curriculum_publish_learning_path_tree: one transaction, whatever the states were.
TreeOf(path) ==
    {path} \cup Under({path}) \cup Under(Under({path})) \cup MissionsUnder(path)
    \cup {l[2] : l \in {k \in links : k[1] \in MissionsUnder(path)}}

Publish(o) ==
    /\ AtOp(o, "publish")
    /\ LET tree == TreeOf(IdOf(o, Path))
       IN  rows' = [n \in Nodes |-> [v \in DOMAIN rows[n] |->
                       IF <<n, v>> \in tree THEN [rows[n][v] EXCEPT !.state = "published"]
                       ELSE rows[n][v]]]
    /\ Advance(o)
    /\ UNCHANGED <<pieces, links, edges, rules, spent>>

\* The UPDATE of the path names it by id alone.
Move(o) ==
    /\ AtOp(o, "move")
    /\ rows' = [rows EXCEPT ![Path][job[o].ids[Path]].state = Head1(o).to]
    /\ Advance(o)
    /\ UNCHANGED <<pieces, links, edges, rules, spent>>

\* The row of curriculum_publication_events, which nothing reads back.
Event(o) ==
    /\ AtOp(o, "event")
    /\ Advance(o)
    /\ KeepStored

Next ==
    \E o \in Operators :
        \/ \E publish \in BOOLEAN : Import(o, publish)
        \/ \E version \in 1..Len(rows[Path]), to \in Targets : Transition(o, version, to)
        \/ Find(o) \/ Content(o) \/ Children(o) \/ Relations(o)
        \/ Number(o) \/ Insert(o) \/ Update(o) \/ Edge(o)
        \/ CheckDraft(o) \/ Link(o) \/ Piece(o) \/ Rule(o)
        \/ Validate(o) \/ From(o) \/ Publish(o) \/ Move(o) \/ Event(o)
        \/ Stop(o)

Spec == Init /\ [][Next]_vars

-----------------------------------------------------------------------------
TypeOK ==
    /\ rows \in [Nodes -> Seq(Row)]
    /\ \A p \in pieces : p.mission \in Ids /\ p.piece \in DOMAIN Needs /\ p.text \in STRING
    /\ links \subseteq Ids \X Ids
    /\ edges \subseteq Ids \X Ids
    /\ \A r \in rules : r.target \in Nodes
    /\ \A o \in Operators :
          /\ job[o].kind \in {"idle", "import", "transition"}
          /\ job[o].status \in {"none", "done", "refused", "failed", "stopped"}
          /\ \A i \in DOMAIN job[o].todo : job[o].todo[i].op \in Ops
          /\ \A n \in Nodes : job[o].ids[n] \in 0..Len(rows[n])
    /\ spent \in 0..Budget

\* Published curriculum is never revised in place: a row keeps its text, its place and
\* its parent from every moment it is published to the next, however imports and
\* transitions interleave (updateDraftCurriculumNode: the guard is part of the UPDATE).
PublishedNodesStay ==
    [][\A id \in Ids : RowOf(id).state = "published" =>
          rows'[id[1]][id[2]] = [RowOf(id) EXCEPT !.state = rows'[id[1]][id[2]].state]]_vars

\* Wherever an import is cut off, no stored step names an asset that is not stored with
\* its mission (executeReconciliationPlan: assets before steps).
ReferencesResolve ==
    \A n \in OfKind(Document, "mission") : \A v \in DOMAIN rows[n] : Resolves(<<n, v>>)

Current ==
    LET found == [n \in Nodes |-> NewestOf(n)]
    IN  [found |-> found,
         children |-> StoredChildren(found),
         pieces |-> UNION {StoredContent(n, found[n]) : n \in OfKind(Document, "mission")},
         links |-> StoredPairs(found, links),
         edges |-> StoredPairs(found, edges),
         rules |-> rules]

OneVersionEach == \A n \in Nodes : Len(rows[n]) <= 1
AllDrafts == \A id \in Ids : RowOf(id).state = "draft"

\* Whatever an import cut off anywhere leaves is inspectable and re-importable: the next
\* plan for the document is safe.  Two imports that both found nothing may store two
\* versions of one stable id, which no later plan accepts; nothing else does.
Reimportable == OneVersionEach /\ AllDrafts => PlanIsSafeToExecute(Document, Current)

\* An import that reports success leaves nothing for another run to do, even if the rows
\* were read and written while other imports and transitions ran.
ReportedIsStored ==
    [][\A o \in Operators :
          /\ job[o].kind = "import" /\ job'[o].status = "done"
          /\ OneVersionEach'
          => ~ PlanRequiresWrites(Document, Current)']_vars

\* An import that runs alone is not turned away by the database
\* (publish-curriculum.ts: re-running is safe and converges).
PlannedWritesLand == \A o \in Operators : job[o].status # "failed"
=============================================================================

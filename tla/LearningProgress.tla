--------------------------- MODULE LearningProgress ---------------------------
(***************************************************************************)
(* A student's progress through the published missions of a path: starting *)
(* and completing missions (services/api/src/learning-progress.ts,         *)
(* learning-navigation.ts, and record_mission_progress of migration        *)
(* 20260829000100) from several tabs at once, and being told what to do    *)
(* next (learning-guidance.ts, and the course page), while missions are    *)
(* published and retired and requirements are satisfied elsewhere.         *)
(*                                                                         *)
(* First the pure rules of the Learning Engine (packages/shared-types/src/ *)
(* learning.ts, learning-navigation.ts, learning-guidance.ts) and what the *)
(* course page makes of them (apps/web/src/learning/                       *)
(* roas-course-presentation.ts).  A tree is a sequence of courses, each a  *)
(* sequence of modules, each a sequence of missions.  Rows tell of every   *)
(* mission what is recorded of it; the time 0 stands for none.  Only two   *)
(* states are ever written.                                                *)
(*                                                                         *)
(* Every action of a request is one round trip or one statement of its     *)
(* transaction.                                                            *)
(***************************************************************************)
EXTENDS Naturals, Sequences, SequencesExt, FiniteSetsExt

CONSTANT NoMission

ProgressState == {"not_started", "in_progress", "completed"}

NoRow == [state |-> "not_started", started |-> 0, completed |-> 0, active |-> 0]

\* aggregateState
Combined(states) ==
    IF states = <<>> THEN "not_started"
    ELSE IF \A i \in DOMAIN states : states[i] = "completed" THEN "completed"
    ELSE IF \E i \in DOMAIN states : states[i] # "not_started" THEN "in_progress"
    ELSE "not_started"

\* missionOrder
MissionOrder(tree) == FlattenSeq(FlattenSeq(tree))

Each(Op(_), seq) == [i \in DOMAIN seq |-> Op(seq[i])]

\* aggregateLearningPathProgress
Summary(tree, rows) ==
    LET StateOf(mission) == rows[mission].state
        OfModule(module) == Combined(Each(StateOf, module))
        OfCourse(course) == Combined(Each(OfModule, course))
        order == MissionOrder(tree)
    IN  [state |-> Combined(Each(OfCourse, tree)),
         completed |-> Cardinality({i \in DOMAIN order : StateOf(order[i]) = "completed"}),
         total |-> Len(order)]

Target(reason, mission) == [reason |-> reason, mission |-> mission]

\* selectResumeTarget: the mission worked on last, else the one after the last
\* completed, else the first that is not completed.
SelectResumeTarget(tree, rows) ==
    LET order == MissionOrder(tree)
        active == {i \in DOMAIN order : rows[order[i]].state = "in_progress"}
        done == {i \in DOMAIN order : rows[order[i]].state = "completed"}
        todo == DOMAIN order \ done
        next == IF done = {} THEN 0 ELSE Max(done) + 1
    IN  IF active # {}
        THEN LET latest == CHOOSE i \in active : \A j \in active :
                               rows[order[j]].active <= rows[order[i]].active
             IN  Target("resume_in_progress", order[latest])
        ELSE IF next \in todo THEN Target("next_after_completed", order[next])
        ELSE IF todo # {} THEN Target("first_incomplete", order[Min(todo)])
        ELSE Target("path_complete", NoMission)

\* Mutant: a mission that comes next is told as one that was begun.
RecommendContinue(resume) ==
    [mission |-> resume.mission,
     action |-> CASE resume.reason = "path_complete" -> "path_complete"
                  [] resume.reason = "first_incomplete" -> "start_mission"
                  [] OTHER -> "continue_mission"]

\* recommendNextAction.  No competency is ever in need of review (nobody forces
\* it), and the prerequisite evaluation it could heed is not supplied.
RecommendNextAction(resume) ==
    [mission |-> resume.mission,
     action |-> CASE resume.reason = "path_complete" -> "path_complete"
                  [] resume.reason = "resume_in_progress" -> "continue_mission"
                  [] OTHER -> "start_mission"]

Unanswered == [mission |-> NoMission, action |-> "unknown"]

\* resolveContinueTarget: guidance wins over the resume point, which is offered
\* as a start, and a mission the course does not have is not offered.
Offer(recommended, resume, known) ==
    LET candidate ==
            IF recommended # Unanswered THEN recommended
            ELSE IF resume # Unanswered THEN [resume EXCEPT !.action = "start_mission"]
            ELSE Unanswered
    IN  IF candidate.action = "path_complete" /\ recommended # Unanswered THEN candidate
        ELSE IF candidate.mission \in known THEN candidate
        ELSE Unanswered

\* evaluatePrerequisiteRules, on what could be read.
Evaluate(content, external, completed, satisfied) ==
    content \subseteq completed /\ external \subseteq satisfied

-----------------------------------------------------------------------------
CONSTANTS
    Tree,           \* all courses of the path, whether published or not
    Needs,          \* [Missions -> SUBSET Missions]: content completion rules
    Requires,       \* [Missions -> SUBSET Requirements]: rules on other authorities
    Requirements,
    Known,          \* missions the page's course has
    Requests,       \* recording requests that may be under way at once
    Nobody,         \* a row lock that is not held
    Moving,         \* bound: missions that are retired and published again
    MaxClock        \* bound: transactions begun

Missions == ToSet(MissionOrder(Tree))
Guides == {"next", "resume"}

ASSUME LearningAssumption ==
    /\ Tree \in Seq(Seq(Seq(Missions)))
    /\ Cardinality(Missions) = Len(MissionOrder(Tree))
    /\ Needs \in [Missions -> SUBSET Missions]
    /\ Requires \in [Missions -> SUBSET Requirements]
    /\ NoMission \notin Missions
    /\ Known \subseteq Missions /\ Moving \subseteq Missions
    /\ Nobody \notin Requests
    /\ MaxClock \in Nat

VARIABLES
    published,      \* missions with a published version
    satisfied,      \* learning_requirement_satisfactions of the student
    progress,       \* [Missions -> row of student_learning_progress]
    events,         \* [Missions -> student_learning_progress_events], a set: what
                    \* is stored of an event has no order but that of its time
    lock,           \* [Missions -> Requests \cup {Nobody}]: the row lock
    clock,          \* the database's clock
    req,            \* [Requests -> recording request]
    guide,          \* [Guides -> reading of guidance by the course page]
    ever, always    \* [Missions -> facts true at some, at every moment of that reading]

recordVars == <<progress, events, lock, clock, req>>
vars == <<published, satisfied, recordVars, guide, ever, always>>

Idle == [step |-> "idle"]
NoFacts == [m \in Missions |-> {}]

Row == [state : ProgressState, started : 0..MaxClock, completed : 0..MaxClock,
        active : 0..MaxClock]

\* An event carries the time its transaction began (occurred_at = now_at), and
\* "not_started" where it saw no row.
Event == [from : ProgressState, to : ProgressState, at : 1..MaxClock]

Request ==
    {Idle}
    \cup [step : {"content", "external", "begin"},
          mission : Missions, action : {"start", "complete"}]
    \cup [step : {"look"}, mission : Missions, action : {"start", "complete"},
          now : 1..MaxClock]
    \cup [step : {"write"}, mission : Missions, action : {"start", "complete"},
          now : 1..MaxClock, seen : ProgressState]

TypeOK ==
    /\ published \subseteq Missions
    /\ satisfied \subseteq Requirements
    /\ progress \in [Missions -> Row]
    /\ events \in [Missions -> SUBSET Event]
    /\ lock \in [Missions -> Requests \cup {Nobody}]
    /\ clock \in 0..MaxClock
    /\ req \in [Requests -> Request]
    /\ DOMAIN guide = Guides
    /\ ever \in [Missions -> SUBSET {"published", "open", "active"}]
    /\ always \in [Missions -> SUBSET {"published", "open", "active"}]

Init ==
    /\ published = Missions
    /\ satisfied = {}
    /\ progress = [m \in Missions |-> NoRow]
    /\ events = [m \in Missions |-> {}]
    /\ lock = [m \in Missions |-> Nobody]
    /\ clock = 0
    /\ req = [r \in Requests |-> Idle]
    /\ guide = [g \in Guides |-> Idle]
    /\ ever = NoFacts /\ always = NoFacts

HasRow(m) == progress[m] # NoRow
Completed == {m \in Missions : progress[m].state = "completed"}

At(r, step) == req[r].step = step
GoTo(r, step) == req' = [req EXCEPT ![r].step = step]
End(r) == req' = [req EXCEPT ![r] = Idle]
KeepRows == UNCHANGED <<progress, events, lock, clock>>
KeepRest == UNCHANGED <<published, satisfied, guide>>

-----------------------------------------------------------------------------
\* evaluateMissionPrerequisites reads the rules, which do not change here, then
\* the student's progress if a rule asks for it, then the satisfactions if a
\* rule asks for them.
AfterContent(m) == IF Requires[m] # {} THEN "external" ELSE "begin"

Ask(r, m, action) ==
    /\ req[r] = Idle
    /\ clock < MaxClock
    /\ req' = [req EXCEPT ![r] =
                [step |-> IF Needs[m] # {} THEN "content" ELSE AfterContent(m),
                 mission |-> m, action |-> action]]
    /\ KeepRows /\ KeepRest

\* Mutant: work on a prerequisite counts as its completion.
ReadContentStarted(r) ==
    /\ At(r, "content")
    /\ IF \A m \in Needs[req[r].mission] : HasRow(m)
       THEN GoTo(r, AfterContent(req[r].mission)) ELSE End(r)
    /\ KeepRows /\ KeepRest

ReadContent(r) ==
    /\ At(r, "content")
    /\ IF Evaluate(Needs[req[r].mission], {}, Completed, {})
       THEN GoTo(r, AfterContent(req[r].mission)) ELSE End(r)
    /\ KeepRows /\ KeepRest

ReadSatisfactions(r) ==
    /\ At(r, "external")
    /\ IF Evaluate({}, Requires[req[r].mission], {}, satisfied)
       THEN GoTo(r, "begin") ELSE End(r)
    /\ KeepRows /\ KeepRest

-----------------------------------------------------------------------------
\* record_mission_progress.  now() is when the transaction began.
Begin(r) ==
    /\ At(r, "begin")
    /\ clock < MaxClock
    /\ IF req[r].mission \in published
       THEN /\ clock' = clock + 1
            /\ req' = [req EXCEPT ![r] = [step |-> "look", mission |-> @.mission,
                                          action |-> @.action, now |-> clock + 1]]
       ELSE End(r) /\ UNCHANGED clock
    /\ UNCHANGED <<progress, events, lock>>
    /\ KeepRest

Looked(r) ==
    req' = [req EXCEPT ![r] = [step |-> "write", mission |-> @.mission, action |-> @.action,
                               now |-> @.now, seen |-> progress[@.mission].state]]

\* Mutant: the row is read without FOR UPDATE.
LookUnlocked(r) ==
    /\ At(r, "look")
    /\ Looked(r)
    /\ KeepRows /\ KeepRest

\* SELECT ... FOR UPDATE waits for the lock of a row and takes it; where there
\* is no row yet, there is nothing to lock.
Look(r) ==
    LET m == req[r].mission IN
    /\ At(r, "look")
    /\ lock[m] = Nobody
    /\ Looked(r)
    /\ lock' = IF HasRow(m) THEN [lock EXCEPT ![m] = r] ELSE lock
    /\ UNCHANGED <<progress, events, clock>>
    /\ KeepRest

NextState(seen, action) ==
    IF action = "complete" \/ seen = "completed" THEN "completed" ELSE "in_progress"

First(old, new) == IF old # 0 THEN old ELSE new

Upserted(row, state, now) ==
    [state |-> state,
     started |-> First(row.started, now),
     completed |-> IF state = "completed" THEN First(row.completed, now) ELSE row.completed,
     active |-> now]

\* The upsert waits for whoever holds the row.  The event is written when what
\* was seen differs from what is written, and all of it commits together.
Write(r) ==
    LET m == req[r].mission
        state == NextState(req[r].seen, req[r].action)
    IN  /\ At(r, "write")
        /\ lock[m] \in {Nobody, r}
        /\ progress' = [progress EXCEPT ![m] = Upserted(@, state, req[r].now)]
        /\ events' = IF state = req[r].seen THEN events
                     ELSE [events EXCEPT ![m] = @ \cup
                             {[from |-> req[r].seen, to |-> state, at |-> req[r].now]}]
        /\ lock' = [lock EXCEPT ![m] = Nobody]
        /\ End(r)
        /\ UNCHANGED clock
        /\ KeepRest

\* A read fails, or the transaction is cut off and rolled back.
Lose(r) ==
    /\ req[r] # Idle
    /\ lock' = [m \in Missions |-> IF lock[m] = r THEN Nobody ELSE lock[m]]
    /\ End(r)
    /\ UNCHANGED <<progress, events, clock>>
    /\ KeepRest

-----------------------------------------------------------------------------
\* The course page, when it is opened, asks for the next action and for the
\* resume point.  Each reads the published tree module by module, then the
\* student's rows.
Modules == FlattenSeq(Tree)

LoadGuidance ==
    /\ \A g \in Guides : guide[g] = Idle
    /\ guide' = [g \in Guides |-> [step |-> "tree", read |-> {}, unread |-> DOMAIN Modules]]
    /\ UNCHANGED <<published, satisfied, recordVars>>

\* getPublishedLearningPathTree asks for all modules at once; the answers come
\* from different moments, in any order.
ReadModule(g, i) ==
    LET here == ToSet(Modules[i]) \cap published IN
    /\ guide[g].step = "tree"
    /\ i \in guide[g].unread
    /\ guide' = [guide EXCEPT ![g] = [step |-> "tree", read |-> @.read \cup here,
                                      unread |-> @.unread \ {i}]]
    /\ UNCHANGED <<published, satisfied, recordVars>>

\* The tree of the missions that were found, in the order of the path.
Found(module, there) ==
    FlattenSeq([i \in DOMAIN module |-> IF module[i] \in there THEN <<module[i]>> ELSE <<>>])

TreeOf(there) ==
    [c \in DOMAIN Tree |-> [k \in DOMAIN Tree[c] |-> Found(Tree[c][k], there)]]

Told(g, resume) ==
    IF g = "next" THEN RecommendNextAction(resume)
    ELSE [mission |-> resume.mission, action |-> resume.reason]

ReadRows(g) ==
    /\ guide[g].step = "tree"
    /\ guide[g].unread = {}
    /\ guide' = [guide EXCEPT ![g] =
                    [step |-> "told",
                     answer |-> Told(g, SelectResumeTarget(TreeOf(guide[g].read), progress))]]
    /\ UNCHANGED <<published, satisfied, recordVars>>

\* A guide that fails leaves its answer unknown.
GuideFails(g) ==
    /\ guide[g].step = "tree"
    /\ guide' = [guide EXCEPT ![g] = [step |-> "told", answer |-> Unanswered]]
    /\ UNCHANGED <<published, satisfied, recordVars>>

Settled == \A g \in Guides : guide[g].step = "told"

\* What the page offers once both have settled.
Offered == Offer(guide["next"].answer, guide["resume"].answer, Known)

Leave ==
    /\ Settled
    /\ guide' = [g \in Guides |-> Idle]
    /\ UNCHANGED <<published, satisfied, recordVars>>

-----------------------------------------------------------------------------
\* Publication, and what readiness records (satisfyReadiness and competencies).
PublishMission(m) ==
    /\ published' = published \cup {m}
    /\ UNCHANGED <<satisfied, recordVars, guide>>

RetireMission(m) ==
    /\ published' = published \ {m}
    /\ UNCHANGED <<satisfied, recordVars, guide>>

Satisfy(q) ==
    /\ satisfied' = satisfied \cup {q}
    /\ UNCHANGED <<published, recordVars, guide>>

Record(r) ==
    \/ \E m \in Missions, action \in {"start", "complete"} : Ask(r, m, action)
    \/ ReadContent(r) \/ ReadSatisfactions(r)
    \/ Begin(r) \/ Look(r) \/ Write(r)
    \/ Lose(r)

Guidance ==
    \/ LoadGuidance
    \/ \E g \in Guides :
        \/ \E i \in DOMAIN Modules : ReadModule(g, i)
        \/ ReadRows(g) \/ GuideFails(g)
    \/ Leave

Step ==
    \/ \E r \in Requests : Record(r)
    \/ Guidance
    \/ \E m \in Moving : PublishMission(m) \/ RetireMission(m)
    \/ \E q \in Requirements : Satisfy(q)

\* What is true of a mission, for the properties to compare an answer with.
Facts(m) ==
    {f \in {"published", "open", "active"} :
        CASE f = "published" -> m \in published
          [] f = "open" -> progress[m].state # "completed"
          [] f = "active" -> progress[m].state = "in_progress"}

Reading == \A g \in Guides : guide[g] # Idle

Witnessed ==
    LET seen == [m \in Missions |-> Facts(m)'] IN
    /\ ever' = IF ~Reading' THEN NoFacts
               ELSE [m \in Missions |-> ever[m] \cup seen[m]]
    /\ always' = IF ~Reading' THEN NoFacts
                 ELSE IF ~Reading THEN seen
                 ELSE [m \in Missions |-> always[m] \cap seen[m]]

Next == Step /\ Witnessed

Spec == Init /\ [][Next]_vars

-----------------------------------------------------------------------------
\* Nothing is recorded of a mission before what it builds on was completed and
\* every other requirement was satisfied, whatever two tabs do at once.
StartedIsEntitled ==
    \A m \in Missions : HasRow(m) =>
        /\ \A n \in Needs[m] : progress[n].completed # 0
        /\ Requires[m] \subseteq satisfied

\* An order of events, each from what the one before it made of the mission, or
\* from no row seen, that makes the row what it is: begun by the first event,
\* completed by the first completion, in the state of the last event.
Explains(order, row) ==
    /\ order = << >> => row = NoRow
    /\ \A i \in DOMAIN order :
          \/ order[i].from = "not_started"
          \/ i > 1 /\ order[i].from = order[i - 1].to
    /\ order # << >> =>
          row.started = order[1].at /\ row.state = order[Len(order)].to
    /\ \/ row.completed = 0 /\ \A i \in DOMAIN order : order[i].to # "completed"
       \/ \E i \in DOMAIN order :
             /\ order[i].to = "completed" /\ row.completed = order[i].at
             /\ \A k \in 1..(i - 1) : order[k].to # "completed"

\* The events of a mission account for its row, each of them once: no event is
\* missing and none is told twice, though each depends on what a transaction
\* saw before it wrote, and two may have seen the same.
HistoryExplainsRow ==
    \A m \in Missions : \E order \in SetToSeqs(events[m]) : Explains(order, progress[m])

\* The latest event by the time it is stored with tells the state of the row.
\* Not so: a start that began after a completion may write before it.
HistoryEndsInState ==
    \A m \in Missions : \A e \in events[m] :
        (\A f \in events[m] : f.at <= e.at) => e.to = progress[m].state

\* What the course page offers was right while it asked: the mission was there
\* and not completed, one to continue was being worked on, and nobody is told
\* that the path is complete, or to start something, over a mission that stood
\* open, or in progress, all the time.  Guidance comes from reads of different
\* moments, while both the tree and the progress change.
OfferIsTrue ==
    Settled =>
        /\ Offered.mission # NoMission =>
            {"published", "open"} \subseteq ever[Offered.mission]
        /\ Offered.action = "continue_mission" => "active" \in ever[Offered.mission]
        /\ Offered.action = "start_mission" /\ guide["next"].answer # Unanswered =>
            \A m \in Missions : ~({"published", "active"} \subseteq always[m])
        /\ Offered.action = "path_complete" =>
            \A m \in Missions : ~({"published", "open"} \subseteq always[m])

\* A completed mission is not put back to being in progress.
NoRegression ==
    [][\A m \in Missions :
        progress[m].state = "completed" => progress'[m].state = "completed"]_vars

\* A mission that may be offered as a start can be started.
OfferCanBeStarted ==
    Settled /\ Offered.action = "start_mission" =>
        \E n \in {Offered.mission} :
            /\ \A k \in Needs[n] : "open" \notin always[k]
            /\ Requires[n] \subseteq satisfied
=============================================================================

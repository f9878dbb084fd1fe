------------------------ MODULE LearningProofs --------------------------
(***************************************************************************)
(* Theorems about a learner's progress and a mission's lesson.             *)
(*                                                                         *)
(* LearningProgress: however many tabs record at once, and whatever is     *)
(* published, retired or satisfied meanwhile, nothing is begun before what *)
(* it builds on, the events account for the record, and what the course    *)
(* page offers was there to be offered while the page was loaded.          *)
(*                                                                         *)
(* MissionLesson: whatever answers are in flight or late, and whatever is  *)
(* released meanwhile, a lesson is of the open mission, its verdicts are   *)
(* of its version, only what it requires lets a completion out, and it is  *)
(* stuck only where its author stops the traffic and nothing leads on.     *)
(***************************************************************************)
EXTENDS LearningProgress, MissionLesson, FiniteSetTheorems, WellFoundedInduction, TLAPS

Action == {"start", "complete"}

\* A request that has passed the evaluation of content rules, and of the rules
\* on other authorities.
PastContent == {"external", "begin", "look", "write"}
PastEvaluation == {"begin", "look", "write"}

\* A completed mission has a time of completion.
RowsAreDated ==
    \A m \in Missions : progress[m].state = "completed" => progress[m].completed # 0

\* What a request found satisfied is still so: neither completion times nor
\* satisfactions are ever taken back.
EvaluationHolds ==
    \A r \in Requests :
        /\ req[r].step \in PastContent =>
              \A n \in Needs[req[r].mission] : progress[n].completed # 0
        /\ req[r].step \in PastEvaluation => Requires[req[r].mission] \subseteq satisfied

\* What a request saw of a row is still so when it writes, because it holds the
\* row's lock; where there was no row to lock it saw that nothing was started.
SeenIsLocked ==
    \A r \in Requests :
        At(r, "write") /\ req[r].seen # "not_started" =>
            /\ lock[req[r].mission] = r
            /\ progress[req[r].mission].state = req[r].seen

\* No two transactions began at once, so a request under way will write an event
\* that is not stored yet.
Dated(r) == req[r].step \in {"look", "write"}

EventsAreFresh ==
    /\ \A r \in Requests : Dated(r) => req[r].now <= clock
    /\ \A r, o \in Requests : Dated(r) /\ Dated(o) /\ r # o => req[r].now # req[o].now
    /\ \A m \in Missions : IsFiniteSet(events[m])
    /\ \A m \in Missions : \A e \in events[m] :
          e.at <= clock /\ \A r \in Requests : Dated(r) => e.at # req[r].now

Inv == TypeOK /\ RowsAreDated /\ EvaluationHolds /\ SeenIsLocked
        /\ StartedIsEntitled /\ EventsAreFresh /\ HistoryExplainsRow

-----------------------------------------------------------------------------
\* Which fields a request carries, by its step.
LEMMA RequestParts ==
    ASSUME NEW q \in Request
    PROVE  /\ q # Idle => q.mission \in Missions /\ q.action \in Action
           /\ q.step \in {"look", "write"} => q.now \in 1..MaxClock
           /\ q.step = "write" => q.seen \in ProgressState
           /\ q = Idle <=> q.step = "idle"
BY DEF Request, Idle, Action

LEMMA UpsertedRow ==
    ASSUME NEW row \in Row, NEW state \in ProgressState, NEW now \in 1..MaxClock
    PROVE  /\ Upserted(row, state, now) \in Row
           /\ Upserted(row, state, now).state = state
           /\ state = "completed" => Upserted(row, state, now).completed # 0
           /\ row.completed # 0 => Upserted(row, state, now).completed = row.completed
BY DEF Upserted, First, Row

LEMMA TypeInit == Init => TypeOK
<1> SUFFICES ASSUME Init PROVE TypeOK
  OBVIOUS
<1>1. NoRow \in Row
  BY LearningAssumption DEF NoRow, Row, ProgressState
<1>2. "not_started" \in ProgressState /\ Idle \in Request
  BY DEF ProgressState, Request
<1>3. NoFacts \in [Missions -> SUBSET {"published", "open", "active"}]
  BY DEF NoFacts
<1>4. 0 \in 0..MaxClock
  BY LearningAssumption
<1> QED
  BY <1>1, <1>2, <1>3, <1>4 DEF Init, TypeOK

\* What the properties compare the page's answers with is about facts.
LEMMA WitnessType ==
    ASSUME TypeOK, Witnessed
    PROVE  /\ ever' \in [Missions -> SUBSET {"published", "open", "active"}]
           /\ always' \in [Missions -> SUBSET {"published", "open", "active"}]
<1> DEFINE fact == [m \in Missions |-> Facts(m)']
<1>1. fact \in [Missions -> SUBSET {"published", "open", "active"}]
  BY DEF Facts
<1>2. NoFacts \in [Missions -> SUBSET {"published", "open", "active"}]
  BY DEF NoFacts
<1>3. /\ ever' = IF ~Reading' THEN NoFacts ELSE [m \in Missions |-> ever[m] \cup fact[m]]
      /\ always' = IF ~Reading' THEN NoFacts
                   ELSE IF ~Reading THEN fact
                   ELSE [m \in Missions |-> always[m] \cap fact[m]]
  BY DEF Witnessed
<1> HIDE DEF fact
<1> QED
  BY <1>1, <1>2, <1>3 DEF TypeOK

LEMMA GuidanceType ==
    ASSUME TypeOK, Guidance
    PROVE  DOMAIN guide' = Guides /\ UNCHANGED <<published, satisfied, recordVars>>
BY DEF TypeOK, Guidance, LoadGuidance, ReadModule, ReadRows, GuideFails, Leave, recordVars

-----------------------------------------------------------------------------
\* A request's step moves that request, and no other.
LEMMA OneMoves ==
    ASSUME TypeOK, NEW r \in Requests, Record(r)
    PROVE  /\ \A o \in Requests : o # r => req'[o] = req[o]
           /\ UNCHANGED <<published, satisfied, guide>>
BY DEF TypeOK, Record, Ask, ReadContent, ReadSatisfactions, Begin, Look, Looked, Write, Lose,
       GoTo, End, KeepRest

EventOf(saw, state, now) == [from |-> saw, to |-> state, at |-> now]

\* A write is of a request that may write; it dates the row.
LEMMA WriteFacts ==
    ASSUME TypeOK, NEW r \in Requests, Write(r)
    PROVE  \E m \in Missions, state \in {"in_progress", "completed"}, now \in 1..MaxClock :
              /\ m = req[r].mission /\ now = req[r].now
              /\ At(r, "write") /\ req[r].seen \in ProgressState
              /\ state = NextState(req[r].seen, req[r].action)
              /\ lock[m] \in {Nobody, r}
              /\ progress' = [progress EXCEPT ![m] = Upserted(@, state, now)]
              /\ events' = IF state = req[r].seen THEN events
                           ELSE [events EXCEPT ![m] = @ \cup {EventOf(req[r].seen, state, now)}]
              /\ lock' = [lock EXCEPT ![m] = Nobody]
              /\ req' = [req EXCEPT ![r] = Idle]
              /\ UNCHANGED clock
<1>1. req[r] \in Request /\ At(r, "write")
  BY DEF TypeOK, Write
<1>2. req[r] # Idle /\ req[r].step = "write"
  BY <1>1 DEF At, Idle
<1>3. /\ req[r].mission \in Missions
      /\ req[r].now \in 1..MaxClock
      /\ req[r].seen \in ProgressState
  BY <1>1, <1>2, RequestParts
<1>4. NextState(req[r].seen, req[r].action) \in {"in_progress", "completed"}
  BY DEF NextState
<1> QED
  BY <1>1, <1>3, <1>4 DEF Write, End, EventOf

LEMMA WriteType ==
    ASSUME TypeOK, Witnessed, NEW r \in Requests, Write(r)
    PROVE  TypeOK'
<1>1. PICK m \in Missions, state \in {"in_progress", "completed"}, now \in 1..MaxClock :
        /\ progress' = [progress EXCEPT ![m] = Upserted(@, state, now)]
        /\ req[r].seen \in ProgressState
        /\ events' = IF state = req[r].seen THEN events
                     ELSE [events EXCEPT ![m] = @ \cup {EventOf(req[r].seen, state, now)}]
        /\ lock' = [lock EXCEPT ![m] = Nobody]
        /\ req' = [req EXCEPT ![r] = Idle]
        /\ UNCHANGED clock
  BY WriteFacts
<1>2. state \in ProgressState
  BY DEF ProgressState
<1>3. Upserted(progress[m], state, now) \in Row
  BY <1>2, UpsertedRow DEF TypeOK
<1>4. progress' \in [Missions -> Row] /\ events' \in [Missions -> SUBSET Event]
  <2>1. EventOf(req[r].seen, state, now) \in Event
    BY <1>1, <1>2 DEF EventOf, Event
  <2> QED
    BY <1>1, <1>3, <2>1 DEF TypeOK
<1>5. lock' \in [Missions -> Requests \cup {Nobody}] /\ req' \in [Requests -> Request]
  BY <1>1 DEF TypeOK, Request
<1>6. UNCHANGED <<published, satisfied, guide>>
  BY DEF Write, KeepRest
<1> QED
  BY <1>1, <1>4, <1>5, <1>6, WitnessType DEF TypeOK

\* The other steps of a request leave the rows and their events alone.
LEMMA RecordType ==
    ASSUME TypeOK, Witnessed, NEW r \in Requests, Record(r)
    PROVE  TypeOK'
<1>1. CASE Write(r)
  BY <1>1, WriteType
<1>2. CASE ~Write(r)
  <2>1. UNCHANGED <<progress, events, published, satisfied, guide>>
    BY <1>2 DEF Record, Ask, ReadContent, ReadSatisfactions, Begin, Look, Lose, KeepRest,
                KeepRows
  <2>2. /\ req' \in [Requests -> Request]
        /\ lock' \in [Missions -> Requests \cup {Nobody}]
        /\ clock' \in 0..MaxClock
    <3>1. ASSUME NEW m \in Missions, NEW action \in Action, Ask(r, m, action)
          PROVE  /\ req' \in [Requests -> Request]
                 /\ UNCHANGED <<lock, clock>>
      BY <3>1 DEF Ask, KeepRows, TypeOK, Request, AfterContent, Action
    <3>2. CASE ReadContent(r) \/ ReadSatisfactions(r)
      <4>1. req[r].step \in {"content", "external"} /\ req[r] \in Request
        BY <3>2 DEF ReadContent, ReadSatisfactions, At, TypeOK
      <4>2. \A s \in {"external", "begin"} : [req[r] EXCEPT !.step = s] \in Request
        BY <4>1 DEF Request, Idle
      <4>3. Idle \in Request
        BY DEF Request
      <4>4. UNCHANGED <<lock, clock>>
        BY <3>2 DEF ReadContent, ReadSatisfactions, KeepRows
      <4>5. \/ \E s \in {"external", "begin"} : req' = [req EXCEPT ![r].step = s]
            \/ req' = [req EXCEPT ![r] = Idle]
        BY <3>2 DEF ReadContent, ReadSatisfactions, GoTo, End, AfterContent
      <4> QED
        BY <4>2, <4>3, <4>4, <4>5 DEF TypeOK
    <3>3. CASE Begin(r)
      <4>1. req[r] \in Request /\ req[r] # Idle /\ clock < MaxClock
        BY <3>3 DEF Begin, At, TypeOK, Idle
      <4>2. req[r].mission \in Missions /\ req[r].action \in Action /\ clock + 1 \in 1..MaxClock
        BY <4>1, RequestParts, LearningAssumption DEF TypeOK
      <4>3. [step |-> "look", mission |-> req[r].mission, action |-> req[r].action,
             now |-> clock + 1] \in Request
        BY <4>2 DEF Request, Action
      <4>4. Idle \in Request
        BY DEF Request
      <4> QED
        BY <3>3, <4>2, <4>3, <4>4 DEF Begin, End, TypeOK
    <3>4. CASE Look(r)
      <4>1. req[r] \in Request /\ req[r] # Idle /\ req[r].step = "look"
        BY <3>4 DEF Look, At, TypeOK, Idle
      <4>2. /\ req[r].mission \in Missions /\ req[r].action \in Action
            /\ req[r].now \in 1..MaxClock
        BY <4>1, RequestParts
      <4>3. progress[req[r].mission].state \in ProgressState
        BY <4>2 DEF TypeOK, Row
      <4>4. [step |-> "write", mission |-> req[r].mission, action |-> req[r].action,
             now |-> req[r].now, seen |-> progress[req[r].mission].state] \in Request
        BY <4>2, <4>3 DEF Request, Action
      <4> QED
        BY <3>4, <4>2, <4>4 DEF Look, Looked, TypeOK
    <3>5. CASE Lose(r)
      BY <3>5 DEF Lose, End, TypeOK, Request
    <3> QED
      BY <1>2, <3>1, <3>2, <3>3, <3>4, <3>5 DEF Record, Action, TypeOK
  <2> QED
    BY <2>1, <2>2, WitnessType DEF TypeOK
<1> QED
  BY <1>1, <1>2

LEMMA TypeNext == TypeOK /\ [Next]_vars => TypeOK'
<1> SUFFICES ASSUME TypeOK, [Next]_vars
             PROVE  TypeOK'
  OBVIOUS
<1>1. CASE UNCHANGED vars
  BY <1>1 DEF vars, recordVars, TypeOK
<1>2. ASSUME Witnessed, NEW r \in Requests, Record(r)
      PROVE  TypeOK'
  BY <1>2, RecordType
<1>3. CASE Witnessed /\ Guidance
  BY <1>3, GuidanceType, WitnessType DEF TypeOK, recordVars
<1>4. ASSUME Witnessed, NEW m \in Moving, PublishMission(m) \/ RetireMission(m)
      PROVE  TypeOK'
  <2>1. m \in Missions
    BY LearningAssumption
  <2> QED
    BY <1>4, <2>1, WitnessType DEF TypeOK, PublishMission, RetireMission, recordVars
<1>5. ASSUME Witnessed, NEW q \in Requirements, Satisfy(q)
      PROVE  TypeOK'
  BY <1>5, WitnessType DEF TypeOK, Satisfy, recordVars
<1> QED
  BY <1>1, <1>2, <1>3, <1>4, <1>5 DEF Next, Step

\* Every row, request and lock is what the tables and handlers say it is, and
\* the clock stays in its bound (learning-progress.ts, record_mission_progress).
THEOREM TypeCorrect == Spec => []TypeOK
BY TypeInit, TypeNext, PTL DEF Spec

-----------------------------------------------------------------------------
\* Rows and their events are written by writes only.
LEMMA OnlyWrites ==
    ASSUME [Next]_vars
    PROVE  UNCHANGED <<progress, events>> \/ \E r \in Requests : Write(r)
BY DEF Next, Step, Record, Ask, ReadContent, ReadSatisfactions, Begin, Look, Lose, KeepRows,
       Guidance, LoadGuidance, ReadModule, ReadRows, GuideFails, Leave, PublishMission,
       RetireMission, Satisfy, recordVars, vars

\* A mission that was completed stays dated as it was, and what was satisfied
\* stays satisfied.
LEMMA NothingIsTakenBack ==
    ASSUME TypeOK, [Next]_vars
    PROVE  /\ \A m \in Missions : progress[m].completed # 0 =>
                 progress'[m].completed = progress[m].completed
           /\ satisfied \subseteq satisfied'
<1>1. satisfied \subseteq satisfied'
  <2>1. ASSUME NEW r \in Requests, Record(r)
        PROVE  satisfied' = satisfied
    BY <2>1, OneMoves
  <2> QED
    BY <2>1 DEF Next, Step, Guidance, LoadGuidance, ReadModule, ReadRows, GuideFails, Leave,
       PublishMission, RetireMission, Satisfy, vars
<1>2. ASSUME NEW r \in Requests, Write(r), NEW m \in Missions, progress[m].completed # 0
      PROVE  progress'[m].completed = progress[m].completed
  <2>1. PICK n \in Missions, state \in {"in_progress", "completed"}, now \in 1..MaxClock :
          progress' = [progress EXCEPT ![n] = Upserted(@, state, now)]
    BY <1>2, WriteFacts
  <2>2. progress[m] \in Row /\ state \in ProgressState
    BY DEF TypeOK, ProgressState
  <2>3. Upserted(progress[m], state, now).completed = progress[m].completed
    BY <1>2, <2>2, UpsertedRow
  <2> QED
    BY <2>1, <2>3 DEF TypeOK
<1> QED
  BY <1>1, <1>2, OnlyWrites

LEMMA DatedNext ==
    ASSUME TypeOK, RowsAreDated, [Next]_vars
    PROVE  RowsAreDated'
<1>1. CASE UNCHANGED progress
  BY <1>1 DEF RowsAreDated
<1>2. ASSUME NEW r \in Requests, Write(r), NEW m \in Missions, progress'[m].state = "completed"
      PROVE  progress'[m].completed # 0
  <2>1. PICK n \in Missions, state \in {"in_progress", "completed"}, now \in 1..MaxClock :
          progress' = [progress EXCEPT ![n] = Upserted(@, state, now)]
    BY <1>2, WriteFacts
  <2>2. progress[n] \in Row /\ state \in ProgressState
    BY DEF TypeOK, ProgressState
  <2>3. CASE m = n
    <3>1. progress'[m] = Upserted(progress[n], state, now)
      BY <2>1, <2>3 DEF TypeOK
    <3> QED
      BY <1>2, <2>2, <3>1, UpsertedRow
  <2>4. CASE m # n
    <3>1. progress'[m] = progress[m]
      BY <2>1, <2>4 DEF TypeOK
    <3> QED
      BY <1>2, <3>1 DEF RowsAreDated
  <2> QED
    BY <2>3, <2>4
<1> QED
  BY <1>1, <1>2, OnlyWrites DEF RowsAreDated

\* What a request has evaluated by now was there before this step.
Granted(o) ==
    /\ req'[o].step \in PastContent =>
          \A n \in Needs[req'[o].mission] : progress[n].completed # 0
    /\ req'[o].step \in PastEvaluation => Requires[req'[o].mission] \subseteq satisfied

\* A request goes on only from an evaluation that found everything there.
LEMMA EvaluationNext ==
    ASSUME TypeOK, RowsAreDated, EvaluationHolds, [Next]_vars
    PROVE  EvaluationHolds'
<1> SUFFICES ASSUME NEW o \in Requests
             PROVE  /\ req'[o].step \in PastContent =>
                         \A n \in Needs[req'[o].mission] : progress'[n].completed # 0
                    /\ req'[o].step \in PastEvaluation =>
                         Requires[req'[o].mission] \subseteq satisfied'
  BY DEF EvaluationHolds
<1>1. ASSUME req'[o] # Idle
      PROVE  \A n \in Needs[req'[o].mission] : n \in Missions
  <2>1. req'[o] \in Request
    BY TypeNext DEF TypeOK
  <2> QED
    BY <1>1, <2>1, RequestParts, LearningAssumption
<1>2. ASSUME /\ req'[o].step \in PastContent =>
                  \A n \in Needs[req'[o].mission] : progress[n].completed # 0
             /\ req'[o].step \in PastEvaluation => Requires[req'[o].mission] \subseteq satisfied
      PROVE  /\ req'[o].step \in PastContent =>
                  \A n \in Needs[req'[o].mission] : progress'[n].completed # 0
             /\ req'[o].step \in PastEvaluation => Requires[req'[o].mission] \subseteq satisfied'
  <2>1. req'[o].step \in PastContent => req'[o] # Idle
    BY DEF Idle, PastContent
  <2> QED
    BY <1>1, <1>2, <2>1, NothingIsTakenBack
<1>3. CASE req'[o] = req[o]
  BY <1>2, <1>3 DEF EvaluationHolds
<1>4. CASE Record(o)
  <2> SUFFICES Granted(o)
    BY <1>2 DEF Granted
  <2>1. ASSUME NEW m \in Missions, NEW action \in Action, Ask(o, m, action)
        PROVE  Granted(o)
    <3>1. /\ req'[o].mission = m
          /\ req'[o].step = IF Needs[m] # {} THEN "content" ELSE AfterContent(m)
      BY <2>1 DEF Ask, TypeOK
    <3> QED
      BY <3>1 DEF AfterContent, PastContent, PastEvaluation, Granted
  <2>2. ASSUME req' = [req EXCEPT ![o] = Idle]
        PROVE  Granted(o)
    <3>1. req'[o] = Idle
      BY <2>2 DEF TypeOK
    <3> QED
      BY <3>1 DEF Idle, PastContent, PastEvaluation, Granted
  <2>3. CASE ReadContent(o)
    <3>1. req[o] \in Request /\ req[o] # Idle
      BY <2>3 DEF ReadContent, At, TypeOK, Idle
    <3>2. CASE /\ Needs[req[o].mission] \subseteq Completed
               /\ req' = [req EXCEPT ![o].step = AfterContent(req[o].mission)]
      <4>1. /\ req'[o].mission = req[o].mission
            /\ req'[o].step = AfterContent(req[o].mission)
        BY <3>1, <3>2 DEF TypeOK, Request, Idle
      <4>2. \A n \in Needs[req[o].mission] : progress[n].completed # 0
        BY <3>2 DEF Completed, RowsAreDated
      <4> QED
        BY <4>1, <4>2 DEF AfterContent, PastEvaluation, Granted
    <3> QED
      BY <2>2, <2>3, <3>2 DEF ReadContent, Evaluate, GoTo, End
  <2>4. CASE ReadSatisfactions(o)
    <3>1. req[o] \in Request /\ req[o].step = "external"
      BY <2>4 DEF ReadSatisfactions, At, TypeOK
    <3>2. CASE /\ Requires[req[o].mission] \subseteq satisfied
               /\ req' = [req EXCEPT ![o].step = "begin"]
      <4>1. req'[o].mission = req[o].mission
        BY <3>1, <3>2 DEF TypeOK, Request, Idle
      <4> QED
        BY <3>1, <3>2, <4>1 DEF EvaluationHolds, PastContent, Granted
    <3> QED
      BY <2>2, <2>4, <3>2 DEF ReadSatisfactions, Evaluate, GoTo, End
  <2>5. ASSUME req[o].step \in PastEvaluation, req'[o].mission = req[o].mission
        PROVE  Granted(o)
    BY <2>5 DEF EvaluationHolds, PastContent, PastEvaluation, Granted
  <2>6. CASE Begin(o)
    <3>1. req[o].step \in PastEvaluation
      BY <2>6 DEF Begin, At, PastEvaluation
    <3>2. CASE req' = [req EXCEPT ![o] = Idle]
      BY <2>2, <3>2
    <3>3. CASE req'[o].mission = req[o].mission
      BY <2>5, <3>1, <3>3
    <3> QED
      BY <2>6, <3>2, <3>3 DEF Begin, End, TypeOK
  <2>7. CASE Look(o)
    <3>1. req[o].step \in PastEvaluation
      BY <2>7 DEF Look, At, PastEvaluation
    <3>2. req'[o].mission = req[o].mission
      BY <2>7 DEF Look, Looked, TypeOK
    <3> QED
      BY <2>5, <3>1, <3>2
  <2>8. CASE Write(o) \/ Lose(o)
    BY <2>2, <2>8 DEF Write, Lose, End
  <2> QED
    BY <1>4, <2>1, <2>3, <2>4, <2>6, <2>7, <2>8 DEF Record, Action
<1>5. req'[o] = req[o] \/ Record(o)
  <2>1. ASSUME NEW r \in Requests, Record(r), r # o
        PROVE  req'[o] = req[o]
    BY <2>1, OneMoves
  <2> QED
    BY <2>1 DEF Next, Step, Guidance, LoadGuidance, ReadModule, ReadRows, GuideFails, Leave,
       PublishMission, RetireMission, Satisfy, recordVars, vars
<1> QED
  BY <1>3, <1>4, <1>5

\* Whoever holds the lock of a row saw it as it is: the others wait for it.
LEMMA SeenNext ==
    ASSUME TypeOK, SeenIsLocked, [Next]_vars
    PROVE  SeenIsLocked'
<1> SUFFICES ASSUME NEW o \in Requests, req'[o].step = "write",
                    req'[o].seen # "not_started"
             PROVE  /\ lock'[req'[o].mission] = o
                    /\ progress'[req'[o].mission].state = req'[o].seen
  BY DEF SeenIsLocked, At
<1>1. CASE UNCHANGED <<req, lock, progress>>
  BY <1>1 DEF SeenIsLocked, At
<1>2. ASSUME NEW r \in Requests, Record(r), r # o
      PROVE  /\ lock'[req'[o].mission] = o
             /\ progress'[req'[o].mission].state = req'[o].seen
  <2> DEFINE n == req[o].mission
  <2>1. req'[o] = req[o]
    BY <1>2, OneMoves
  <2>2. /\ lock[n] = o /\ progress[n].state = req[o].seen
        /\ n \in Missions
    <3>1. req[o] \in Request /\ req[o] # Idle
      BY <2>1 DEF TypeOK, Idle
    <3> QED
      BY <2>1, <3>1, RequestParts DEF SeenIsLocked, At
  <2>3. o # Nobody
    BY LearningAssumption
  <2>4. lock'[n] = o /\ progress'[n] = progress[n]
    <3>1. CASE Write(r)
      <4>1. PICK m \in Missions, state \in {"in_progress", "completed"}, now \in 1..MaxClock :
              /\ lock[m] \in {Nobody, r}
              /\ progress' = [progress EXCEPT ![m] = Upserted(@, state, now)]
              /\ lock' = [lock EXCEPT ![m] = Nobody]
        BY <3>1, WriteFacts
      <4>2. m # n
        BY <1>2, <2>2, <2>3, <4>1
      <4> QED
        BY <2>2, <4>1, <4>2 DEF TypeOK
    <3>2. CASE Look(r)
      <4>1. lock[req[r].mission] = Nobody /\ UNCHANGED progress
        BY <3>2 DEF Look
      <4>2. lock' \in {lock, [lock EXCEPT ![req[r].mission] = r]}
        BY <3>2 DEF Look
      <4>3. req[r].mission # n
        BY <2>2, <2>3, <4>1
      <4> QED
        BY <2>2, <4>1, <4>2, <4>3 DEF TypeOK
    <3>3. CASE Lose(r)
      BY <1>2, <2>2, <3>3 DEF Lose, TypeOK
    <3>4. CASE ~Write(r) /\ ~Look(r) /\ ~Lose(r)
      BY <1>2, <2>2, <3>4 DEF Record, Ask, ReadContent, ReadSatisfactions, Begin, KeepRows
    <3> QED
      BY <3>1, <3>2, <3>3, <3>4
  <2> QED
    BY <2>1, <2>2, <2>4
<1>3. CASE Record(o)
  <2>1. ASSUME req' = [req EXCEPT ![o] = Idle]
        PROVE  FALSE
    BY <2>1 DEF TypeOK, Idle
  <2>2. CASE Look(o)
    <3> DEFINE m == req[o].mission
    <3>1. req[o] \in Request /\ req[o] # Idle
      BY <2>2 DEF Look, At, TypeOK, Idle
    <3>2. m \in Missions
      BY <3>1, RequestParts
    <3>3. /\ req'[o].mission = m
          /\ req'[o].seen = progress[m].state
          /\ lock' = IF HasRow(m) THEN [lock EXCEPT ![m] = o] ELSE lock
          /\ UNCHANGED progress
      BY <2>2 DEF Look, Looked, TypeOK
    <3>4. HasRow(m)
      BY <3>3 DEF HasRow, NoRow
    <3> QED
      BY <3>2, <3>3, <3>4 DEF TypeOK
  <2>3. CASE Write(o) \/ Lose(o)
    BY <2>1, <2>3 DEF Write, Lose, End
  <2>4. CASE ~Look(o) /\ ~Write(o) /\ ~Lose(o)
    <3>1. ASSUME NEW m \in Missions, NEW action \in Action, Ask(o, m, action)
          PROVE  FALSE
      BY <3>1 DEF Ask, TypeOK, AfterContent
    <3>2. CASE ReadContent(o) \/ ReadSatisfactions(o)
      <4>1. req[o] \in Request /\ req[o] # Idle
        BY <3>2 DEF ReadContent, ReadSatisfactions, At, TypeOK, Idle
      <4>2. ASSUME NEW s \in {"external", "begin"}, req' = [req EXCEPT ![o].step = s]
            PROVE  FALSE
        BY <4>1, <4>2 DEF TypeOK, Request, Idle
      <4> QED
        BY <2>1, <3>2, <4>2 DEF ReadContent, ReadSatisfactions, GoTo, End, AfterContent
    <3>3. CASE Begin(o)
      <4>1. ASSUME req' = [req EXCEPT ![o] = [step |-> "look", mission |-> @.mission,
                                              action |-> @.action, now |-> clock + 1]]
            PROVE  FALSE
        BY <4>1 DEF TypeOK
      <4> QED
        BY <2>1, <3>3, <4>1 DEF Begin, End
    <3> QED
      BY <1>3, <2>4, <3>1, <3>2, <3>3 DEF Record, Action
  <2> QED
    BY <2>2, <2>3, <2>4
<1> QED
  BY <1>1, <1>2, <1>3 DEF Next, Step, Guidance, LoadGuidance, ReadModule, ReadRows, GuideFails,
     Leave, PublishMission, RetireMission, Satisfy, recordVars, vars

\* A row comes to be only by a request whose evaluation still holds.
LEMMA EntitledNext ==
    ASSUME TypeOK, EvaluationHolds, StartedIsEntitled, [Next]_vars
    PROVE  StartedIsEntitled'
<1> SUFFICES ASSUME NEW m \in Missions, progress'[m] # NoRow
             PROVE  /\ \A n \in Needs[m] : progress'[n].completed # 0
                    /\ Requires[m] \subseteq satisfied'
  BY DEF StartedIsEntitled, HasRow
<1>1. Needs[m] \subseteq Missions
  BY LearningAssumption
<1>2. /\ \A n \in Needs[m] : progress[n].completed # 0
      /\ Requires[m] \subseteq satisfied
  <2>1. CASE HasRow(m)
    BY <2>1 DEF StartedIsEntitled
  <2>2. CASE progress[m] = NoRow
    <3>1. PICK r \in Requests : Write(r)
      BY <2>2, OnlyWrites
    <3>2. PICK n \in Missions, state \in {"in_progress", "completed"}, now \in 1..MaxClock :
            /\ n = req[r].mission /\ At(r, "write")
            /\ progress' = [progress EXCEPT ![n] = Upserted(@, state, now)]
      BY <3>1, WriteFacts
    <3>3. m = n
      BY <2>2, <3>2 DEF TypeOK
    <3> QED
      BY <3>2, <3>3 DEF EvaluationHolds, PastContent, PastEvaluation, At
  <2> QED
    BY <2>1, <2>2 DEF HasRow
<1> QED
  BY <1>1, <1>2, NothingIsTakenBack

\* Times of transactions stay apart: a transaction takes the next one, and an
\* event that of the request that writes it.
LEMMA FreshNext ==
    ASSUME TypeOK, EventsAreFresh, [Next]_vars
    PROVE  EventsAreFresh'
<1>0. clock \in Nat
  BY LearningAssumption DEF TypeOK
<1>1. CASE UNCHANGED <<req, clock, events>>
  BY <1>1 DEF EventsAreFresh, Dated
<1>2. ASSUME NEW r \in Requests, Begin(r)
      PROVE  EventsAreFresh'
  <2>1. UNCHANGED events
    BY <1>2 DEF Begin
  <2>2. CASE req' = [req EXCEPT ![r] = Idle] /\ UNCHANGED clock
    BY <2>1, <2>2 DEF EventsAreFresh, Dated, Idle, TypeOK
  <2>3. CASE /\ clock' = clock + 1
             /\ req' = [req EXCEPT ![r] = [step |-> "look", mission |-> @.mission,
                                           action |-> @.action, now |-> clock + 1]]
    <3>1. req'[r].now = clock + 1 /\ \A o \in Requests : o # r => req'[o] = req[o]
      BY <2>3 DEF TypeOK
    <3>2. \A o \in Requests : Dated(o) => req[o].now \in Nat
      BY RequestParts DEF Dated, TypeOK
    <3>3. \A m \in Missions : \A e \in events[m] : e.at \in Nat
      BY DEF TypeOK, Event
    <3> QED BY <1>0, <2>1, <2>3, <3>1, <3>2, <3>3 DEF EventsAreFresh, Dated
  <2> QED BY <1>2, <2>2, <2>3 DEF Begin, End
<1>3. ASSUME NEW r \in Requests, Write(r)
      PROVE  EventsAreFresh'
  <2>1. PICK m \in Missions, state \in {"in_progress", "completed"}, now \in 1..MaxClock :
          /\ m = req[r].mission /\ now = req[r].now /\ At(r, "write")
          /\ events' = IF state = req[r].seen THEN events
                       ELSE [events EXCEPT ![m] = @ \cup {EventOf(req[r].seen, state, now)}]
          /\ req' = [req EXCEPT ![r] = Idle]
          /\ UNCHANGED clock
    BY <1>3, WriteFacts
  <2>2. PICK e : e = EventOf(req[r].seen, state, now)
    OBVIOUS
  <2>3. e.at = req[r].now /\ Dated(r)
    BY <2>1, <2>2 DEF EventOf, Dated, At
  <2>4. \A n \in Missions : events'[n] = events[n] \/ events'[n] = events[n] \cup {e}
    BY <2>1, <2>2 DEF TypeOK
  <2>5. \A o \in Requests : Dated(o)' => Dated(o) /\ o # r /\ req'[o] = req[o]
    BY <2>1 DEF TypeOK, Dated, Idle
  <2>6. \A n \in Missions : IsFiniteSet(events'[n])
    <3>1. ASSUME NEW n \in Missions
          PROVE  IsFiniteSet(events[n]) /\ IsFiniteSet(events[n] \cup {e})
      BY FS_AddElement DEF EventsAreFresh
    <3> QED BY <2>4, <3>1
  <2>7. \A n \in Missions : \A x \in events'[n] :
          x.at <= clock' /\ \A o \in Requests : Dated(o)' => x.at # req'[o].now
    BY <2>1, <2>3, <2>4, <2>5 DEF EventsAreFresh
  <2>8. /\ \A o \in Requests : Dated(o)' => req'[o].now <= clock'
        /\ \A o, q \in Requests : Dated(o)' /\ Dated(q)' /\ o # q => req'[o].now # req'[q].now
    BY <2>1, <2>5 DEF EventsAreFresh
  <2> QED BY <2>6, <2>7, <2>8 DEF EventsAreFresh
<1>4. ASSUME NEW r \in Requests, Record(r), ~Begin(r), ~Write(r)
      PROVE  EventsAreFresh'
  <2>1. UNCHANGED <<clock, events>>
    BY <1>4 DEF Record, Ask, ReadContent, ReadSatisfactions, Look, Lose, KeepRows
  <2>2. \A o \in Requests : o # r => req'[o] = req[o]
    BY <1>4, OneMoves
  <2>3. Dated(r)' => Dated(r) /\ req'[r].now = req[r].now
    <3>1. ASSUME NEW m \in Missions, NEW action \in Action, Ask(r, m, action)
          PROVE  ~Dated(r)'
      BY <3>1 DEF Ask, TypeOK, AfterContent, Dated
    <3>2. CASE ReadContent(r) \/ ReadSatisfactions(r)
      <4>1. req[r] \in Request /\ req[r] # Idle
        BY <3>2 DEF ReadContent, ReadSatisfactions, At, TypeOK, Idle
      <4>2. ASSUME NEW x \in {"external", "begin"}, req' = [req EXCEPT ![r].step = x]
            PROVE  ~Dated(r)'
        BY <4>1, <4>2 DEF TypeOK, Request, Idle, Dated
      <4>3. ASSUME req' = [req EXCEPT ![r] = Idle]
            PROVE  ~Dated(r)'
        BY <4>3 DEF TypeOK, Idle, Dated
      <4> QED
        BY <3>2, <4>2, <4>3 DEF ReadContent, ReadSatisfactions, GoTo, End, AfterContent
    <3>3. CASE Look(r)
      BY <3>3 DEF Look, Looked, At, Dated, TypeOK
    <3>4. CASE Lose(r)
      BY <3>4 DEF Lose, End, Dated, Idle, TypeOK
    <3> QED BY <1>4, <3>1, <3>2, <3>3, <3>4 DEF Record, Action
  <2>4. \A o \in Requests : Dated(o)' => Dated(o) /\ req'[o].now = req[o].now
    BY <2>2, <2>3 DEF Dated
  <2> QED BY <2>1, <2>4 DEF EventsAreFresh
<1> QED
  BY <1>1, <1>2, <1>3, <1>4 DEF Next, Step, Guidance, LoadGuidance, ReadModule, ReadRows,
     GuideFails, Leave, PublishMission, RetireMission, Satisfy, recordVars, vars

\* A function on 1..n is a list of n entries.
LEMMA ListOf ==
    ASSUME NEW n \in Nat, NEW f, f = [k \in 1..n |-> f[k]]
    PROVE  Len(f) = n
<1>1. PICK S : S = {f[k] : k \in 1..n}
  OBVIOUS
<1>2. f \in [1..n -> S]
  BY <1>1
<1>3. f \in Seq(S)
  BY <1>2
<1>4. DOMAIN f = 1..n
  BY <1>2
<1> QED BY <1>3, <1>4

\* An event that is not among some others can be told after them.
LEMMA ToldLast ==
    ASSUME NEW S, IsFiniteSet(S), NEW e, e \notin S, NEW order \in SetToSeqs(S),
           NEW longer, longer = [k \in 1..(Cardinality(S) + 1) |->
                                    IF k = Cardinality(S) + 1 THEN e ELSE order[k]]
    PROVE  /\ longer \in SetToSeqs(S \cup {e})
           /\ DOMAIN longer = 1..(Cardinality(S) + 1) /\ Len(longer) = Cardinality(S) + 1
           /\ longer[Cardinality(S) + 1] = e
           /\ \A k \in 1..Cardinality(S) : longer[k] = order[k]
<1>1. PICK n : n = Cardinality(S)
  OBVIOUS
<1>2. n \in Nat /\ Cardinality(S \cup {e}) = n + 1
  BY <1>1, FS_CardinalityType, FS_AddElement
<1>3. /\ order \in [1..n -> S]
      /\ \A i, k \in 1..n : i # k => order[i] # order[k]
  BY <1>1 DEF SetToSeqs
<1>4. /\ longer \in [1..(n + 1) -> S \cup {e}]
      /\ \A k \in 1..n : longer[k] = order[k]
      /\ longer[n + 1] = e
  BY <1>1, <1>2, <1>3
<1>5. \A i, k \in 1..(n + 1) : i # k => longer[i] # longer[k]
  <2> SUFFICES ASSUME NEW i \in 1..(n + 1), NEW k \in 1..(n + 1), i # k
               PROVE  longer[i] # longer[k]
    OBVIOUS
  <2>1. CASE i \in 1..n /\ k \in 1..n
    BY <1>3, <1>4, <2>1
  <2>2. CASE i \in 1..n /\ k = n + 1
    BY <1>3, <1>4, <2>2
  <2>3. CASE k \in 1..n /\ i = n + 1
    BY <1>3, <1>4, <2>3
  <2> QED BY <1>2, <2>1, <2>2, <2>3
<1>6. longer \in SetToSeqs(S \cup {e})
  BY <1>2, <1>4, <1>5 DEF SetToSeqs
<1>7. Len(longer) = n + 1
  <2>1. longer = [k \in 1..(n + 1) |-> longer[k]] /\ n + 1 \in Nat
    BY <1>2, <1>4
  <2> QED BY <2>1, ListOf
<1> QED BY <1>1, <1>2, <1>4, <1>6, <1>7

\* An event told last accounts for what the upsert made of the row.
LEMMA ExplainsLonger ==
    ASSUME NEW n \in Nat, NEW order, DOMAIN order = 1..n, Len(order) = n,
           n = 0 <=> order = << >>,
           \A k \in 1..n : order[k].at # 0,
           NEW row, Explains(order, row),
           NEW saw, NEW state \in {"in_progress", "completed"}, NEW now,
           saw = "not_started" \/ (n # 0 /\ saw = row.state),
           NEW longer, DOMAIN longer = 1..(n + 1), Len(longer) = n + 1,
           longer[n + 1] = EventOf(saw, state, now),
           \A k \in 1..n : longer[k] = order[k]
    PROVE  Explains(longer, Upserted(row, state, now))
<1>1. PICK next : next = Upserted(row, state, now)
  OBVIOUS
<1>2. /\ longer[n + 1].from = saw /\ longer[n + 1].to = state /\ longer[n + 1].at = now
  BY DEF EventOf
<1>3. /\ next.state = state
      /\ next.started = First(row.started, now)
      /\ next.completed = IF state = "completed" THEN First(row.completed, now)
                          ELSE row.completed
  BY <1>1 DEF Upserted
<1>5. longer # << >>
  <2>1. 1 \in DOMAIN longer
    OBVIOUS
  <2> QED BY <2>1
<1>6. ASSUME NEW i \in DOMAIN longer
      PROVE  longer[i].from = "not_started" \/ (i > 1 /\ longer[i].from = longer[i - 1].to)
  <2>1. CASE i \in 1..n
    <3>1. longer[i] = order[i] /\ (i > 1 => longer[i - 1] = order[i - 1])
      BY <2>1
    <3> QED BY <2>1, <3>1 DEF Explains
  <2>2. CASE i = n + 1 /\ saw # "not_started"
    <3>1. n # 0 /\ longer[n] = order[n] /\ row.state = order[n].to
      BY <2>2 DEF Explains
    <3> QED BY <1>2, <2>2, <3>1
  <2>3. CASE i = n + 1 /\ saw = "not_started"
    BY <1>2, <2>3
  <2> QED BY <2>1, <2>2, <2>3
<1>7. next.started = longer[1].at /\ next.state = longer[Len(longer)].to
  <2>1. CASE n = 0
    BY <1>2, <1>3, <2>1 DEF Explains, NoRow, First
  <2>2. CASE n # 0
    <3>1. longer[1] = order[1] /\ order[1].at # 0 /\ row.started = order[1].at
      BY <2>2 DEF Explains
    <3> QED BY <1>2, <1>3, <3>1 DEF First
  <2> QED BY <2>1, <2>2
<1>8. \/ next.completed = 0 /\ \A i \in DOMAIN longer : longer[i].to # "completed"
      \/ \E i \in DOMAIN longer :
            /\ longer[i].to = "completed" /\ next.completed = longer[i].at
            /\ \A k \in 1..(i - 1) : longer[k].to # "completed"
  <2>1. CASE row.completed = 0 /\ \A i \in DOMAIN order : order[i].to # "completed"
    <3>1. \A i \in 1..n : longer[i].to # "completed"
      BY <2>1
    <3>2. CASE state = "completed"
      <4>1. longer[n + 1].to = "completed" /\ next.completed = longer[n + 1].at
        BY <1>2, <1>3, <2>1, <3>2 DEF First
      <4>2. n + 1 \in DOMAIN longer /\ 1..((n + 1) - 1) = 1..n
        OBVIOUS
      <4> QED BY <3>1, <4>1, <4>2
    <3>3. CASE state # "completed"
      <4>1. next.completed = 0 /\ longer[n + 1].to # "completed"
        BY <1>2, <1>3, <2>1, <3>3
      <4> QED BY <3>1, <4>1
    <3> QED BY <3>2, <3>3
  <2>2. CASE \E i \in DOMAIN order :
               /\ order[i].to = "completed" /\ row.completed = order[i].at
               /\ \A k \in 1..(i - 1) : order[k].to # "completed"
    <3>1. PICK i \in 1..n :
            /\ order[i].to = "completed" /\ row.completed = order[i].at
            /\ \A k \in 1..(i - 1) : order[k].to # "completed"
      BY <2>2
    <3>2. longer[i] = order[i] /\ \A k \in 1..(i - 1) : longer[k] = order[k]
      OBVIOUS
    <3>3. next.completed = row.completed
      BY <1>3, <3>1 DEF First
    <3> QED BY <3>1, <3>2, <3>3
  <2> QED BY <2>1, <2>2 DEF Explains
<1> QED BY <1>1, <1>5, <1>6, <1>7, <1>8 DEF Explains

\* Where no event is written the row is left as it was, but for the activity.
LEMMA ExplainsAgain ==
    ASSUME NEW order, NEW row, Explains(order, row), NEW state, NEW now, row # NoRow,
           row.state = state, row.started # 0, state = "completed" => row.completed # 0
    PROVE  Explains(order, Upserted(row, state, now))
<1>1. PICK next : next = Upserted(row, state, now)
  OBVIOUS
<1>2. next.state = row.state /\ next.started = row.started /\ next.completed = row.completed
  BY <1>1 DEF Upserted, First
<1>3. order # << >>
  BY DEF Explains
<1> QED BY <1>1, <1>2, <1>3 DEF Explains

\* An event is left out only where the row already says what is written, and
\* can be told after the others where it is not.
LEMMA HistoryNext ==
    ASSUME TypeOK, RowsAreDated, SeenIsLocked, EventsAreFresh, HistoryExplainsRow, [Next]_vars
    PROVE  HistoryExplainsRow'
<1>1. CASE UNCHANGED <<progress, events>>
  BY <1>1 DEF HistoryExplainsRow
<1>2. ASSUME NEW r \in Requests, Write(r), NEW n \in Missions
      PROVE  \E order \in SetToSeqs(events'[n]) : Explains(order, progress'[n])
  <2>1. PICK m \in Missions, state \in {"in_progress", "completed"}, now \in 1..MaxClock :
          /\ m = req[r].mission /\ now = req[r].now
          /\ At(r, "write") /\ req[r].seen \in ProgressState
          /\ progress' = [progress EXCEPT ![m] = Upserted(@, state, now)]
          /\ events' = IF state = req[r].seen THEN events
                       ELSE [events EXCEPT ![m] = @ \cup {EventOf(req[r].seen, state, now)}]
    BY <1>2, WriteFacts
  <2>2. PICK order \in SetToSeqs(events[n]) : Explains(order, progress[n])
    BY DEF HistoryExplainsRow
  <2>3. CASE n # m
    <3>1. events'[n] = events[n] /\ progress'[n] = progress[n]
      BY <2>1, <2>3 DEF TypeOK
    <3> QED BY <2>2, <3>1
  <2>4. CASE n = m
    <3>1. PICK row : row = progress[m]
      OBVIOUS
    <3>2. PICK saw : saw = req[r].seen
      OBVIOUS
    <3>3. PICK S : S = events[m]
      OBVIOUS
    <3>4. progress'[m] = Upserted(row, state, now)
      BY <2>1, <3>1 DEF TypeOK
    <3>5. saw # "not_started" => row.state = saw
      BY <2>1, <3>1, <3>2 DEF SeenIsLocked
    <3>6. IsFiniteSet(S) /\ S \subseteq Event /\ \A x \in S : x.at # now
      BY <2>1, <3>3 DEF EventsAreFresh, TypeOK, Dated, At
    <3>7. /\ order \in SetToSeqs(S) /\ Explains(order, row)
          /\ order \in [1..Cardinality(S) -> S] /\ Cardinality(S) \in Nat
      BY <2>2, <2>4, <3>1, <3>3, <3>6, FS_CardinalityType DEF SetToSeqs
    <3>8. /\ \A k \in 1..Cardinality(S) : order[k].at # 0
          /\ DOMAIN order = 1..Cardinality(S) /\ Len(order) = Cardinality(S)
          /\ Cardinality(S) = 0 <=> order = << >>
      <4>1. \A k \in 1..Cardinality(S) : order[k] \in Event
        BY <3>6, <3>7
      <4>2. order \in Seq(S)
        BY <3>7
      <4> QED BY <3>7, <4>1, <4>2 DEF Event
    <3>9. CASE state = saw
      <4>1. row # NoRow /\ row.state = state
        BY <3>5, <3>9 DEF NoRow
      <4>2. order # << >>
        BY <3>7, <4>1 DEF Explains
      <4>3. row.started # 0
        BY <3>7, <3>8, <4>2 DEF Explains
      <4>4. state = "completed" => row.completed # 0
        BY <3>1, <4>1 DEF RowsAreDated
      <4>5. Explains(order, progress'[m])
        BY <3>4, <3>7, <4>1, <4>3, <4>4, ExplainsAgain
      <4>6. events'[m] = S
        BY <2>1, <3>2, <3>3, <3>9
      <4> QED BY <2>4, <3>7, <4>5, <4>6
    <3>10. CASE state # saw
      <4>1. PICK e : e = EventOf(saw, state, now)
        OBVIOUS
      <4>2. e \notin S
        BY <3>6, <4>1 DEF EventOf
      <4>3. events'[m] = S \cup {e}
        BY <2>1, <3>2, <3>3, <3>10, <4>1 DEF TypeOK
      <4>4. PICK longer : longer = [k \in 1..(Cardinality(S) + 1) |->
                                       IF k = Cardinality(S) + 1 THEN e ELSE order[k]]
        OBVIOUS
      <4>5. /\ longer \in SetToSeqs(S \cup {e})
            /\ DOMAIN longer = 1..(Cardinality(S) + 1) /\ Len(longer) = Cardinality(S) + 1
            /\ longer[Cardinality(S) + 1] = e
            /\ \A k \in 1..Cardinality(S) : longer[k] = order[k]
        BY <3>6, <3>7, <4>2, <4>4, ToldLast
      <4>6. saw = "not_started" \/ (Cardinality(S) # 0 /\ saw = row.state)
        <5>1. CASE saw # "not_started"
          <6>1. row # NoRow
            BY <3>5, <5>1 DEF NoRow
          <6>2. order # << >>
            BY <3>7, <6>1 DEF Explains
          <6> QED BY <3>5, <3>7, <3>8, <5>1, <6>2
        <5> QED BY <5>1
      <4>7. Explains(longer, Upserted(row, state, now))
        BY <3>7, <3>8, <4>1, <4>5, <4>6, ExplainsLonger
      <4> QED BY <2>4, <3>4, <4>3, <4>5, <4>7
    <3> QED BY <3>9, <3>10
  <2> QED BY <2>3, <2>4
<1> QED
  BY <1>1, <1>2, OnlyWrites DEF HistoryExplainsRow

LEMMA InvInit == Init => Inv
<1> SUFFICES ASSUME Init PROVE Inv
  OBVIOUS
<1>1. \A m \in Missions : progress[m] = NoRow /\ events[m] = {}
  BY DEF Init
<1>2. \A r \in Requests : req[r].step = "idle"
  BY DEF Init, Idle
<1>3. EventsAreFresh
  BY <1>1, <1>2, FS_EmptySet DEF EventsAreFresh, Dated
<1>4. HistoryExplainsRow
  <2>1. << >> \in SetToSeqs({})
    BY FS_EmptySet DEF SetToSeqs
  <2>2. Explains(<< >>, NoRow)
    BY DEF Explains, NoRow
  <2> QED BY <1>1, <2>1, <2>2 DEF HistoryExplainsRow
<1> QED
  BY <1>1, <1>2, <1>3, <1>4, TypeInit DEF Inv, RowsAreDated, EvaluationHolds, SeenIsLocked, At,
     NoRow, PastContent, PastEvaluation, StartedIsEntitled, HasRow

LEMMA Invariance == Spec => []Inv
<1>1. Inv /\ [Next]_vars => Inv'
  BY TypeNext, DatedNext, EvaluationNext, SeenNext, EntitledNext, FreshNext, HistoryNext DEF Inv
<1> QED
  BY <1>1, InvInit, PTL DEF Spec

\* Nothing is recorded of a mission before what it builds on was completed and
\* every other requirement satisfied, though both are read in transactions
\* before the one that writes (evaluateMissionPrerequisites,
\* record_mission_progress).
THEOREM BegunWhenEntitled == Spec => []StartedIsEntitled
<1>1. Inv => StartedIsEntitled
  BY DEF Inv
<1> QED
  BY <1>1, Invariance, PTL

\* The progress events of a mission account for its row: in some order, each of
\* them once, they lead from no row to the recorded state and its times.  Events
\* are conditional on what a transaction saw before it wrote; FOR UPDATE makes
\* what it saw of a row current, and what it writes where it saw no row differs
\* from it (record_mission_progress).  The order is not the stored one: an event
\* is dated when its transaction began, not when it wrote.
THEOREM EventsExplainTheRow == Spec => []HistoryExplainsRow
<1>1. Inv => HistoryExplainsRow
  BY DEF Inv
<1> QED
  BY <1>1, Invariance, PTL

\* The time of a mission's first completion is kept for good: even when a start
\* that found no row puts the state back, nothing that builds on the mission is
\* withdrawn from the record (record_mission_progress, completed_at).
THEOREM CompletionIsKept ==
    Spec => [][\A m \in Missions : progress[m].completed # 0 =>
                  progress'[m].completed = progress[m].completed]_vars
<1>1. TypeOK /\ [Next]_vars =>
        [\A m \in Missions : progress[m].completed # 0 =>
            progress'[m].completed = progress[m].completed]_vars
  BY NothingIsTakenBack
<1> QED
  BY <1>1, TypeCorrect, PTL DEF Spec

-----------------------------------------------------------------------------
(* What the course page is told.                                           *)

\* A set of numbers has the minimum that Min chooses.
LEMMA SmallestElement ==
    ASSUME NEW T, T \subseteq Nat, T # {}
    PROVE  Min(T) \in T
<1>1. PICK x \in T : \A y \in T : <<y, x>> \notin OpToRel(<, Nat)
  BY NatLessThanWellFounded, WFMin
<1>2. \A y \in T : ~(y < x)
  BY <1>1, Zenon DEF OpToRel
<1>3. \A y \in T : x <= y
  BY <1>2
<1> QED BY <1>3 DEF Min

\* A set with 0 and with every successor has all numbers.
LEMMA NumberInduction ==
    ASSUME NEW T, 0 \in T, \A n \in Nat : n \in T => n + 1 \in T
    PROVE  Nat \subseteq T
<1> SUFFICES ASSUME Nat \ T # {}
             PROVE  FALSE
  OBVIOUS
<1>1. PICK x \in Nat \ T : \A y \in Nat \ T : <<y, x>> \notin OpToRel(<, Nat)
  BY NatLessThanWellFounded, WFMin
<1>2. \A y \in Nat \ T : ~(y < x)
  BY <1>1, Zenon DEF OpToRel
<1> HIDE <1>1
<1>3. x - 1 \in Nat /\ x - 1 < x
  OBVIOUS
<1>4. x - 1 \in T
  BY <1>2, <1>3
<1> QED BY <1>3, <1>4

\* g[i] is the first i lists, one after the other.
Flattened(lists, n, g) ==
    g = [i \in 1..n |-> IF i = 1 THEN lists[i] ELSE g[i - 1] \o lists[i]]

\* The recursive function of FlattenSeq exists, whatever the lists.
LEMMA FlattenDefined ==
    ASSUME NEW lists, NEW n \in Nat
    PROVE  \E g : Flattened(lists, n, g)
<1> DEFINE T == {k \in Nat : \E g : Flattened(lists, k, g)}
<1>1. 0 \in T
  <2> DEFINE g == [i \in 1..0 |-> <<>>]
  <2>1. Flattened(lists, 0, g)
    BY DEF Flattened
  <2> QED BY <2>1
<1>2. ASSUME NEW k \in Nat, k \in T
      PROVE  k + 1 \in T
  <2>1. PICK g : Flattened(lists, k, g)
    BY <1>2
  <2> DEFINE last == IF k + 1 = 1 THEN lists[k + 1] ELSE g[k] \o lists[k + 1]
             h == [i \in 1..(k + 1) |-> IF i = k + 1 THEN last ELSE g[i]]
  <2>2. \A i \in 1..k : g[i] = IF i = 1 THEN lists[i] ELSE g[i - 1] \o lists[i]
    BY <2>1 DEF Flattened
  <2> HIDE DEF last
  <2>3. h[k + 1] = last /\ \A i \in 1..k : h[i] = g[i]
    OBVIOUS
  <2>4. h = [i \in 1..(k + 1) |-> h[i]]
    OBVIOUS
  <2> HIDE DEF h
  <2>5. ASSUME NEW i \in 1..(k + 1)
        PROVE  h[i] = IF i = 1 THEN lists[i] ELSE h[i - 1] \o lists[i]
    <3>1. CASE i = k + 1
      <4>1. k + 1 # 1 => h[k] = g[k]
        BY <2>3
      <4>2. (k + 1) - 1 = k
        OBVIOUS
      <4> QED BY <2>3, <3>1, <4>1, <4>2 DEF last
    <3>2. CASE i # k + 1
      <4>1. i \in 1..k /\ (i # 1 => i - 1 \in 1..k)
        BY <3>2
      <4> QED BY <2>2, <2>3, <4>1
    <3> QED BY <3>1, <3>2
  <2>6. Flattened(lists, k + 1, h)
    BY <2>4, <2>5 DEF Flattened
  <2> QED BY <2>6
<1> HIDE DEF T
<1>3. n \in T
  BY <1>1, <1>2, NumberInduction
<1> QED BY <1>3 DEF T

LEMMA FlattenUnfolds ==
    ASSUME NEW lists, Len(lists) # 0
    PROVE  FlattenSeq(lists) = (CHOOSE g : Flattened(lists, Len(lists), g))[Len(lists)]
BY DEF FlattenSeq, Flattened

\* Both parts of a list are in it.
LEMMA Joined ==
    ASSUME NEW S, NEW a \in Seq(S), NEW b \in Seq(S)
    PROVE  ToSet(a) \subseteq ToSet(a \o b) /\ ToSet(b) \subseteq ToSet(a \o b)
<1>1. \A k \in 1..Len(a) : k \in DOMAIN (a \o b) /\ (a \o b)[k] = a[k]
  OBVIOUS
<1>2. \A k \in 1..Len(b) : Len(a) + k \in DOMAIN (a \o b) /\ (a \o b)[Len(a) + k] = b[k]
  OBVIOUS
<1>3. ToSet(a) \subseteq ToSet(a \o b)
  BY <1>1 DEF ToSet
<1>4. ASSUME NEW k \in 1..Len(b)
      PROVE  b[k] \in ToSet(a \o b)
  BY <1>2 DEF ToSet
<1>5. ToSet(b) \subseteq ToSet(a \o b)
  BY <1>4 DEF ToSet
<1> QED BY <1>3, <1>5

\* The entries of lists, one list after the other, are all entries of the lists
\* and no others.
LEMMA FlattenHolds ==
    ASSUME NEW S, NEW lists \in Seq(Seq(S))
    PROVE  /\ FlattenSeq(lists) \in Seq(S)
           /\ \A i \in DOMAIN lists : ToSet(lists[i]) \subseteq ToSet(FlattenSeq(lists))
<1>1. Len(lists) \in Nat /\ DOMAIN lists = 1..Len(lists)
      /\ \A i \in 1..Len(lists) : lists[i] \in Seq(S)
  OBVIOUS
<1>2. CASE Len(lists) = 0
  <2>1. lists = <<>>
    BY <1>1, <1>2
  <2>2. FlattenSeq(lists) = <<>>
    BY <1>2, <2>1 DEF FlattenSeq
  <2> QED BY <1>1, <1>2, <2>2
<1>3. CASE Len(lists) # 0
  <2> DEFINE g == CHOOSE h : Flattened(lists, Len(lists), h)
  <2>1. Flattened(lists, Len(lists), g)
    BY <1>1, FlattenDefined
  <2>2. FlattenSeq(lists) = g[Len(lists)]
    BY <1>3, FlattenUnfolds
  <2> HIDE DEF g
  <2>3. \A i \in 1..Len(lists) : g[i] = IF i = 1 THEN lists[i] ELSE g[i - 1] \o lists[i]
    BY <2>1 DEF Flattened
  <2> DEFINE Good(n) ==
                 /\ g[n] \in Seq(S)
                 /\ \A i \in 1..n : ToSet(lists[i]) \subseteq ToSet(g[n])
             T == {n \in Nat : n \in 1..Len(lists) => Good(n)}
  <2>4. 0 \in T
    OBVIOUS
  <2>5. ASSUME NEW n \in Nat, n \in T
        PROVE  n + 1 \in T
    <3>1. SUFFICES ASSUME n + 1 \in 1..Len(lists)
                   PROVE  Good(n + 1)
      OBVIOUS
    <3>2. CASE n = 0
      <4>1. g[1] = lists[1] /\ lists[1] \in Seq(S)
        BY <1>1, <2>3, <3>1, <3>2
      <4> QED BY <3>2, <4>1
    <3>3. CASE n # 0
      <4>1. n \in 1..Len(lists)
        BY <1>1, <3>1, <3>3
      <4>2. Good(n)
        BY <2>5, <4>1
      <4>3. g[n + 1] = g[n] \o lists[n + 1] /\ lists[n + 1] \in Seq(S)
        <5>1. n + 1 # 1 /\ (n + 1) - 1 = n
          BY <3>3
        <5> QED BY <1>1, <2>3, <3>1, <5>1
      <4>4. g[n + 1] \in Seq(S)
        BY <4>2, <4>3
      <4>5. ToSet(g[n]) \subseteq ToSet(g[n + 1]) /\ ToSet(lists[n + 1]) \subseteq ToSet(g[n + 1])
        BY <4>2, <4>3, Joined
      <4>6. ASSUME NEW i \in 1..(n + 1)
            PROVE  ToSet(lists[i]) \subseteq ToSet(g[n + 1])
        <5>1. i = n + 1 \/ i \in 1..n
          OBVIOUS
        <5> QED BY <4>2, <4>5, <5>1
      <4> QED BY <4>4, <4>6
    <3> QED BY <3>2, <3>3
  <2> HIDE DEF T
  <2>6. Nat \subseteq T
    BY <2>4, <2>5, NumberInduction
  <2>7. Good(Len(lists))
    <3>1. Len(lists) \in T /\ Len(lists) \in 1..Len(lists)
      BY <1>1, <1>3, <2>6
    <3> HIDE DEF Good
    <3> QED BY <3>1 DEF T
  <2> QED BY <1>1, <2>2, <2>7
<1> QED BY <1>2, <1>3

\* Entries of a list of lists are entries of one of them.
LEMMA FlattenEntries ==
    ASSUME NEW S, NEW lists \in Seq(Seq(S))
    PROVE  \A x : x \in ToSet(FlattenSeq(lists)) <=> \E i \in DOMAIN lists : x \in ToSet(lists[i])
<1> DEFINE U == {x \in S : \E i \in DOMAIN lists : x \in ToSet(lists[i])}
<1>1. \A i \in DOMAIN lists : lists[i] \in Seq(U)
  <2>1. ASSUME NEW i \in DOMAIN lists
        PROVE  lists[i] \in Seq(U)
    <3>1. lists[i] \in Seq(S)
      OBVIOUS
    <3>2. \A k \in 1..Len(lists[i]) : lists[i][k] \in U
      BY <3>1 DEF ToSet
    <3> HIDE DEF U
    <3> PICK list : list = lists[i]
      OBVIOUS
    <3>3. list \in Seq(S) /\ \A k \in 1..Len(list) : list[k] \in U
      BY <3>1, <3>2
    <3>4. list \in Seq(U)
      BY <3>3
    <3> QED BY <3>4
  <2> QED BY <2>1
<1> HIDE DEF U
<1>2. lists \in Seq(Seq(U))
  BY <1>1
<1>3. /\ FlattenSeq(lists) \in Seq(U)
      /\ \A i \in DOMAIN lists : ToSet(lists[i]) \subseteq ToSet(FlattenSeq(lists))
  BY <1>2, FlattenHolds
<1>4. ToSet(FlattenSeq(lists)) \subseteq U
  BY <1>3 DEF ToSet
<1> QED BY <1>3, <1>4 DEF U

\* The missions of a tree, in order, are those of its modules.
LEMMA OrderOf ==
    ASSUME NEW S, NEW tree \in Seq(Seq(Seq(S)))
    PROVE  /\ MissionOrder(tree) \in Seq(S)
           /\ \A x : x \in ToSet(MissionOrder(tree)) <=>
                 \E c \in DOMAIN tree : \E k \in DOMAIN tree[c] : x \in ToSet(tree[c][k])
<1>1. PICK modules : modules = FlattenSeq(tree)
  OBVIOUS
<1>2. /\ modules \in Seq(Seq(S))
      /\ \A e : e \in ToSet(modules) <=> \E c \in DOMAIN tree : e \in ToSet(tree[c])
  BY <1>1, FlattenHolds, FlattenEntries
<1>3. MissionOrder(tree) = FlattenSeq(modules)
  BY <1>1 DEF MissionOrder
<1>4. /\ FlattenSeq(modules) \in Seq(S)
      /\ \A x : x \in ToSet(FlattenSeq(modules)) <=> \E i \in DOMAIN modules : x \in ToSet(modules[i])
  BY <1>2, FlattenHolds, FlattenEntries
<1>5. \A x : (\E i \in DOMAIN modules : x \in ToSet(modules[i])) <=>
             (\E e \in ToSet(modules) : x \in ToSet(e))
  BY DEF ToSet
<1>6. \A x : (\E e \in ToSet(modules) : x \in ToSet(e)) <=>
             \E c \in DOMAIN tree : \E e \in ToSet(tree[c]) : x \in ToSet(e)
  BY <1>2
<1>7. \A c \in DOMAIN tree : \A x :
          (\E e \in ToSet(tree[c]) : x \in ToSet(e)) <=>
          \E k \in DOMAIN tree[c] : x \in ToSet(tree[c][k])
  BY DEF ToSet
<1> QED BY <1>3, <1>4, <1>5, <1>6, <1>7

LEMMA ModulesHold ==
    /\ Modules \in Seq(Seq(Missions))
    /\ \A m \in Missions : \E i \in DOMAIN Modules : m \in ToSet(Modules[i])
<1>1. Modules \in Seq(Seq(Missions))
  BY LearningAssumption, FlattenHolds DEF Modules
<1>2. Missions = ToSet(FlattenSeq(Modules))
  BY DEF Missions, MissionOrder, Modules
<1> QED BY <1>1, <1>2, FlattenEntries

\* Of a module, the missions that were found.
LEMMA FoundOf ==
    ASSUME NEW S, NEW module \in Seq(S), NEW there
    PROVE  /\ Found(module, there) \in Seq(S)
           /\ \A x : x \in ToSet(Found(module, there)) <=> x \in ToSet(module) /\ x \in there
<1> DEFINE lists == [i \in DOMAIN module |-> IF module[i] \in there THEN <<module[i]>> ELSE <<>>]
<1>1. \A i \in DOMAIN module : /\ module[i] \in S
                               /\ lists[i] \in Seq(S)
                               /\ \A x : x \in ToSet(lists[i]) <=> x = module[i] /\ x \in there
  <2>1. ASSUME NEW i \in DOMAIN module
        PROVE  /\ module[i] \in S
               /\ lists[i] \in Seq(S)
               /\ \A x : x \in ToSet(lists[i]) <=> x = module[i] /\ x \in there
    <3>1. module[i] \in S
      OBVIOUS
    <3>2. CASE module[i] \in there
      <4>1. lists[i] = <<module[i]>>
        BY <3>2
      <4> HIDE DEF lists
      <4> QED BY <3>1, <3>2, <4>1 DEF ToSet
    <3>3. CASE module[i] \notin there
      <4>1. lists[i] = <<>>
        BY <3>3
      <4> HIDE DEF lists
      <4> QED BY <3>1, <3>3, <4>1 DEF ToSet
    <3> QED BY <3>2, <3>3
  <2> QED BY <2>1
<1>2. DOMAIN lists = 1..Len(module) /\ lists = [i \in 1..Len(module) |-> lists[i]]
      /\ DOMAIN module = 1..Len(module) /\ Len(module) \in Nat
  OBVIOUS
<1>3. Found(module, there) = FlattenSeq(lists)
  BY DEF Found
<1> HIDE DEF lists
<1>4. lists \in [1..Len(module) -> Seq(S)]
  BY <1>1, <1>2
<1>5. lists \in Seq(Seq(S))
  BY <1>2, <1>4
<1>6. /\ FlattenSeq(lists) \in Seq(S)
      /\ \A x : x \in ToSet(FlattenSeq(lists)) <=> \E i \in DOMAIN lists : x \in ToSet(lists[i])
  BY <1>5, FlattenHolds, FlattenEntries
<1>7. \A x : (\E i \in DOMAIN lists : x \in ToSet(lists[i])) <=> x \in ToSet(module) /\ x \in there
  <2>1. \A x : (\E i \in DOMAIN lists : x \in ToSet(lists[i])) <=>
               \E i \in DOMAIN module : x = module[i] /\ x \in there
    BY <1>1, <1>2
  <2> QED BY <2>1 DEF ToSet
<1> QED BY <1>3, <1>6, <1>7

\* The tree of the missions found has those, wherever they are.
LEMMA TreeHolds ==
    ASSUME NEW there \in SUBSET Missions
    PROVE  /\ MissionOrder(TreeOf(there)) \in Seq(Missions)
           /\ ToSet(MissionOrder(TreeOf(there))) = there
<1>1. PICK tree : tree = TreeOf(there)
  OBVIOUS
<1>2. tree = [c \in DOMAIN Tree |-> [k \in DOMAIN Tree[c] |-> Found(Tree[c][k], there)]]
  BY <1>1 DEF TreeOf
<1>3. Tree \in Seq(Seq(Seq(Missions)))
  BY LearningAssumption
<1>4. ASSUME NEW c \in DOMAIN Tree
      PROVE  /\ tree[c] \in Seq(Seq(Missions)) /\ DOMAIN tree[c] = DOMAIN Tree[c]
             /\ \A k \in DOMAIN Tree[c] : \A x :
                   x \in ToSet(tree[c][k]) <=> x \in ToSet(Tree[c][k]) /\ x \in there
  <2>1. PICK course : course = Tree[c]
    OBVIOUS
  <2>2. course \in Seq(Seq(Missions)) /\ DOMAIN course = 1..Len(course) /\ Len(course) \in Nat
    BY <1>3, <2>1
  <2>3. tree[c] = [k \in 1..Len(course) |-> Found(course[k], there)]
    BY <1>2, <2>1, <2>2
  <2>4. \A k \in 1..Len(course) :
            /\ Found(course[k], there) \in Seq(Missions)
            /\ \A x : x \in ToSet(Found(course[k], there)) <=> x \in ToSet(course[k]) /\ x \in there
    <3>1. \A k \in 1..Len(course) : course[k] \in Seq(Missions)
      BY <2>2
    <3> QED BY <3>1, FoundOf
  <2>5. tree[c] \in [1..Len(course) -> Seq(Missions)]
    BY <2>3, <2>4
  <2>6. tree[c] \in Seq(Seq(Missions))
    <3> PICK found : found = tree[c]
      OBVIOUS
    <3>1. found \in [1..Len(course) -> Seq(Missions)] /\ Len(course) \in Nat
      BY <2>2, <2>5
    <3>2. found \in Seq(Seq(Missions))
      BY <3>1
    <3> QED BY <3>2
  <2> QED BY <2>1, <2>2, <2>3, <2>4, <2>6
<1>5. Len(Tree) \in Nat /\ DOMAIN Tree = 1..Len(Tree)
  BY <1>3
<1>6. tree \in [1..Len(Tree) -> Seq(Seq(Missions))]
  BY <1>2, <1>4, <1>5
<1>7. tree \in Seq(Seq(Seq(Missions))) /\ DOMAIN tree = DOMAIN Tree
  BY <1>5, <1>6
<1>8. /\ MissionOrder(tree) \in Seq(Missions)
      /\ \A x : x \in ToSet(MissionOrder(tree)) <=>
            \E c \in DOMAIN tree : \E k \in DOMAIN tree[c] : x \in ToSet(tree[c][k])
  BY <1>7, OrderOf
<1>9. \A x : x \in ToSet(MissionOrder(Tree)) <=>
            \E c \in DOMAIN Tree : \E k \in DOMAIN Tree[c] : x \in ToSet(Tree[c][k])
  BY <1>3, OrderOf
<1>10. \A x : x \in ToSet(MissionOrder(tree)) <=> x \in ToSet(MissionOrder(Tree)) /\ x \in there
  BY <1>4, <1>7, <1>8, <1>9
<1>11. ToSet(MissionOrder(tree)) = there
  BY <1>10 DEF Missions
<1> QED BY <1>1, <1>8, <1>11

\* Of numbers up to a bound one is the largest.
LEMMA LargestElement ==
    ASSUME NEW T, T \subseteq Nat, T # {}, NEW n \in Nat, \A x \in T : x <= n
    PROVE  \E x \in T : \A y \in T : y <= x
<1> DEFINE U == {n - x : x \in T}
<1>1. U \subseteq Nat /\ U # {}
  OBVIOUS
<1> HIDE DEF U
<1>2. PICK u \in U : \A v \in U : <<v, u>> \notin OpToRel(<, Nat)
  BY <1>1, NatLessThanWellFounded, WFMin
<1>3. \A v \in U : ~(v < u)
  BY <1>1, <1>2, Zenon DEF OpToRel
<1> HIDE <1>2
<1>4. PICK x \in T : u = n - x
  BY DEF U
<1>5. ASSUME NEW y \in T
      PROVE  y <= x
  <2>1. ~(n - y < n - x)
    BY <1>3, <1>4 DEF U
  <2> QED BY <2>1
<1> QED BY <1>5

\* What is to be resumed is of the missions that were found, as they are
\* recorded, and none of those is in progress, or open, if it is not told so.
ResumeHolds(there, target) ==
    /\ target.reason \in {"resume_in_progress", "next_after_completed", "first_incomplete",
                          "path_complete"}
    /\ target.reason # "path_complete" =>
          target.mission \in there /\ progress[target.mission].state # "completed"
    /\ target.reason = "path_complete" =>
          /\ target.mission = NoMission
          /\ \A m \in there : progress[m].state = "completed"
    /\ target.reason = "resume_in_progress" => progress[target.mission].state = "in_progress"
    /\ target.reason # "resume_in_progress" =>
          \A m \in there : progress[m].state # "in_progress"

LEMMA Resumed ==
    ASSUME TypeOK, NEW there \in SUBSET Missions
    PROVE  ResumeHolds(there, SelectResumeTarget(TreeOf(there), progress))
<1> DEFINE order == MissionOrder(TreeOf(there))
           active == {i \in DOMAIN order : progress[order[i]].state = "in_progress"}
           done == {i \in DOMAIN order : progress[order[i]].state = "completed"}
           todo == DOMAIN order \ done
           next == IF done = {} THEN 0 ELSE Max(done) + 1
           latest == CHOOSE i \in active : \A j \in active :
                         progress[order[j]].active <= progress[order[i]].active
           target == SelectResumeTarget(TreeOf(there), progress)
<1>1. target = IF active # {} THEN Target("resume_in_progress", order[latest])
               ELSE IF next \in todo THEN Target("next_after_completed", order[next])
               ELSE IF todo # {} THEN Target("first_incomplete", order[Min(todo)])
               ELSE Target("path_complete", NoMission)
  BY Zenon DEF SelectResumeTarget
<1>2. order \in Seq(Missions) /\ ToSet(order) = there
  BY TreeHolds
<1> HIDE DEF order, next, target
<1>3. /\ DOMAIN order \subseteq Nat
      /\ \A i \in DOMAIN order : order[i] \in there
      /\ \A m \in there : \E i \in DOMAIN order : m = order[i]
  BY <1>2 DEF ToSet
<1>4. CASE active # {}
  <2>1. latest \in active
    <3> DEFINE T == {progress[order[i]].active : i \in active}
    <3>1. \A i \in active : progress[order[i]].active \in 0..MaxClock
      BY <1>3 DEF TypeOK, Row
    <3>2. T \subseteq Nat /\ T # {} /\ \A x \in T : x <= MaxClock
      BY <1>4, <3>1, LearningAssumption
    <3> HIDE DEF T
    <3>3. PICK x \in T : \A y \in T : y <= x
      BY <3>2, LargestElement, LearningAssumption
    <3>4. \E i \in active : \A j \in active :
              progress[order[j]].active <= progress[order[i]].active
      BY <3>3 DEF T
    <3> HIDE DEF active
    <3> QED BY <3>4
  <2> HIDE DEF latest
  <2>2. order[latest] \in there /\ progress[order[latest]].state = "in_progress"
    BY <1>3, <2>1
  <2>3. target = Target("resume_in_progress", order[latest])
    BY <1>1, <1>4
  <2> QED BY <2>2, <2>3 DEF target, ResumeHolds, Target
<1>5. CASE active = {}
  <2> HIDE DEF latest
  <2>1. \A m \in there : progress[m].state # "in_progress"
    BY <1>3, <1>5
  <2>2. CASE next \in todo
    <3>1. target = Target("next_after_completed", order[next])
      BY <1>1, <1>5, <2>2
    <3>2. order[next] \in there /\ progress[order[next]].state # "completed"
      BY <1>3, <2>2
    <3> QED BY <2>1, <3>1, <3>2 DEF target, ResumeHolds, Target
  <2>3. CASE next \notin todo /\ todo # {}
    <3>1. target = Target("first_incomplete", order[Min(todo)])
      BY <1>1, <1>5, <2>3
    <3>2. Min(todo) \in todo
      BY <1>3, <2>3, SmallestElement
    <3>3. order[Min(todo)] \in there /\ progress[order[Min(todo)]].state # "completed"
      BY <1>3, <3>2
    <3> QED BY <2>1, <3>1, <3>3 DEF target, ResumeHolds, Target
  <2>4. CASE todo = {}
    <3>1. target = Target("path_complete", NoMission)
      BY <1>1, <1>5, <2>4
    <3>2. \A m \in there : progress[m].state = "completed"
      BY <1>3, <2>4
    <3> QED BY <2>1, <3>1, <3>2 DEF target, ResumeHolds, Target
  <2> QED BY <2>2, <2>3, <2>4
<1> QED BY <1>4, <1>5

Answers == [mission : Missions \cup {NoMission},
            action : {"unknown", "continue_mission", "start_mission", "path_complete",
                      "resume_in_progress", "next_after_completed", "first_incomplete"}]

GuideStates ==
    {Idle} \cup [step : {"tree"}, read : SUBSET Missions, unread : SUBSET DOMAIN Modules]
           \cup [step : {"told"}, answer : Answers]

\* The page's readings begin and end together.
ReadTogether == \A g, o \in Guides : guide[g] = Idle => guide[o] = Idle

\* An answer to "what is next", and one to "where was I".
TrueNext(answer) ==
    /\ answer.action = "continue_mission" =>
          answer.mission # NoMission /\ "active" \in ever[answer.mission]
    /\ answer.action = "start_mission" =>
          \A m \in Missions : ~({"published", "active"} \subseteq always[m])
    /\ answer.action = "path_complete" =>
          /\ answer.mission = NoMission
          /\ \A m \in Missions : ~({"published", "open"} \subseteq always[m])

\* What has been read was there while it was asked, what was there all the time
\* has been read or will be, and what was told was so.
TrueReading(g) ==
    /\ guide[g].step = "tree" =>
          /\ \A m \in guide[g].read : "published" \in ever[m]
          /\ \A m \in Missions : "published" \in always[m] =>
                m \in guide[g].read \/ \E i \in guide[g].unread : m \in ToSet(Modules[i])
    /\ guide[g].step = "told" =>
          /\ guide[g].answer.mission # NoMission =>
                {"published", "open"} \subseteq ever[guide[g].answer.mission]
          /\ g = "next" => TrueNext(guide[g].answer)

GuideInv ==
    /\ guide \in [Guides -> GuideStates]
    /\ ReadTogether
    /\ \A g \in Guides : TrueReading(g)

LEMMA GuideParts ==
    ASSUME NEW s \in GuideStates
    PROVE  /\ s.step \in {"idle", "tree", "told"} /\ (s = Idle <=> s.step = "idle")
           /\ s.step = "tree" =>
                 s = [step |-> "tree", read |-> s.read, unread |-> s.unread]
                 /\ s.read \in SUBSET Missions /\ s.unread \in SUBSET DOMAIN Modules
           /\ s.step = "told" => s = [step |-> "told", answer |-> s.answer] /\ s.answer \in Answers
BY DEF GuideStates, Idle

\* While the page reads, facts once true stay in ever, and those in always are
\* true now.
LEMMA FactsGather ==
    ASSUME TypeOK, Witnessed, Reading', NEW m \in Missions
    PROVE  /\ ever[m] \cup Facts(m)' \subseteq ever'[m]
           /\ always'[m] \subseteq Facts(m)'
           /\ Reading => always'[m] \subseteq always[m]
<1> DEFINE fact == [n \in Missions |-> Facts(n)']
<1>1. /\ ever' = [n \in Missions |-> ever[n] \cup fact[n]]
      /\ always' = IF ~Reading THEN fact ELSE [n \in Missions |-> always[n] \cap fact[n]]
  BY DEF Witnessed
<1>2. fact[m] = Facts(m)'
  OBVIOUS
<1> HIDE DEF fact
<1> QED BY <1>1, <1>2

LEMMA FactsAre ==
    ASSUME NEW m \in Missions
    PROVE  /\ "published" \in Facts(m) <=> m \in published
           /\ "open" \in Facts(m) <=> progress[m].state # "completed"
           /\ "active" \in Facts(m) <=> progress[m].state = "in_progress"
BY DEF Facts

\* What stays of the readings when they are not moved.
LEMMA TruthStays ==
    ASSUME TypeOK, GuideInv, Witnessed, Reading, Reading', NEW g \in Guides,
           guide'[g] = guide[g]
    PROVE  TrueReading(g)'
<1>1. \A m \in Missions : ever[m] \subseteq ever'[m] /\ always'[m] \subseteq always[m]
  BY FactsGather
<1>2. guide[g] \in GuideStates
  BY DEF GuideInv
<1>3. CASE guide[g].step = "tree"
  <2>1. guide[g].read \in SUBSET Missions
    BY <1>2, <1>3, GuideParts
  <2> QED BY <1>1, <1>3, <2>1 DEF GuideInv, TrueReading
<1>4. CASE guide[g].step = "told"
  <2>1. guide[g].answer \in Answers
    BY <1>2, <1>4, GuideParts
  <2>2. PICK answer \in Answers : answer = guide[g].answer /\ answer = guide'[g].answer
    BY <2>1
  <2>3. answer.mission \in Missions \cup {NoMission}
    BY DEF Answers
  <2>4. answer.mission # NoMission => {"published", "open"} \subseteq ever[answer.mission]
    BY <1>4, <2>2 DEF GuideInv, TrueReading
  <2>5. g = "next" => TrueNext(answer)
    BY <1>4, <2>2 DEF GuideInv, TrueReading
  <2>6. answer.mission # NoMission => {"published", "open"} \subseteq ever'[answer.mission]
    BY <1>1, <2>3, <2>4
  <2>7. g = "next" => TrueNext(answer)'
    <3>1. SUFFICES ASSUME TrueNext(answer)
                   PROVE  TrueNext(answer)'
      BY <2>5
    <3>2. CASE answer.mission \in Missions
      BY <1>1, <3>1, <3>2 DEF TrueNext
    <3>3. CASE answer.mission = NoMission
      BY <1>1, <3>1, <3>3 DEF TrueNext
    <3> QED BY <2>3, <3>2, <3>3
  <2> QED BY <1>4, <2>2, <2>6, <2>7 DEF TrueReading
<1>5. CASE guide[g].step = "idle"
  BY <1>5 DEF TrueReading
<1> QED BY <1>2, <1>3, <1>4, <1>5, GuideParts

\* Where nothing is read, nothing has to be true.
LEMMA NothingRead ==
    ASSUME \A g \in Guides : guide[g] = Idle
    PROVE  ReadTogether /\ \A g \in Guides : TrueReading(g)
BY DEF ReadTogether, TrueReading, Idle

LEMMA GuideInvInit == Init => GuideInv
<1> SUFFICES ASSUME Init PROVE GuideInv
  OBVIOUS
<1>1. guide = [g \in Guides |-> Idle] /\ Idle \in GuideStates
  BY DEF Init, GuideStates
<1>2. \A g \in Guides : guide[g] = Idle
  BY <1>1
<1> QED BY <1>1, <1>2, NothingRead DEF GuideInv

\* Either all guides are read, or none.
LEMMA AllOrNone ==
    ASSUME ReadTogether, NEW g \in Guides
    PROVE  /\ guide[g] # Idle => Reading
           /\ guide[g] = Idle => \A o \in Guides : guide[o] = Idle
BY DEF ReadTogether, Reading

\* Whoever records, publishes or satisfies meanwhile.
LEMMA OthersLeaveGuides ==
    ASSUME TypeOK, GuideInv, Witnessed, guide' = guide
    PROVE  GuideInv'
<1>1. CASE Reading
  <2>1. Reading'
    BY <1>1 DEF Reading
  <2>2. \A g \in Guides : TrueReading(g)'
    BY <1>1, <2>1, TruthStays
  <2> QED BY <2>2 DEF GuideInv, ReadTogether
<1>2. CASE ~Reading
  <2>1. \A g \in Guides : guide[g] = Idle
    BY <1>2 DEF Reading, GuideInv, ReadTogether
  <2>2. \A g \in Guides : guide'[g] = Idle
    BY <2>1
  <2>3. \A g \in Guides : TrueReading(g)'
    BY <2>2 DEF TrueReading, Idle
  <2>4. ReadTogether'
    BY <2>2 DEF ReadTogether
  <2> QED BY <2>3, <2>4 DEF GuideInv
<1> QED BY <1>1, <1>2

\* A step of one guide that was read and is being read.
LEMMA OneIsRead ==
    ASSUME TypeOK, GuideInv, Witnessed, NEW o \in Guides, guide[o] # Idle,
           NEW next \in GuideStates, next # Idle, guide' = [guide EXCEPT ![o] = next],
           Reading' => TrueReading(o)'
    PROVE  GuideInv'
<1>1. guide' \in [Guides -> GuideStates]
  BY DEF GuideInv
<1>2. Reading
  BY AllOrNone DEF GuideInv
<1>3. guide'[o] = next /\ \A g \in Guides : g # o => guide'[g] = guide[g]
  BY DEF GuideInv
<1>4. \A g \in Guides : guide'[g] # Idle
  BY <1>2, <1>3 DEF Reading
<1>5. Reading' /\ ReadTogether'
  BY <1>4 DEF Reading, ReadTogether
<1>6. ASSUME NEW g \in Guides
      PROVE  TrueReading(g)'
  <2>1. CASE g = o
    BY <1>5, <2>1
  <2>2. CASE g # o
    BY <1>2, <1>3, <1>5, <2>2, TruthStays
  <2> QED BY <2>1, <2>2
<1> QED BY <1>1, <1>5, <1>6 DEF GuideInv

LEMMA LoadKeeps ==
    ASSUME TypeOK, GuideInv, Witnessed, LoadGuidance
    PROVE  GuideInv'
<1> DEFINE asking == [step |-> "tree", read |-> {}, unread |-> DOMAIN Modules]
<1>1. guide' = [g \in Guides |-> asking]
  BY DEF LoadGuidance
<1>2. asking \in GuideStates /\ asking # Idle
  BY DEF GuideStates, Idle
<1>3. asking.step = "tree" /\ asking.read = {} /\ asking.unread = DOMAIN Modules
  OBVIOUS
<1> HIDE DEF asking
<1>4. guide' \in [Guides -> GuideStates] /\ \A g \in Guides : guide'[g] = asking
  BY <1>1, <1>2
<1>5. \A m \in Missions : \E i \in DOMAIN Modules : m \in ToSet(Modules[i])
  BY ModulesHold
<1>6. ReadTogether'
  BY <1>2, <1>4 DEF ReadTogether
<1>7. \A g \in Guides : TrueReading(g)'
  BY <1>3, <1>4, <1>5 DEF TrueReading
<1> QED BY <1>4, <1>6, <1>7 DEF GuideInv

LEMMA ModuleKeeps ==
    ASSUME TypeOK, GuideInv, Witnessed, NEW o \in Guides, NEW i \in DOMAIN Modules,
           ReadModule(o, i)
    PROVE  GuideInv'
<1> DEFINE here == ToSet(Modules[i]) \cap published
           next == [step |-> "tree", read |-> guide[o].read \cup here,
                    unread |-> guide[o].unread \ {i}]
<1>1. /\ guide[o].step = "tree" /\ published' = published
      /\ guide' = [guide EXCEPT ![o] = next]
  BY DEF ReadModule
<1>2. /\ guide[o] = [step |-> "tree", read |-> guide[o].read, unread |-> guide[o].unread]
      /\ guide[o].read \in SUBSET Missions /\ guide[o].unread \in SUBSET DOMAIN Modules
      /\ guide[o] # Idle
  BY <1>1, GuideParts DEF GuideInv
<1>3. here \in SUBSET published /\ here \in SUBSET Missions
  BY DEF TypeOK
<1>4. next \in GuideStates /\ next # Idle
  BY <1>2, <1>3 DEF GuideStates, Idle
<1>5. next.step = "tree" /\ next.read = guide[o].read \cup here /\ next.unread = guide[o].unread \ {i}
  OBVIOUS
<1>6. ToSet(Modules[i]) \cap published \subseteq here
  OBVIOUS
<1> HIDE DEF next, here
<1>7. ASSUME Reading'
      PROVE  TrueReading(o)'
  <2>1. guide'[o] = next
    BY <1>1 DEF GuideInv
  <2>2. Reading
    BY <1>2, AllOrNone DEF GuideInv
  <2>3. \A m \in Missions : /\ ever[m] \cup Facts(m)' \subseteq ever'[m]
                            /\ always'[m] \subseteq Facts(m)' \cap always[m]
    BY <1>7, <2>2, FactsGather
  <2>4. \A m \in Missions : "published" \in Facts(m)' <=> m \in published
    BY <1>1 DEF Facts
  <2>5. ASSUME NEW m \in guide[o].read \cup here
        PROVE  "published" \in ever'[m]
    <3>1. CASE m \in here
      BY <1>3, <2>3, <2>4, <3>1
    <3>2. CASE m \in guide[o].read
      <4>1. "published" \in ever[m]
        BY <1>1, <3>2 DEF GuideInv, TrueReading
      <4> QED BY <1>2, <2>3, <3>2, <4>1
    <3> QED BY <3>1, <3>2
  <2>6. ASSUME NEW m \in Missions, "published" \in always'[m]
        PROVE  m \in guide[o].read \cup here \/ \E k \in guide[o].unread \ {i} : m \in ToSet(Modules[k])
    <3>1. m \in published /\ "published" \in always[m]
      BY <2>3, <2>4, <2>6
    <3>2. m \in guide[o].read \/ \E k \in guide[o].unread : m \in ToSet(Modules[k])
      BY <1>1, <3>1 DEF GuideInv, TrueReading
    <3> QED BY <1>6, <3>1, <3>2
  <2> QED BY <1>5, <2>1, <2>5, <2>6 DEF TrueReading
<1> QED BY <1>1, <1>2, <1>4, <1>7, OneIsRead

\* A guide that has answered, or not, was asked and has read nothing since.
LEMMA ToldKeeps ==
    ASSUME TypeOK, GuideInv, Witnessed, NEW o \in Guides, guide[o].step = "tree",
           NEW answer \in Answers,
           guide' = [guide EXCEPT ![o] = [step |-> "told", answer |-> answer]],
           Reading' =>
              /\ answer.mission # NoMission =>
                    {"published", "open"} \subseteq ever'[answer.mission]
              /\ o = "next" => TrueNext(answer)'
    PROVE  GuideInv'
<1> DEFINE next == [step |-> "told", answer |-> answer]
<1>1. next \in GuideStates /\ next # Idle /\ next.step = "told" /\ next.answer = answer
  BY DEF GuideStates, Idle
<1>2. guide' = [guide EXCEPT ![o] = next]
  OBVIOUS
<1>3. guide[o] # Idle
  BY DEF Idle
<1> HIDE DEF next
<1>4. guide'[o] = next
  BY <1>2 DEF GuideInv
<1>5. Reading' => TrueReading(o)'
  BY <1>1, <1>4 DEF TrueReading
<1> QED BY <1>1, <1>2, <1>3, <1>5, OneIsRead

LEMMA FailKeeps ==
    ASSUME TypeOK, GuideInv, Witnessed, NEW o \in Guides, GuideFails(o)
    PROVE  GuideInv'
<1>1. Unanswered \in Answers /\ Unanswered.mission = NoMission /\ Unanswered.action = "unknown"
  BY DEF Unanswered, Answers
<1>2. TrueNext(Unanswered)'
  BY <1>1 DEF TrueNext
<1>3. /\ guide[o].step = "tree"
      /\ guide' = [guide EXCEPT ![o] = [step |-> "told", answer |-> Unanswered]]
  BY DEF GuideFails
<1> QED BY <1>1, <1>2, <1>3, ToldKeeps

LEMMA RowsKeep ==
    ASSUME TypeOK, GuideInv, Witnessed, NEW o \in Guides, ReadRows(o)
    PROVE  GuideInv'
<1>1. PICK resume : resume = SelectResumeTarget(TreeOf(guide[o].read), progress)
  OBVIOUS
<1>2. PICK answer : answer = Told(o, resume)
  OBVIOUS
<1>3. /\ guide[o].step = "tree" /\ guide[o].unread = {}
      /\ guide' = [guide EXCEPT ![o] = [step |-> "told", answer |-> answer]]
      /\ published' = published /\ progress' = progress
  BY <1>1, <1>2 DEF ReadRows, recordVars
<1>4. PICK there \in SUBSET Missions : there = guide[o].read
  BY <1>3, GuideParts DEF GuideInv
<1>5. ResumeHolds(there, resume)
  BY <1>1, <1>4, Resumed
<1>6. resume.mission \in Missions \cup {NoMission}
  BY <1>5 DEF ResumeHolds
<1>7. /\ answer \in Answers /\ answer.mission = resume.mission
      /\ o = "next" => answer.action = CASE resume.reason = "path_complete" -> "path_complete"
                              [] resume.reason = "resume_in_progress" -> "continue_mission"
                              [] OTHER -> "start_mission"
  <2>1. CASE o = "next"
    <3>1. answer = RecommendNextAction(resume)
      BY <1>2, <2>1 DEF Told
    <3> QED BY <1>5, <1>6, <2>1, <3>1 DEF RecommendNextAction, Answers, ResumeHolds
  <2>2. CASE o # "next"
    <3>1. answer = [mission |-> resume.mission, action |-> resume.reason]
      BY <1>2, <2>2 DEF Told
    <3> QED BY <1>5, <1>6, <2>2, <3>1 DEF Answers, ResumeHolds
  <2> QED BY <2>1, <2>2
<1>8. \A m \in Missions : /\ "published" \in Facts(m)' <=> m \in published
                          /\ "open" \in Facts(m)' <=> progress[m].state # "completed"
                          /\ "active" \in Facts(m)' <=> progress[m].state = "in_progress"
  BY <1>3 DEF Facts
<1>9. ASSUME Reading'
      PROVE  /\ answer.mission # NoMission =>
                    {"published", "open"} \subseteq ever'[answer.mission]
             /\ o = "next" => TrueNext(answer)'
  <2>1. Reading
    <3>1. guide[o] # Idle
      BY <1>3 DEF Idle
    <3> QED BY <3>1, AllOrNone DEF GuideInv
  <2>2. \A m \in Missions : /\ ever[m] \cup Facts(m)' \subseteq ever'[m]
                            /\ always'[m] \subseteq Facts(m)' \cap always[m]
    BY <1>9, <2>1, FactsGather
  <2>3. \A m \in there : "published" \in ever'[m]
    BY <1>3, <1>4, <2>2 DEF GuideInv, TrueReading
  <2>4. \A m \in Missions : "published" \in always'[m] => m \in there
    BY <1>3, <1>4, <2>2 DEF GuideInv, TrueReading
  <2>5. answer.mission # NoMission => {"published", "open"} \subseteq ever'[answer.mission]
    <3>1. SUFFICES ASSUME answer.mission # NoMission
                   PROVE  {"published", "open"} \subseteq ever'[answer.mission]
      OBVIOUS
    <3>2. answer.mission \in there /\ progress[answer.mission].state # "completed"
      BY <1>5, <1>7, <3>1 DEF ResumeHolds
    <3> QED BY <1>4, <1>8, <2>2, <2>3, <3>2
  <2>6. ASSUME o = "next"
        PROVE  TrueNext(answer)'
    <3>1. answer.action = CASE resume.reason = "path_complete" -> "path_complete"
                            [] resume.reason = "resume_in_progress" -> "continue_mission"
                            [] OTHER -> "start_mission"
      BY <1>7, <2>6
    <3>2. CASE resume.reason = "path_complete"
      <4>1. answer.action = "path_complete" /\ answer.mission = NoMission
        BY <1>5, <1>7, <3>1, <3>2 DEF ResumeHolds
      <4>2. \A m \in there : progress[m].state = "completed"
        BY <1>5, <3>2 DEF ResumeHolds
      <4>3. \A m \in Missions : ~({"published", "open"} \subseteq always'[m])
        BY <1>4, <1>8, <2>2, <2>4, <4>2
      <4> QED BY <4>1, <4>3 DEF TrueNext
    <3>3. CASE resume.reason = "resume_in_progress"
      <4>1. answer.action = "continue_mission"
        BY <3>1, <3>3
      <4>2. resume.mission \in there /\ progress[resume.mission].state = "in_progress"
        BY <1>5, <3>3 DEF ResumeHolds
      <4>3. answer.mission # NoMission /\ "active" \in ever'[answer.mission]
        BY <1>4, <1>7, <1>8, <2>2, <4>2, LearningAssumption
      <4> QED BY <4>1, <4>3 DEF TrueNext
    <3>4. CASE resume.reason \notin {"path_complete", "resume_in_progress"}
      <4>1. answer.action = "start_mission"
        BY <3>1, <3>4
      <4>2. \A m \in there : progress[m].state # "in_progress"
        BY <1>5, <3>4 DEF ResumeHolds
      <4>3. \A m \in Missions : ~({"published", "active"} \subseteq always'[m])
        BY <1>4, <1>8, <2>2, <2>4, <4>2
      <4> QED BY <4>1, <4>3 DEF TrueNext
    <3> QED BY <3>2, <3>3, <3>4
  <2> QED BY <2>5, <2>6
<1> QED BY <1>3, <1>7, <1>9, ToldKeeps

LEMMA LeaveKeeps ==
    ASSUME GuideInv, Leave
    PROVE  GuideInv'
<1>1. guide' = [g \in Guides |-> Idle] /\ Idle \in GuideStates
  BY DEF Leave, GuideStates
<1>2. \A g \in Guides : guide'[g] = Idle
  BY <1>1
<1>3. \A g \in Guides : TrueReading(g)'
  BY <1>2 DEF TrueReading, Idle
<1> QED BY <1>1, <1>2, <1>3 DEF GuideInv, ReadTogether

LEMMA GuideInvNext == TypeOK /\ GuideInv /\ [Next]_vars => GuideInv'
<1> SUFFICES ASSUME TypeOK, GuideInv, [Next]_vars
             PROVE  GuideInv'
  OBVIOUS
<1>1. CASE UNCHANGED vars
  BY <1>1 DEF vars, recordVars, GuideInv, ReadTogether, TrueReading, TrueNext
<1>2. ASSUME Witnessed, NEW r \in Requests, Record(r)
      PROVE  GuideInv'
  BY <1>2, OneMoves, OthersLeaveGuides
<1>3. CASE Witnessed /\ Guidance
  BY <1>3, LoadKeeps, ModuleKeeps, RowsKeep, FailKeeps, LeaveKeeps DEF Guidance
<1>4. ASSUME Witnessed,
             \/ \E m \in Moving : PublishMission(m) \/ RetireMission(m)
             \/ \E q \in Requirements : Satisfy(q)
      PROVE  GuideInv'
  BY <1>4, OthersLeaveGuides DEF PublishMission, RetireMission, Satisfy
<1> QED BY <1>1, <1>2, <1>3, <1>4 DEF Next, Step

\* What the course page offers was right while it asked: the mission was there
\* and not completed, one to continue was being worked on, and nothing is told
\* over a mission that stood open, or in progress, all the time, though the tree
\* is read module by module and the rows after it (getPublishedLearningPathTree,
\* recommendNextAction, resolveContinueTarget).
THEOREM OffersAreTrue == Spec => []OfferIsTrue
<1>1. GuideInv => OfferIsTrue
  <2> SUFFICES ASSUME GuideInv, Settled
               PROVE  /\ Offered.mission # NoMission =>
                            {"published", "open"} \subseteq ever[Offered.mission]
                      /\ Offered.action = "continue_mission" => "active" \in ever[Offered.mission]
                      /\ Offered.action = "start_mission" /\ guide["next"].answer # Unanswered =>
                            \A m \in Missions : ~({"published", "active"} \subseteq always[m])
                      /\ Offered.action = "path_complete" =>
                            \A m \in Missions : ~({"published", "open"} \subseteq always[m])
    BY DEF OfferIsTrue
  <2>1. PICK next, resume : next = guide["next"].answer /\ resume = guide["resume"].answer
    OBVIOUS
  <2>2. guide["next"].step = "told" /\ guide["resume"].step = "told"
    BY DEF Settled, Guides
  <2>3. next \in Answers /\ resume \in Answers
    BY <2>1, <2>2, GuideParts DEF GuideInv, Guides
  <2>4. /\ next.mission # NoMission => {"published", "open"} \subseteq ever[next.mission]
        /\ resume.mission # NoMission => {"published", "open"} \subseteq ever[resume.mission]
        /\ TrueNext(next)
    BY <2>1, <2>2 DEF GuideInv, TrueReading, Guides
  <2>5. PICK offered : offered = Offer(next, resume, Known)
    OBVIOUS
  <2>6. Offered = offered
    BY <2>1, <2>5 DEF Offered
  <2>7. Unanswered.mission = NoMission /\ Unanswered.action = "unknown"
    BY DEF Unanswered
  <2>8. \/ offered = next /\ next # Unanswered
        \/ /\ next = Unanswered /\ offered.mission = resume.mission
           /\ offered.action = "start_mission"
        \/ offered = Unanswered
    BY <2>3, <2>5 DEF Offer, Answers
  <2> QED BY <2>1, <2>4, <2>6, <2>7, <2>8 DEF TrueNext
<1> QED BY <1>1, GuideInvInit, GuideInvNext, TypeCorrect, PTL DEF Spec

-----------------------------------------------------------------------------
(* One journey.                                                            *)

\* A journey whose stages are a list of stages with lists of checks.
Staged(p) ==
    /\ Len(p.stages) \in Nat /\ Len(p.stages) # 0
    /\ \A k \in 1..Len(p.stages) : p.stages[k].checks \in Seq(ToSet(p.stages[k].checks))

\* What the learner is sent of a journey that an author may write.
Journey(p) ==
    /\ Staged(p)
    /\ p.fault \in Nat /\ NoAction \notin DOMAIN p.actions
    /\ p.fault # 0 => p.stages[p.fault].outcome = "stops"

\* The stage after the one where traffic stops asks for no prediction.
NoneAskedAfterStop(p) ==
    p.fault # 0 /\ p.fault < Len(p.stages) => ~p.stages[p.fault + 1].asks

Repaired(p, s) == p.fault # 0 /\ s.revealed > p.fault => FaultResolved(p, s)

Predicted(p, s, level) ==
    Sequencing(level) = "commit_first" =>
        \A k \in 1..s.revealed : p.stages[k].asks => k \in s.predicted

InOrder(p, s, level) ==
    /\ DOMAIN s = {"revealed", "predicted", "answered", "applied", "beat"}
    /\ s.revealed \in 0..Len(p.stages)
    /\ s.predicted \subseteq 1..s.revealed
    /\ NoneAskedAfterStop(p) => Repaired(p, s)
    /\ Predicted(p, s, level)

\* What the learner is sent is such a journey, withheld parts or not.
LEMMA SentIsJourney ==
    ASSUME NEW j, ValidJourney(j), NEW level
    PROVE  Journey(Projected(j, level))
<1>1. /\ DOMAIN j.stages = 1..Len(j.stages) /\ Len(j.stages) \in Nat
      /\ j.fault \in 0..Len(j.stages)
      /\ j.fault # 0 => j.stages[j.fault].outcome = "stops"
      /\ NoAction \notin DOMAIN j.actions /\ Staged(j)
  BY DEF ValidJourney, ValidStages, ValidFault, Staged
<1>2. CASE ~WithholdsAnswers(level)
  BY <1>1, <1>2 DEF Projected, Journey
<1>3. CASE WithholdsAnswers(level)
  <2> DEFINE p == Projected(j, level)
  <2>1. /\ p.stages = [i \in DOMAIN j.stages |->
                            [j.stages[i] EXCEPT !.explains = FALSE, !.checks = << >>]]
        /\ p.fault = j.fault /\ p.actions = << >>
    BY <1>3 DEF Projected
  <2>2. ASSUME j.fault # 0
        PROVE  p.stages[j.fault].outcome = "stops"
    <3>1. j.fault \in DOMAIN j.stages /\ "outcome" \in DOMAIN j.stages[j.fault]
      BY <1>1, <2>2 DEF ValidJourney, ValidStages
    <3> QED BY <1>1, <2>1, <2>2, <3>1
  <2>3. NoAction \notin DOMAIN p.actions
    <3>1. DOMAIN << >> = {}
      OBVIOUS
    <3> HIDE DEF p
    <3> QED BY <2>1, <3>1, Zenon
  <2> HIDE DEF p
  <2>4. p.fault \in Nat
    <3>1. j.fault \in Nat
      BY <1>1
    <3> QED BY <2>1, <3>1, Zenon
  <2>5. Staged(p)
    <3>1. Len(p.stages) = Len(j.stages)
      <4>1. PICK sent : sent = p.stages
        OBVIOUS
      <4>2. sent = [k \in 1..Len(j.stages) |-> sent[k]]
        BY <1>1, <2>1, <4>1
      <4> QED BY <1>1, <4>1, <4>2, ListOf
    <3>2. ASSUME NEW k \in 1..Len(j.stages)
          PROVE  p.stages[k].checks \in Seq(ToSet(p.stages[k].checks))
      <4>1. p.stages[k] = [j.stages[k] EXCEPT !.explains = FALSE, !.checks = << >>]
        BY <1>1, <2>1, <3>2
      <4>2. DOMAIN j.stages[k] = {"outcome", "asks", "explains", "checks"}
        BY <1>1, <3>2 DEF ValidJourney, ValidStages
      <4>3. p.stages[k].checks = << >>
        BY <4>1, <4>2
      <4> QED BY <4>3
    <3> QED BY <1>1, <3>1, <3>2 DEF Staged
  <2>6. Journey(p)
    BY <2>1, <2>2, <2>3, <2>4, <2>5 DEF Journey
  <2> QED BY <2>6 DEF p
<1> QED BY <1>2, <1>3

\* Showing it on another beat changes nothing else.
LEMMA ShownInOrder ==
    ASSUME NEW p, NEW level, NEW before, NEW after, InOrder(p, after, level)
    PROVE  InOrder(p, Shown(before, after), level)
BY DEF Shown, InOrder, Repaired, Predicted, FaultResolved

\* Every control the pane offers keeps the order.
LEMMA MovesInOrder ==
    ASSUME NEW p, Journey(p), NEW level, NEW s, InOrder(p, s, level),
           NEW next \in JourneyMoves(p, s, level) \cup BeatMoves(p, s, level)
    PROVE  InOrder(p, next, level)
<1>1. CASE next \in BeatMoves(p, s, level)
  <2>1. PICK b : next = [s EXCEPT !.beat = b]
    BY <1>1 DEF BeatMoves
  <2> QED BY <2>1 DEF InOrder, Repaired, Predicted, FaultResolved
<1>2. CASE PendingPrediction(p, s) /\ next = CommitPrediction(p, s)
  <2> DEFINE after == [s EXCEPT !.predicted = @ \cup {s.revealed + 1}, !.revealed = @ + 1]
  <2>1. /\ DOMAIN after = DOMAIN s /\ after.revealed = s.revealed + 1
        /\ after.predicted = s.predicted \cup {s.revealed + 1} /\ after.applied = s.applied
    BY DEF InOrder
  <2>2. Predicted(p, after, level)
    BY <2>1 DEF InOrder, Predicted
  <2>3. ASSUME NoneAskedAfterStop(p)
        PROVE  Repaired(p, after)
    <3>1. p.stages[s.revealed + 1].asks /\ ~(s.revealed >= Len(p.stages))
      BY <1>2 DEF PendingPrediction, AllRevealed
    <3>2. CASE s.revealed = p.fault
      BY <1>2, <2>3, <3>1, <3>2 DEF NoneAskedAfterStop, Journey, Repaired
    <3>3. CASE s.revealed # p.fault
      BY <2>1, <2>3, <3>3 DEF InOrder, Repaired, FaultResolved, Journey
    <3> QED BY <3>2, <3>3
  <2>4. after.revealed \in 0..Len(p.stages)
    BY <1>2, <2>1 DEF InOrder, PendingPrediction, AllRevealed, Journey, Staged
  <2>5. InOrder(p, after, level)
    <3>1. after.predicted \subseteq 1..after.revealed
      BY <2>1 DEF InOrder, Journey, Staged
    <3> QED BY <2>1, <2>2, <2>3, <2>4, <3>1 DEF InOrder
  <2> HIDE DEF after
  <2> QED BY <1>2, <2>5, ShownInOrder DEF CommitPrediction, after
<1>3. CASE next = AnswerKnowledgeCheck(p, s)
  <2> DEFINE first == p.stages[CheckedStage(p, s)].checks[Min(OpenChecks(p, s))]
             after == [s EXCEPT !.answered = @ \cup {first}]
  <2>1. InOrder(p, after, level)
    BY DEF InOrder, Repaired, Predicted, FaultResolved
  <2> HIDE DEF after
  <2> QED BY <1>3, <2>1, ShownInOrder DEF AnswerKnowledgeCheck, after
<1>4. ASSUME NEW a \in DOMAIN p.actions, ActionsAvailable(p, s), next = ApplyAction(p, s, a)
      PROVE  InOrder(p, next, level)
  <2>1. InOrder(p, [s EXCEPT !.applied = a], level)
    BY <1>4 DEF InOrder, Repaired, Predicted, ActionsAvailable
  <2> QED BY <1>4, <2>1, ShownInOrder DEF ApplyAction
<1>5. CASE CanAdvance(p, s, level) /\ next = Advance(p, s)
  <2> DEFINE after == [s EXCEPT !.revealed = @ + 1]
  <2>1. /\ DOMAIN after = DOMAIN s /\ after.revealed = s.revealed + 1
        /\ after.predicted = s.predicted /\ after.applied = s.applied
    BY DEF InOrder
  <2>2. Predicted(p, after, level)
    BY <1>5, <2>1 DEF InOrder, Predicted, CanAdvance, PendingPrediction
  <2>3. ASSUME NoneAskedAfterStop(p), p.fault # 0, s.revealed + 1 > p.fault
        PROVE  FaultResolved(p, s)
    <3>1. CASE s.revealed = p.fault
      <4>1. Outcome(p, s, p.fault) # "stops"
        BY <1>5, <2>3, <3>1 DEF CanAdvance, AtStop, Journey
      <4> QED BY <2>3, <4>1 DEF Outcome, Journey
    <3>2. CASE s.revealed # p.fault
      BY <2>3, <3>2 DEF InOrder, Repaired, Journey
    <3> QED BY <3>1, <3>2
  <2>4. after.revealed \in 0..Len(p.stages)
    BY <1>5, <2>1 DEF InOrder, CanAdvance, AllRevealed, Journey, Staged
  <2>5. InOrder(p, after, level)
    <3>1. after.predicted \subseteq 1..after.revealed
      BY <2>1 DEF InOrder, Journey, Staged
    <3> QED BY <2>1, <2>2, <2>3, <2>4, <3>1 DEF InOrder, Repaired, FaultResolved
  <2> HIDE DEF after
  <2> QED BY <1>5, <2>5, ShownInOrder DEF Advance, after
<1> QED
  BY <1>1, <1>2, <1>3, <1>4, <1>5
  DEF JourneyMoves, OffersPrediction, OffersCheck, OffersActions, OffersAdvance

\* So does starting over.
LEMMA ResetInOrder ==
    ASSUME NEW p, Journey(p), NEW level, NEW s
    PROVE  InOrder(p, InitialJourney, level) /\ InOrder(p, ResetJourney(s), level)
<1>1. InOrder(p, InitialJourney, level)
  BY DEF InitialJourney, InOrder, Repaired, Predicted, Journey
<1> QED BY <1>1, ShownInOrder DEF ResetJourney

-----------------------------------------------------------------------------
(* Where a journey is stuck.                                               *)

\* The stage shown leads on: traffic proceeds there, or stops at the fault and
\* what repairs it was sent, or the next stage asks a prediction.
LeadsOn(p, k) ==
    \/ k = 0
    \/ p.stages[k].outcome # "stops"
    \/ k = p.fault /\ \E a \in DOMAIN p.actions : p.actions[a]
    \/ k < Len(p.stages) /\ p.stages[k + 1].asks

Fields == {"revealed", "predicted", "answered", "applied", "beat"}

Holds(sequence, kind) == \E b \in DOMAIN sequence : sequence[b] = kind

\* The latest stage that is checked is one of those shown.
LEMMA CheckedIsShown ==
    ASSUME NEW p, NEW s, s.revealed \in Nat, CheckedStage(p, s) # 0
    PROVE  CheckedStage(p, s) \in 1..s.revealed
<1> DEFINE asking == {i \in 1..s.revealed : p.stages[i].checks # << >>}
           below == {s.revealed - i : i \in asking}
<1>1. asking # {} /\ asking \subseteq 1..s.revealed
  BY DEF CheckedStage
<1>2. below \subseteq Nat /\ below # {}
  BY <1>1
<1>3. PICK least \in below : \A y \in below : <<y, least>> \notin OpToRel(<, Nat)
  BY <1>2, NatLessThanWellFounded, WFMin
<1>4. \A y \in below : ~(y < least)
  BY <1>2, <1>3, Zenon DEF OpToRel
<1>5. PICK i \in asking : least = s.revealed - i
  OBVIOUS
<1>6. \A k \in asking : k <= i
  <2> SUFFICES ASSUME NEW k \in asking PROVE k <= i
    OBVIOUS
  <2>1. s.revealed - k \in below
    OBVIOUS
  <2>2. ~(s.revealed - k < s.revealed - i)
    BY <1>4, <1>5, <2>1
  <2>3. k \in Int /\ i \in Int
    BY <1>1
  <2> QED BY <2>2, <2>3
<1>7. \E x \in asking : \A k \in asking : k <= x
  BY <1>6
<1>8. CheckedStage(p, s) = CHOOSE x \in asking : \A k \in asking : k <= x
  BY <1>1 DEF CheckedStage
<1>9. CheckedStage(p, s) \in asking
  BY <1>7, <1>8
<1> QED BY <1>1, <1>9

\* The check that is asked is open.
LEMMA AskedIsOpen ==
    ASSUME NEW p, Staged(p), NEW s, s.revealed \in 0..Len(p.stages), OpenChecks(p, s) # {}
    PROVE  p.stages[CheckedStage(p, s)].checks[Min(OpenChecks(p, s))] \notin s.answered
<1>1. CheckedStage(p, s) # 0
  BY DEF OpenChecks
<1>2. CheckedStage(p, s) \in 1..Len(p.stages)
  BY <1>1, CheckedIsShown DEF Staged
<1>3. PICK asked : asked = p.stages[CheckedStage(p, s)].checks
  OBVIOUS
<1>4. asked \in Seq(ToSet(asked))
  BY <1>2, <1>3 DEF Staged
<1>5. DOMAIN asked \subseteq Nat
  BY <1>4
<1>6. OpenChecks(p, s) = {k \in DOMAIN asked : asked[k] \notin s.answered}
  BY <1>1, <1>3 DEF OpenChecks
<1>7. Min(OpenChecks(p, s)) \in OpenChecks(p, s)
  BY <1>5, <1>6, SmallestElement
<1> QED BY <1>3, <1>6, <1>7

\* What a sequence put together of two holds.
LEMMA HoldsEither ==
    ASSUME NEW S, NEW a \in Seq(S), NEW b \in Seq(S), NEW kind
    PROVE  /\ a \o b \in Seq(S)
           /\ Holds(a \o b, kind) <=> Holds(a, kind) \/ Holds(b, kind)
<1>1. a \o b \in Seq(S) /\ DOMAIN (a \o b) = 1..(Len(a) + Len(b))
  OBVIOUS
<1>2. Holds(a \o b, kind) => Holds(a, kind) \/ Holds(b, kind)
  <2> SUFFICES ASSUME NEW i \in 1..(Len(a) + Len(b)), (a \o b)[i] = kind
               PROVE  Holds(a, kind) \/ Holds(b, kind)
    BY <1>1 DEF Holds
  <2>1. CASE i <= Len(a)
    BY <2>1 DEF Holds
  <2>2. CASE i > Len(a)
    <3>1. i - Len(a) \in DOMAIN b /\ b[i - Len(a)] = kind
      BY <2>2
    <3> QED BY <3>1 DEF Holds
  <2> QED BY <2>1, <2>2
<1>3. ASSUME NEW i \in DOMAIN a, a[i] = kind
      PROVE  Holds(a \o b, kind)
  <2>1. i \in DOMAIN (a \o b) /\ (a \o b)[i] = kind
    BY <1>1, <1>3
  <2> QED BY <2>1 DEF Holds
<1>4. ASSUME NEW i \in DOMAIN b, b[i] = kind
      PROVE  Holds(a \o b, kind)
  <2>1. Len(a) + i \in DOMAIN (a \o b) /\ (a \o b)[Len(a) + i] = kind
    BY <1>1, <1>4
  <2> QED BY <2>1 DEF Holds
<1> QED BY <1>1, <1>2, <1>3, <1>4 DEF Holds

BeatKinds == {"feedback", "observe", "explain", "symptom", "question", "action", "done", "start"}

\* Which beats there are, as long as nothing is confirmed.
LEMMA BeatsOf ==
    ASSUME NEW p, NEW s, NEW level, ~Confirmed(p, s), s.revealed > 0
    PROVE  /\ Beats(p, s, level) \in Seq(BeatKinds) /\ Beats(p, s, level) # << >>
           /\ Holds(Beats(p, s, level), "question")
                <=> OpenChecks(p, s) # {} \/ PendingPrediction(p, s)
           /\ Holds(Beats(p, s, level), "action")
                <=> ActionsAvailable(p, s) /\ DOMAIN p.actions # {}
<1> DEFINE W(c, k) == IF c THEN <<k>> ELSE << >>
<1>1. PICK a1 : a1 = W(ResolvedCheck(p, s), "feedback")
  OBVIOUS
<1>2. PICK a2 : a2 = W(ResolvedPrediction(s), "feedback")
  OBVIOUS
<1>3. PICK a3 : a3 = W(s.revealed > 0, "observe")
  OBVIOUS
<1>4. PICK a4 : a4 = W(s.revealed > 0 /\ p.stages[s.revealed].explains, "explain")
  OBVIOUS
<1>5. PICK a5 : a5 = W(AtStop(p, s) /\ p.fault # 0, "symptom")
  OBVIOUS
<1>6. PICK a6 : a6 = W(OpenChecks(p, s) # {}, "question")
  OBVIOUS
<1>7. PICK a7 : a7 = W(PendingPrediction(p, s), "question")
  OBVIOUS
<1>8. PICK a8 : a8 = W(ActionsAvailable(p, s) /\ DOMAIN p.actions # {}, "action")
  OBVIOUS
<1>9. /\ a1 \in Seq(BeatKinds) /\ a2 \in Seq(BeatKinds) /\ a3 \in Seq(BeatKinds)
      /\ a4 \in Seq(BeatKinds) /\ a5 \in Seq(BeatKinds) /\ a6 \in Seq(BeatKinds)
      /\ a7 \in Seq(BeatKinds) /\ a8 \in Seq(BeatKinds)
  <2>1. ASSUME NEW c, NEW k \in BeatKinds
        PROVE  W(c, k) \in Seq(BeatKinds)
    OBVIOUS
  <2>2. /\ "feedback" \in BeatKinds /\ "observe" \in BeatKinds /\ "explain" \in BeatKinds
        /\ "symptom" \in BeatKinds /\ "question" \in BeatKinds /\ "action" \in BeatKinds
    BY DEF BeatKinds
  <2> HIDE DEF W
  <2> QED BY <1>1, <1>2, <1>3, <1>4, <1>5, <1>6, <1>7, <1>8, <2>1, <2>2
<1>10. PICK all : all = a1 \o a2 \o a3 \o a4 \o a5 \o a6 \o a7 \o a8
  OBVIOUS
<1>11. ASSUME NEW kind
       PROVE  /\ all \in Seq(BeatKinds)
              /\ Holds(all, kind) <=>
                    \/ Holds(a1, kind) \/ Holds(a2, kind) \/ Holds(a3, kind) \/ Holds(a4, kind)
                    \/ Holds(a5, kind) \/ Holds(a6, kind) \/ Holds(a7, kind) \/ Holds(a8, kind)
  <2>1. PICK b2 : b2 = a1 \o a2
    OBVIOUS
  <2>2. b2 \in Seq(BeatKinds) /\ (Holds(b2, kind) <=> Holds(a1, kind) \/ Holds(a2, kind))
    BY <1>9, <2>1, HoldsEither
  <2>3. PICK b3 : b3 = b2 \o a3
    OBVIOUS
  <2>4. b3 \in Seq(BeatKinds) /\ (Holds(b3, kind) <=> Holds(b2, kind) \/ Holds(a3, kind))
    BY <1>9, <2>2, <2>3, HoldsEither
  <2>5. PICK b4 : b4 = b3 \o a4
    OBVIOUS
  <2>6. b4 \in Seq(BeatKinds) /\ (Holds(b4, kind) <=> Holds(b3, kind) \/ Holds(a4, kind))
    BY <1>9, <2>4, <2>5, HoldsEither
  <2>7. PICK b5 : b5 = b4 \o a5
    OBVIOUS
  <2>8. b5 \in Seq(BeatKinds) /\ (Holds(b5, kind) <=> Holds(b4, kind) \/ Holds(a5, kind))
    BY <1>9, <2>6, <2>7, HoldsEither
  <2>9. PICK b6 : b6 = b5 \o a6
    OBVIOUS
  <2>10. b6 \in Seq(BeatKinds) /\ (Holds(b6, kind) <=> Holds(b5, kind) \/ Holds(a6, kind))
    BY <1>9, <2>8, <2>9, HoldsEither
  <2>11. PICK b7 : b7 = b6 \o a7
    OBVIOUS
  <2>12. b7 \in Seq(BeatKinds) /\ (Holds(b7, kind) <=> Holds(b6, kind) \/ Holds(a7, kind))
    BY <1>9, <2>10, <2>11, HoldsEither
  <2>13. all = b7 \o a8
    BY <1>10, <2>1, <2>3, <2>5, <2>7, <2>9, <2>11, Zenon
  <2>14. all \in Seq(BeatKinds) /\ (Holds(all, kind) <=> Holds(b7, kind) \/ Holds(a8, kind))
    BY <1>9, <2>12, <2>13, HoldsEither
  <2> QED BY <2>2, <2>4, <2>6, <2>8, <2>10, <2>12, <2>14, Zenon
<1>12. ASSUME NEW kind
       PROVE  /\ Holds(a1, kind) \/ Holds(a2, kind) => kind = "feedback"
              /\ Holds(a3, kind) <=> kind = "observe"
              /\ Holds(a4, kind) => kind = "explain"
              /\ Holds(a5, kind) => kind = "symptom"
              /\ Holds(a6, kind) <=> OpenChecks(p, s) # {} /\ kind = "question"
              /\ Holds(a7, kind) <=> PendingPrediction(p, s) /\ kind = "question"
              /\ Holds(a8, kind)
                    <=> ActionsAvailable(p, s) /\ DOMAIN p.actions # {} /\ kind = "action"
  BY <1>1, <1>2, <1>3, <1>4, <1>5, <1>6, <1>7, <1>8 DEF Holds
<1>13. all # << >>
  <2>1. Holds(all, "observe")
    BY <1>11, <1>12
  <2> QED BY <2>1 DEF Holds
<1>14. Beats(p, s, level) = all
  BY <1>1, <1>2, <1>3, <1>4, <1>5, <1>6, <1>7, <1>8, <1>10, <1>13 DEF Beats
<1> QED BY <1>11, <1>12, <1>13, <1>14

TurnedTo(s, b) == [s EXCEPT !.beat = b]

\* Turning to another beat changes nothing the beats depend on.
LEMMA BeatAside ==
    ASSUME NEW p, NEW s, DOMAIN s = Fields, NEW b, NEW level, NEW t, t = TurnedTo(s, b)
    PROVE  /\ DOMAIN t = Fields /\ t.beat = b
           /\ t.revealed = s.revealed /\ t.predicted = s.predicted /\ t.answered = s.answered
           /\ t.applied = s.applied
           /\ CheckedStage(p, t) = CheckedStage(p, s) /\ OpenChecks(p, t) = OpenChecks(p, s)
           /\ AtStop(p, t) <=> AtStop(p, s)
           /\ PendingPrediction(p, t) <=> PendingPrediction(p, s)
           /\ ActionsAvailable(p, t) <=> ActionsAvailable(p, s)
           /\ CanAdvance(p, t, level) <=> CanAdvance(p, s, level)
           /\ Beats(p, t, level) = Beats(p, s, level)
<1>1. /\ DOMAIN t = Fields /\ t.beat = b
      /\ t.revealed = s.revealed /\ t.predicted = s.predicted /\ t.answered = s.answered
      /\ t.applied = s.applied
  BY DEF Fields, TurnedTo
<1>2. CheckedStage(p, t) = CheckedStage(p, s)
  BY <1>1 DEF CheckedStage
<1>3. OpenChecks(p, t) = OpenChecks(p, s)
  BY <1>1, <1>2 DEF OpenChecks
<1>4. /\ AtStop(p, t) <=> AtStop(p, s)
      /\ AllRevealed(p, t) <=> AllRevealed(p, s)
      /\ FaultResolved(p, t) <=> FaultResolved(p, s)
  BY <1>1 DEF AtStop, AllRevealed, FaultResolved, Outcome
<1>5. PendingPrediction(p, t) <=> PendingPrediction(p, s)
  BY <1>1, <1>4 DEF PendingPrediction
<1>6. ActionsAvailable(p, t) <=> ActionsAvailable(p, s)
  BY <1>4 DEF ActionsAvailable
<1>7. CanAdvance(p, t, level) <=> CanAdvance(p, s, level)
  BY <1>4, <1>5 DEF CanAdvance
<1>8. (Confirmed(p, t) <=> Confirmed(p, s)) /\ (ResolvedCheck(p, t) <=> ResolvedCheck(p, s))
      /\ (ResolvedPrediction(t) <=> ResolvedPrediction(s))
  BY <1>1, <1>4 DEF Confirmed, ResolvedCheck, ResolvedPrediction
<1>9. Beats(p, t, level) = Beats(p, s, level)
  BY <1>1, <1>3, <1>4, <1>5, <1>6, <1>7, <1>8 DEF Beats
<1> QED BY <1>1, <1>2, <1>3, <1>4, <1>5, <1>6, <1>7, <1>9

LEMMA SameBeats ==
    ASSUME NEW p, NEW s, DOMAIN s = Fields, NEW b, NEW level, NEW t, t = TurnedTo(s, b)
    PROVE  Beats(p, t, level) = Beats(p, s, level)
BY BeatAside

\* Showing a change keeps all of it but the beat.
LEMMA ShownKeeps ==
    ASSUME NEW before, NEW after, DOMAIN after = Fields
    PROVE  /\ Shown(before, after).revealed = after.revealed
           /\ Shown(before, after).answered = after.answered
           /\ Shown(before, after).applied = after.applied
BY DEF Shown, Fields

\* As long as a journey is not finished and what is shown leads on, one of the
\* beats offers a control that takes it further.
LEMMA MovesOn ==
    ASSUME NEW p, Staged(p), NEW level, NEW s, DOMAIN s = Fields,
           s.revealed \in 0..Len(p.stages), s.predicted \subseteq 1..s.revealed,
           ~Finished(p, s), LeadsOn(p, s.revealed)
    PROVE  \E b \in DOMAIN Beats(p, s, level) :
              \E next \in JourneyMoves(p, TurnedTo(s, b), level) : TakesFurther(p, s, next)
<1>0. ~Confirmed(p, s) \/ s.revealed = 0
  BY DEF Confirmed, Finished
<1>1. ASSUME NEW b \in DOMAIN Beats(p, s, level), Beats(p, s, level)[b] = "question",
             OpenChecks(p, s) # {} \/ PendingPrediction(p, s)
      PROVE  \E next \in JourneyMoves(p, TurnedTo(s, b), level) : TakesFurther(p, s, next)
  <2>1. PICK t : t = TurnedTo(s, b)
    OBVIOUS
  <2>2. DOMAIN t = Fields /\ t.revealed = s.revealed /\ t.answered = s.answered
        /\ BeatKind(p, t, level) = "question"
    BY <1>1, <2>1, BeatAside DEF BeatKind
  <2>3. CASE PendingPrediction(p, s)
    <3>1. CommitPrediction(p, t) \in JourneyMoves(p, t, level)
      BY <2>1, <2>2, <2>3, BeatAside DEF JourneyMoves, OffersPrediction
    <3>2. TakesFurther(p, s, CommitPrediction(p, t))
      <4> DEFINE after == [t EXCEPT !.predicted = @ \cup {t.revealed + 1}, !.revealed = @ + 1]
      <4>1. DOMAIN after = Fields /\ after.revealed = t.revealed + 1
        BY <2>2 DEF Fields
      <4>2. after.revealed > s.revealed
        BY <2>2, <4>1
      <4> HIDE DEF after
      <4>3. Shown(t, after).revealed > s.revealed
        BY <4>1, <4>2, ShownKeeps
      <4> QED BY <4>3 DEF CommitPrediction, after, TakesFurther
    <3> QED BY <2>1, <3>1, <3>2
  <2>4. CASE ~PendingPrediction(p, s)
    <3>1. AnswerKnowledgeCheck(p, t) \in JourneyMoves(p, t, level)
      BY <1>1, <2>1, <2>2, <2>4, BeatAside DEF JourneyMoves, OffersCheck
    <3>2. TakesFurther(p, s, AnswerKnowledgeCheck(p, t))
      <4>1. PICK c : c = p.stages[CheckedStage(p, t)].checks[Min(OpenChecks(p, t))]
        OBVIOUS
      <4>2. c \notin t.answered
        BY <1>1, <2>1, <2>2, <2>4, <4>1, AskedIsOpen, BeatAside
      <4> DEFINE after == [t EXCEPT !.answered = @ \cup {c}]
      <4>3. DOMAIN after = Fields /\ after.answered = t.answered \cup {c}
        BY <2>2 DEF Fields
      <4>4. ~(after.answered \subseteq s.answered)
        BY <2>2, <4>2, <4>3
      <4> HIDE DEF after
      <4>5. ~(Shown(t, after).answered \subseteq s.answered)
        BY <4>3, <4>4, ShownKeeps
      <4> QED BY <4>1, <4>5 DEF AnswerKnowledgeCheck, after, TakesFurther
    <3> QED BY <2>1, <3>1, <3>2
  <2> QED BY <2>3, <2>4
<1>2. ASSUME NEW b \in DOMAIN Beats(p, s, level), b = Len(Beats(p, s, level)),
             Beats(p, s, level)[b] \notin {"question", "action"}, CanAdvance(p, s, level)
      PROVE  \E next \in JourneyMoves(p, TurnedTo(s, b), level) : TakesFurther(p, s, next)
  <2>1. PICK t : t = TurnedTo(s, b)
    OBVIOUS
  <2>2. DOMAIN t = Fields /\ t.revealed = s.revealed /\ OnLastBeat(p, t, level)
        /\ BeatKind(p, t, level) \notin {"question", "action"} /\ CanAdvance(p, t, level)
    <3>1. DOMAIN t = Fields /\ t.beat = b /\ t.revealed = s.revealed
      BY <2>1 DEF TurnedTo, Fields
    <3>0. Beats(p, t, level) = Beats(p, s, level)
      BY <2>1, SameBeats
    <3>4. CanAdvance(p, t, level)
      BY <1>2, <2>1, BeatAside
    <3>2. OnLastBeat(p, t, level)
      BY <1>2, <3>0, <3>1 DEF OnLastBeat
    <3>3. BeatKind(p, t, level) = Beats(p, s, level)[b]
      BY <1>2, <3>0, <3>1 DEF BeatKind
    <3> QED BY <1>2, <3>1, <3>2, <3>3, <3>4
  <2>3. Advance(p, t) \in JourneyMoves(p, t, level)
    BY <2>2 DEF JourneyMoves, OffersAdvance
  <2>4. TakesFurther(p, s, Advance(p, t))
    <3> DEFINE after == [t EXCEPT !.revealed = @ + 1]
    <3>1. DOMAIN after = Fields /\ after.revealed = t.revealed + 1
      BY <2>2 DEF Fields
    <3>2. after.revealed > s.revealed
      BY <2>2, <3>1
    <3> HIDE DEF after
    <3>3. Shown(t, after).revealed > s.revealed
      BY <3>1, <3>2, ShownKeeps
    <3> QED BY <3>3 DEF Advance, after, TakesFurther
  <2> QED BY <2>1, <2>3, <2>4
<1>3. ASSUME NEW b \in DOMAIN Beats(p, s, level), Beats(p, s, level)[b] = "action",
             ActionsAvailable(p, s), \E a \in DOMAIN p.actions : p.actions[a]
      PROVE  \E next \in JourneyMoves(p, TurnedTo(s, b), level) : TakesFurther(p, s, next)
  <2>1. PICK t : t = TurnedTo(s, b)
    OBVIOUS
  <2>2. DOMAIN t = Fields /\ t.revealed = s.revealed /\ t.applied = s.applied
        /\ BeatKind(p, t, level) = "action" /\ ActionsAvailable(p, t)
    BY <1>3, <2>1, BeatAside DEF BeatKind
  <2>4. PICK a \in DOMAIN p.actions : p.actions[a]
    BY <1>3
  <2>6. ApplyAction(p, t, a) \in JourneyMoves(p, t, level)
    BY <2>2, <2>4 DEF JourneyMoves, OffersActions
  <2>7. TakesFurther(p, s, ApplyAction(p, t, a))
    <3> DEFINE after == [t EXCEPT !.applied = a]
    <3>1. DOMAIN after = Fields /\ after.applied = a
      BY <2>2 DEF Fields
    <3>2. ApplyAction(p, t, a) = Shown(t, after)
      BY <2>2 DEF ApplyAction
    <3> HIDE DEF after
    <3>3. FaultResolved(p, ApplyAction(p, t, a))
      BY <2>4, <3>1, <3>2, ShownKeeps DEF FaultResolved
    <3> QED BY <1>3, <3>3 DEF TakesFurther, ActionsAvailable
  <2> QED BY <2>1, <2>6, <2>7
<1>4. CASE s.revealed > 0
  <2>1. PICK beats : beats = Beats(p, s, level)
    OBVIOUS
  <2>2. /\ beats \in Seq(BeatKinds) /\ beats # << >>
        /\ Holds(beats, "question") <=> OpenChecks(p, s) # {} \/ PendingPrediction(p, s)
        /\ Holds(beats, "action") <=> ActionsAvailable(p, s) /\ DOMAIN p.actions # {}
    BY <1>0, <1>4, <2>1, BeatsOf
  <2>3. CASE OpenChecks(p, s) # {} \/ PendingPrediction(p, s)
    BY <1>1, <2>1, <2>2, <2>3 DEF Holds
  <2>4. CASE AtStop(p, s) /\ ~(OpenChecks(p, s) # {} \/ PendingPrediction(p, s))
    <3>1. s.revealed \in 1..Len(p.stages) /\ p.stages[s.revealed].outcome = "stops"
      BY <1>4, <2>4 DEF AtStop, Outcome
    <3>2. ~(s.revealed < Len(p.stages) /\ p.stages[s.revealed + 1].asks)
      BY <2>4, <3>1 DEF PendingPrediction, AllRevealed
    <3>4. s.revealed = p.fault /\ \E a \in DOMAIN p.actions : p.actions[a]
      BY <1>4, <3>1, <3>2 DEF LeadsOn
    <3>3. ActionsAvailable(p, s) /\ DOMAIN p.actions # {}
      BY <2>4, <3>4 DEF ActionsAvailable, AtStop, Outcome
    <3> QED BY <1>3, <2>1, <2>2, <3>3, <3>4 DEF Holds
  <2>5. CASE ~AtStop(p, s) /\ ~(OpenChecks(p, s) # {} \/ PendingPrediction(p, s))
    <3>1. CanAdvance(p, s, level)
      BY <1>4, <2>5 DEF CanAdvance, Finished
    <3>2. ~ActionsAvailable(p, s)
      BY <2>5 DEF ActionsAvailable
    <3>3. ~Holds(beats, "question") /\ ~Holds(beats, "action")
      BY <2>2, <2>5, <3>2
    <3>4. Len(beats) \in DOMAIN beats
      BY <2>2
    <3>5. beats[Len(beats)] \notin {"question", "action"}
      BY <3>3, <3>4 DEF Holds
    <3> QED BY <1>2, <2>1, <3>1, <3>4, <3>5
  <2> QED BY <2>3, <2>4, <2>5
<1>5. CASE s.revealed = 0
  <2>1. ~AllRevealed(p, s) /\ ~AtStop(p, s) /\ ~Confirmed(p, s)
    BY <1>5 DEF AllRevealed, AtStop, Staged, Confirmed
  <2>2. OpenChecks(p, s) = {}
    BY <1>5 DEF OpenChecks, CheckedStage
  <2>3. ~ResolvedCheck(p, s) /\ ~ResolvedPrediction(s) /\ ~ActionsAvailable(p, s)
    BY <1>5, <2>1 DEF ResolvedCheck, ResolvedPrediction, ActionsAvailable
  <2>4. CASE PendingPrediction(p, s)
    <3>1. Beats(p, s, level) = <<"question">>
      BY <1>5, <2>1, <2>2, <2>3, <2>4 DEF Beats
    <3>2. 1 \in DOMAIN Beats(p, s, level) /\ Beats(p, s, level)[1] = "question"
      BY <3>1
    <3> QED BY <1>1, <2>4, <3>2
  <2>5. CASE ~PendingPrediction(p, s)
    <3>1. CanAdvance(p, s, level)
      BY <2>1, <2>5 DEF CanAdvance
    <3>2. Beats(p, s, level) = <<"start">>
      BY <1>5, <2>1, <2>2, <2>3, <2>5, <3>1 DEF Beats
    <3>3. /\ 1 \in DOMAIN Beats(p, s, level) /\ 1 = Len(Beats(p, s, level))
          /\ Beats(p, s, level)[1] = "start"
      BY <3>2
    <3> QED BY <1>2, <3>1, <3>3
  <2> QED BY <2>4, <2>5
<1> QED BY <1>4, <1>5 DEF Staged
-----------------------------------------------------------------------------
(* Near-transfer.                                                          *)

\* The active question is a question of the step.
LEMMA ActiveIsAsked ==
    ASSUME NEW step, DOMAIN step.questions \subseteq Nat, NEW state, ~IsSettled(step, state)
    PROVE  ActiveQuestion(step, state).id \in Questions(step)
<1>1. Min(Unacknowledged(step, state)) \in Unacknowledged(step, state)
  BY SmallestElement DEF IsSettled, Unacknowledged
<1> QED BY <1>1 DEF Unacknowledged, ActiveQuestion, Questions

\* What the learner may be shown of a step of questions of version v of m: every
\* verdict is the version's, on the selection it is shown beside.
Judged(m, v, i, state) ==
    /\ DOMAIN state = {"selection", "committed", "acknowledged", "results", "checking",
                       "checkFailed", "versionUnavailable"}
    /\ DOMAIN state.selection = Questions(Steps(m, v)[i])
    /\ DOMAIN state.results = Questions(Steps(m, v)[i])
    /\ state.committed \subseteq Questions(Steps(m, v)[i])
    /\ \A q \in state.committed :
          state.results[q] = Verdict(m, v, i, q, state.selection[q])

\* Nothing is judged at first.
LEMMA InitialIsJudged ==
    ASSUME NEW m, NEW v, NEW i
    PROVE  Judged(m, v, i, InitialNearTransfer(Steps(m, v)[i]))
BY DEF Judged, InitialNearTransfer

\* A press, a failure or an acknowledgement touches no verdict.
LEMMA PressIsJudged ==
    ASSUME NEW m, NEW v, NEW i, NEW state, Judged(m, v, i, state)
    PROVE  /\ \A question, option : Judged(m, v, i, ToggleOption(state, question, option))
           /\ \A q : /\ Judged(m, v, i, BeginCheck(state, q))
                     /\ Judged(m, v, i, FailCheck(state, q))
                     /\ Judged(m, v, i, FailCheckVersionUnavailable(state, q))
                     /\ Judged(m, v, i, AcknowledgeAnswer(state, q))
<1>1. ASSUME NEW question, NEW option
      PROVE  Judged(m, v, i, ToggleOption(state, question, option))
  BY DEF Judged, ToggleOption
<1>2. ASSUME NEW q
      PROVE  /\ Judged(m, v, i, BeginCheck(state, q))
             /\ Judged(m, v, i, FailCheck(state, q))
             /\ Judged(m, v, i, FailCheckVersionUnavailable(state, q))
             /\ Judged(m, v, i, AcknowledgeAnswer(state, q))
  BY DEF Judged, BeginCheck, FailCheck, FailCheckVersionUnavailable, AcknowledgeAnswer
<1> QED BY <1>1, <1>2

\* A verdict of the same version, on what was chosen, is a true one.
LEMMA VerdictIsJudged ==
    ASSUME NEW m, NEW v, NEW i, NEW state, Judged(m, v, i, state),
           NEW q \in Questions(Steps(m, v)[i]), NEW chosen
    PROVE  Judged(m, v, i, CommitAnswer(state, q, chosen, Verdict(m, v, i, q, chosen)))
BY DEF Judged, CommitAnswer

-----------------------------------------------------------------------------
(* The mounted lesson.                                                     *)

OfKind(m, v, kind) == {i \in DOMAIN Steps(m, v) : Steps(m, v)[i].kind = kind}

Sent(m, v, i) == Projected(Steps(m, v)[i].journey, Steps(m, v)[i].level)

\* A mounted lesson renders one version of its own mission, each of its
\* activities in a state a reader of that version may have brought it to.
LessonHolds(l) ==
    /\ DOMAIN l = {"mission", "from", "version", "nt", "settled", "journeys"}
    /\ l.mission \in MissionIds /\ l.from = l.mission
    /\ l.version \in DOMAIN Lesson[l.mission]
    /\ DOMAIN l.nt = OfKind(l.mission, l.version, "near_transfer")
    /\ DOMAIN l.journeys = OfKind(l.mission, l.version, "interaction")
    /\ l.settled \subseteq DOMAIN Steps(l.mission, l.version)
    /\ \A i \in DOMAIN l.nt : Judged(l.mission, l.version, i, l.nt[i])
    /\ \A i \in DOMAIN l.journeys :
          InOrder(Sent(l.mission, l.version, i), l.journeys[i],
                  Steps(l.mission, l.version)[i].level)

\* The journeys of a mission are ones an author may write.
LEMMA SentJourney ==
    ASSUME NEW m \in MissionIds, NEW v \in DOMAIN Lesson[m], NEW i \in OfKind(m, v, "interaction")
    PROVE  Journey(Sent(m, v, i))
<1>1. ValidJourney(Steps(m, v)[i].journey)
  BY MissionsAssumption DEF OfKind, Steps, ValidInteractionStep
<1> QED BY <1>1, SentIsJourney DEF Sent

\* An activity is edited one step at a time.
LEMMA EditedLesson ==
    ASSUME NEW l, LessonHolds(l)
    PROVE  /\ \A i, state : Judged(l.mission, l.version, i, state) =>
                  LessonHolds([l EXCEPT !.nt[i] = state])
           /\ \A i, next : InOrder(Sent(l.mission, l.version, i), next,
                                   Steps(l.mission, l.version)[i].level) =>
                  LessonHolds([l EXCEPT !.journeys[i] = next])
           /\ \A i \in DOMAIN Steps(l.mission, l.version) :
                  LessonHolds([l EXCEPT !.settled = @ \cup {i}])
<1>1. ASSUME NEW i, NEW state, Judged(l.mission, l.version, i, state)
      PROVE  LessonHolds([l EXCEPT !.nt[i] = state])
  BY <1>1 DEF LessonHolds
<1>2. ASSUME NEW i, NEW next,
             InOrder(Sent(l.mission, l.version, i), next, Steps(l.mission, l.version)[i].level)
      PROVE  LessonHolds([l EXCEPT !.journeys[i] = next])
  BY <1>2 DEF LessonHolds
<1>3. ASSUME NEW i \in DOMAIN Steps(l.mission, l.version)
      PROVE  LessonHolds([l EXCEPT !.settled = @ \cup {i}])
  BY <1>3 DEF LessonHolds
<1> QED BY <1>1, <1>2, <1>3

\* A lesson that is mounted is not the absence of one.
LEMMA MountedIsALesson ==
    ASSUME NEW l, LessonHolds(l)
    PROVE  l # NoLesson
BY MissionsAssumption DEF LessonHolds, NoLesson

-----------------------------------------------------------------------------
(* The inductive invariant.                                                *)

\* What the server publishes is authored; the request in flight and the answer
\* held are of missions, and an answer of steps is of a version that has them.
Opened ==
    /\ selected \in MissionIds \cup {NoneOpen}
    /\ due => selected # NoneOpen
    /\ DOMAIN publishedVersions = MissionIds
    /\ \A m \in MissionIds : publishedVersions[m] \subseteq DOMAIN Lesson[m]
    /\ request.status \in {"idle", "loading", "loaded", "error"}
    /\ fetch # NoFetch => fetch.mission \in MissionIds /\ request.status = "loading"
    /\ request.status = "loaded" /\ request.answer = "available" =>
          request.mission \in MissionIds /\ request.version \in DOMAIN Lesson[request.mission]

\* The lesson mounted is the open mission's, of the answer held; what was last
\* rendered of it is as its state in everything its progress reads.
OpenLesson ==
    lesson # NoLesson =>
        /\ LessonHolds(lesson)
        /\ lesson.mission = selected
        /\ InstructionSource(request, selected) = "structured"
        /\ DOMAIN seen = DOMAIN lesson.nt
        /\ \A i \in DOMAIN seen :
              /\ Judged(lesson.mission, lesson.version, i, seen[i])
              /\ seen[i].acknowledged = lesson.nt[i].acknowledged

\* An answer is being judged only for the lesson mounted, on a question of it.
ChecksOpen ==
    \A c \in checks :
        /\ lesson # NoLesson
        /\ DOMAIN c = {"at", "step", "question", "version", "chosen"}
        /\ c.step \in DOMAIN lesson.nt
        /\ c.question \in Questions(Steps(lesson.mission, lesson.version)[c.step])
        /\ c.version = lesson.version

LessonInv == Opened /\ OpenLesson /\ ChecksOpen

\* What a render leaves mounted.
LEMMA Remounted ==
    ASSUME OpenLesson, ChecksOpen, NEW r, NEW m \in MissionIds \cup {NoneOpen},
           r.status = "loaded" /\ r.answer = "available" =>
              r.mission \in MissionIds /\ r.version \in DOMAIN Lesson[r.mission],
           Remount(r, m), selected' = m, request' = r
    PROVE  OpenLesson' /\ ChecksOpen'
<1>1. CASE lesson' = NoLesson
  <2>1. checks' = {}
    BY <1>1 DEF Remount, ChecksOpen
  <2> QED BY <1>1, <2>1 DEF OpenLesson, ChecksOpen
<1>2. CASE lesson' # NoLesson /\ lesson' = lesson
  <2>1. /\ seen' = lesson.nt /\ checks' = checks
        /\ InstructionSource(r, m) = "structured"
    BY <1>2 DEF Remount, Mounted
  <2>2. lesson.mission = m
    BY <1>2 DEF Remount, Mounted
  <2>3. OpenLesson'
    BY <1>2, <2>1, <2>2 DEF OpenLesson, LessonHolds, InstructionSource
  <2>4. ChecksOpen'
    BY <1>2, <2>1 DEF ChecksOpen
  <2> QED BY <2>3, <2>4
<1>3. CASE lesson' # NoLesson /\ lesson' # lesson
  <2> DEFINE steps == Steps(r.mission, r.version)
             fresh == [mission  |-> m,
                       from     |-> r.mission,
                       version  |-> r.version,
                       nt       |-> [i \in OfKind(r.mission, r.version, "near_transfer") |->
                                        InitialNearTransfer(steps[i])],
                       settled  |-> {},
                       journeys |-> [i \in OfKind(r.mission, r.version, "interaction") |->
                                        InitialJourney]]
  <2>1. /\ lesson' = fresh /\ seen' = lesson'.nt /\ checks' = {}
        /\ InstructionSource(r, m) = "structured"
    BY <1>3, Zenon DEF Remount, Mounted, OfKind
  <2>2. r.mission = m /\ m \in MissionIds /\ r.version \in DOMAIN Lesson[m]
    BY <2>1, MissionsAssumption DEF InstructionSource
  <2>3. \A i \in DOMAIN fresh.nt : Judged(m, r.version, i, fresh.nt[i])
    BY <2>2, InitialIsJudged
  <2>4. \A i \in DOMAIN fresh.journeys :
            InOrder(Sent(m, r.version, i), fresh.journeys[i], Steps(m, r.version)[i].level)
    BY <2>2, SentJourney, ResetInOrder
  <2>5. /\ DOMAIN fresh = {"mission", "from", "version", "nt", "settled", "journeys"}
        /\ fresh.mission = m /\ fresh.from = m /\ fresh.version = r.version
        /\ DOMAIN fresh.nt = OfKind(m, r.version, "near_transfer")
        /\ DOMAIN fresh.journeys = OfKind(m, r.version, "interaction")
        /\ fresh.settled = {}
    BY <2>2
  <2> HIDE DEF fresh
  <2>6. LessonHolds(fresh)
    BY <2>2, <2>3, <2>4, <2>5 DEF LessonHolds
  <2> QED BY <2>1, <2>3, <2>5, <2>6 DEF OpenLesson, ChecksOpen
<1> QED BY <1>1, <1>2, <1>3

\* Nothing is open at first.
LEMMA LessonInvInit == LessonInit => LessonInv
<1> SUFFICES ASSUME LessonInit PROVE LessonInv
  OBVIOUS
<1>1. Opened
  BY MissionsAssumption DEF LessonInit, Opened, NoFetch, NotAsked
<1> QED BY <1>1 DEF LessonInit, LessonInv, OpenLesson, ChecksOpen

\* Publishing and retiring touch no browser.
LEMMA ReleaseKeeps ==
    ASSUME LessonInv, Release
    PROVE  LessonInv'
<1>1. PICK m \in MissionIds : \E v \in DOMAIN Lesson[m] : Publish(m, v) \/ Retire(m, v)
  BY DEF Release
<1>2. Opened'
  BY <1>1 DEF LessonInv, Opened, Publish, Retire, view
<1> QED BY <1>1, <1>2 DEF LessonInv, OpenLesson, ChecksOpen, Publish, Retire, view

\* Opening a mission, its request and its answer.
LEMMA OpenKeeps ==
    ASSUME LessonInv, Open
    PROVE  LessonInv'
<1>1. ASSUME NEW m \in MissionIds, SelectMission(m)
      PROVE  LessonInv'
  <2>1. Opened'
    BY <1>1, MissionsAssumption DEF LessonInv, Opened, SelectMission, server
  <2> QED BY <1>1, <2>1, Remounted DEF LessonInv, Opened, SelectMission
<1>2. CASE RefreshSession \/ \E i \in OnScreen : ReloadInstruction(i)
  <2>1. selected # NoneOpen
    BY <1>2, MissionsAssumption
    DEF RefreshSession, ReloadInstruction, OnScreen, LessonInv, OpenLesson, LessonHolds
  <2>2. UNCHANGED <<server, selected, request, fetch, lesson, seen, checks>>
    BY <1>2 DEF RefreshSession, ReloadInstruction
  <2> QED
    BY <2>1, <2>2 DEF LessonInv, Opened, OpenLesson, ChecksOpen, server
<1>3. CASE FetchEffect
  <2>1. /\ request'.status \in {"loading", "idle"}
        /\ selected' = selected /\ UNCHANGED publishedVersions
        /\ fetch' # NoFetch => fetch'.mission = selected /\ selected # NoneOpen
                               /\ request'.status = "loading"
    BY <1>3 DEF FetchEffect, NotAsked, NoFetch, server
  <2>2. Opened'
    BY <1>3, <2>1 DEF LessonInv, Opened, FetchEffect
  <2>3. OpenLesson' /\ ChecksOpen'
    BY <1>3, <2>1, Remounted DEF LessonInv, Opened, FetchEffect
  <2> QED BY <2>2, <2>3 DEF LessonInv
<1>4. CASE ResolveMission
  <2>1. fetch # NoFetch /\ fetch'.mission = fetch.mission
    BY <1>4 DEF ResolveMission, NoFetch
  <2>2. Opened'
    BY <1>4, <2>1 DEF LessonInv, Opened, ResolveMission, view, server
  <2> QED BY <1>4, <2>2 DEF LessonInv, OpenLesson, ChecksOpen, ResolveMission, view
<1>5. CASE InstructionLoaded
  <2>1. fetch # NoFetch /\ fetch.mission \in MissionIds
    BY <1>5 DEF InstructionLoaded, NoFetch, LessonInv, Opened
  <2>2. /\ request'.status = "loaded" /\ request'.mission = fetch.mission
        /\ request'.answer = "available" => request'.version \in publishedVersions[fetch.mission]
    BY <1>5 DEF InstructionLoaded
  <2>3. request'.answer = "available" => request'.version \in DOMAIN Lesson[request'.mission]
    BY <2>1, <2>2 DEF LessonInv, Opened
  <2>4. Opened'
    BY <1>5, <2>1, <2>2, <2>3 DEF LessonInv, Opened, InstructionLoaded, server
  <2>5. OpenLesson' /\ ChecksOpen'
    BY <1>5, <2>1, <2>2, <2>3, Remounted DEF LessonInv, Opened, InstructionLoaded
  <2> QED BY <2>4, <2>5 DEF LessonInv
<1>6. CASE InstructionFailed
  <2>1. request'.status = "error"
    BY <1>6 DEF InstructionFailed
  <2>2. Opened'
    BY <1>6, <2>1 DEF LessonInv, Opened, InstructionFailed, server
  <2>3. OpenLesson' /\ ChecksOpen'
    BY <1>6, <2>1, Remounted DEF LessonInv, Opened, InstructionFailed
  <2> QED BY <2>2, <2>3 DEF LessonInv
<1>7. CASE ReportEffect
  BY <1>7 DEF LessonInv, Opened, OpenLesson, ChecksOpen, ReportEffect, server
<1> QED BY <1>1, <1>2, <1>3, <1>4, <1>5, <1>6, <1>7 DEF Open

\* What an activity leaves of the lesson is such a lesson.
LEMMA WorkedLesson ==
    ASSUME LessonInv, lesson # NoLesson, KeepView, LessonHolds(lesson'),
           lesson'.mission = lesson.mission, lesson'.version = lesson.version,
           DOMAIN lesson'.nt = DOMAIN lesson.nt
    PROVE  Opened' /\ lesson' # NoLesson /\ lesson'.mission = selected'
           /\ InstructionSource(request, selected)' = "structured"
           /\ (checks' \subseteq checks => ChecksOpen')
<1>1. Opened'
  BY DEF LessonInv, Opened, KeepView, server, view
<1>2. lesson' # NoLesson
  BY MissionsAssumption DEF LessonHolds, NoLesson
<1>3. checks' \subseteq checks => ChecksOpen'
  BY <1>2 DEF LessonInv, ChecksOpen
<1> QED
  BY <1>1, <1>2, <1>3 DEF LessonInv, OpenLesson, KeepView, view, InstructionSource

\* Working through an activity.
LEMMA JourneyKeeps ==
    ASSUME LessonInv, NEW i \in OnScreen, WorkJourney(i) \/ StartOver(i) \/ FinishActivity(i)
    PROVE  LessonInv'
<1> DEFINE m == lesson.mission
           v == lesson.version
<1>1. /\ lesson # NoLesson /\ LessonHolds(lesson) /\ lesson.from = m
      /\ i \in OfKind(m, v, "interaction") /\ i \in DOMAIN Steps(m, v)
      /\ i \in DOMAIN lesson.journeys
      /\ KeepView /\ UNCHANGED <<seen, checks>>
  BY DEF OnScreen, WorkJourney, StartOver, FinishActivity, OnStep, LessonInv, OpenLesson,
         LessonHolds, OfKind, LessonSteps, Visible
<1>2. Journey(Sent(m, v, i))
  BY <1>1, SentJourney DEF LessonHolds
<1>3. /\ Parameters(i) = Sent(m, v, i) /\ LessonSteps[i].level = Steps(m, v)[i].level
  BY <1>1 DEF Parameters, LessonSteps, Sent
<1>4. InOrder(Sent(m, v, i), lesson.journeys[i], Steps(m, v)[i].level)
  BY <1>1 DEF LessonHolds
<1>5. /\ LessonHolds(lesson')
      /\ lesson'.mission = m /\ lesson'.version = v /\ lesson'.nt = lesson.nt
  <2>1. CASE WorkJourney(i)
    <3>1. PICK next \in JourneyMoves(Sent(m, v, i), lesson.journeys[i], Steps(m, v)[i].level)
                    \cup BeatMoves(Sent(m, v, i), lesson.journeys[i], Steps(m, v)[i].level) :
             lesson' = [lesson EXCEPT !.journeys[i] = next]
      BY <1>3, <2>1 DEF WorkJourney
    <3>2. InOrder(Sent(m, v, i), next, Steps(m, v)[i].level)
      BY <1>2, <1>4, MovesInOrder
    <3> QED BY <1>1, <3>1, <3>2, EditedLesson DEF LessonHolds
  <2>2. CASE StartOver(i)
    <3>1. lesson' = [lesson EXCEPT !.journeys[i] = ResetJourney(lesson.journeys[i])]
      BY <1>1, <2>2 DEF StartOver, LessonHolds
    <3>2. InOrder(Sent(m, v, i), ResetJourney(lesson.journeys[i]), Steps(m, v)[i].level)
      BY <1>2, ResetInOrder
    <3> QED BY <1>1, <3>1, <3>2, EditedLesson DEF LessonHolds
  <2>3. CASE FinishActivity(i)
    BY <1>1, <2>3, EditedLesson DEF FinishActivity, LessonHolds
  <2> QED BY <2>1, <2>2, <2>3
<1>6. /\ Opened' /\ lesson' # NoLesson /\ lesson'.mission = selected'
      /\ InstructionSource(request, selected)' = "structured" /\ ChecksOpen'
  BY <1>1, <1>5, WorkedLesson
<1>7. OpenLesson'
  BY <1>1, <1>5, <1>6 DEF LessonInv, OpenLesson
<1> QED BY <1>6, <1>7 DEF LessonInv

\* Answering questions: what is sent for judging is of the lesson on screen.
LEMMA TransferKeeps ==
    ASSUME LessonInv, NEW i \in OnScreen, Toggle(i) \/ Acknowledge(i) \/ Submit(i)
    PROVE  LessonInv'
<1> DEFINE m == lesson.mission
           v == lesson.version
           step == LessonSteps[i]
<1>1. /\ lesson # NoLesson /\ LessonHolds(lesson) /\ lesson.from = m
      /\ i \in DOMAIN lesson.nt /\ DOMAIN seen = DOMAIN lesson.nt
      /\ step = Steps(m, v)[i] /\ DOMAIN step.questions \subseteq Nat
      /\ Judged(m, v, i, seen[i]) /\ Judged(m, v, i, lesson.nt[i])
      /\ KeepView
  <2>1. /\ lesson # NoLesson /\ LessonHolds(lesson) /\ KeepView
        /\ DOMAIN seen = DOMAIN lesson.nt
        /\ i \in Visible(LessonSteps, seen, lesson.settled) /\ LessonSteps[i].kind = "near_transfer"
    BY DEF OnScreen, Toggle, Acknowledge, Submit, OnStep, LessonInv, OpenLesson, Change
  <2>2. lesson.from = m /\ step = Steps(m, v)[i]
    BY <2>1 DEF LessonHolds, LessonSteps
  <2>3. i \in DOMAIN Steps(m, v) /\ Steps(m, v)[i].kind = "near_transfer"
    BY <2>1, <2>2 DEF Visible, LessonSteps
  <2>4. DOMAIN step.questions \subseteq Nat
    BY <2>1, <2>2, <2>3, MissionsAssumption DEF LessonHolds, Steps
  <2> HIDE DEF step, m, v
  <2>5. i \in DOMAIN lesson.nt
    BY <2>1, <2>3 DEF LessonHolds, OfKind, m, v
  <2> QED BY <2>1, <2>2, <2>4, <2>5 DEF LessonInv, OpenLesson, LessonHolds, m, v
<1>2. ASSUME NEW next, Judged(m, v, i, next), lesson' = [lesson EXCEPT !.nt[i] = next],
             seen' = lesson'.nt, ChecksOpen' \/ checks' = checks
      PROVE  LessonInv'
  <2>1. /\ LessonHolds(lesson') /\ lesson'.mission = m /\ lesson'.version = v
        /\ DOMAIN lesson'.nt = DOMAIN lesson.nt
    BY <1>1, <1>2, EditedLesson DEF LessonHolds
  <2>2. /\ Opened' /\ lesson' # NoLesson /\ lesson'.mission = selected'
        /\ InstructionSource(request, selected)' = "structured" /\ ChecksOpen'
    BY <1>1, <1>2, <2>1, WorkedLesson
  <2>3. OpenLesson'
    BY <1>2, <2>1, <2>2 DEF OpenLesson, LessonHolds
  <2> QED BY <2>2, <2>3 DEF LessonInv
<1>3. ASSUME NEW next, Judged(m, v, i, next), Change(i, next)
      PROVE  LessonInv'
  BY <1>2, <1>3 DEF Change
<1>4. CASE Toggle(i) \/ Acknowledge(i)
  BY <1>1, <1>3, <1>4, PressIsJudged DEF Toggle, Acknowledge
<1>5. CASE Submit(i)
  <2> DEFINE q == ActiveQuestion(step, seen[i]).id
             check == [at |-> "asked", step |-> i, question |-> q,
                       version |-> lesson.version, chosen |-> seen[i].selection[q]]
  <2>1. /\ ~IsSettled(step, seen[i])
        /\ lesson' = [lesson EXCEPT !.nt[i] = BeginCheck(lesson.nt[i], q)]
        /\ seen' = lesson'.nt /\ checks' = checks \cup {check}
    BY <1>1, <1>5 DEF Submit, Asking, LessonHolds
  <2>2. q \in Questions(Steps(m, v)[i])
    BY <1>1, <2>1, ActiveIsAsked
  <2>3. Judged(m, v, i, BeginCheck(lesson.nt[i], q))
    BY <1>1, PressIsJudged
  <2>4. /\ LessonHolds(lesson') /\ lesson'.mission = m /\ lesson'.version = v
        /\ DOMAIN lesson'.nt = DOMAIN lesson.nt
    BY <1>1, <2>1, <2>3, EditedLesson DEF LessonHolds
  <2>5. lesson' # NoLesson
    BY <2>4, MountedIsALesson
  <2>6. ChecksOpen'
    <3>1. /\ DOMAIN check = {"at", "step", "question", "version", "chosen"}
          /\ check.step = i /\ check.question = q /\ check.version = v
      OBVIOUS
    <3> HIDE DEF check, q, m, v
    <3> QED BY <1>1, <2>1, <2>2, <2>4, <2>5, <3>1 DEF LessonInv, ChecksOpen, m, v
  <2> QED BY <1>2, <2>1, <2>3, <2>6
<1> QED BY <1>4, <1>5

\* Rendering what has been answered.
LEMMA RenderKeeps ==
    ASSUME LessonInv, RenderAnswers
    PROVE  LessonInv'
<1>1. /\ lesson # NoLesson /\ seen' = lesson.nt
      /\ UNCHANGED <<server, view, fetch, lesson, checks>>
  BY DEF RenderAnswers, KeepView
<1>2. Opened' /\ ChecksOpen'
  BY <1>1 DEF LessonInv, Opened, ChecksOpen, server, view
<1>3. OpenLesson'
  BY <1>1 DEF LessonInv, OpenLesson, LessonHolds, view
<1> QED BY <1>2, <1>3 DEF LessonInv

\* Judging: what comes back is of the version the learner opened.
LEMMA JudgeKeeps ==
    ASSUME LessonInv, Judge
    PROVE  LessonInv'
<1> DEFINE m == lesson.mission
           v == lesson.version
<1>1. PICK c \in checks : \/ ResolveExactVersion(c) \/ VersionUnavailable(c)
                          \/ CheckAnswered(c) \/ CheckFailed(c)
  BY DEF Judge
<1>2. /\ lesson # NoLesson /\ LessonHolds(lesson) /\ lesson.from = m
      /\ DOMAIN c = {"at", "step", "question", "version", "chosen"}
      /\ c.step \in DOMAIN lesson.nt /\ c.question \in Questions(Steps(m, v)[c.step])
      /\ c.version = v /\ DOMAIN seen = DOMAIN lesson.nt
      /\ Judged(m, v, c.step, lesson.nt[c.step])
  BY DEF LessonInv, OpenLesson, ChecksOpen, LessonHolds
<1>3. CASE ResolveExactVersion(c)
  <2> DEFINE d == [c EXCEPT !.at = "resolved"]
  <2>1. /\ DOMAIN d = {"at", "step", "question", "version", "chosen"}
        /\ d.step = c.step /\ d.question = c.question /\ d.version = c.version
    BY <1>2
  <2>2. checks' = (checks \ {c}) \cup {d} /\ UNCHANGED <<lesson, seen, server, view, fetch>>
    BY <1>3 DEF ResolveExactVersion, KeepView
  <2> HIDE DEF d
  <2>3. ChecksOpen'
    BY <1>2, <2>1, <2>2 DEF LessonInv, ChecksOpen
  <2> QED BY <2>2, <2>3 DEF LessonInv, Opened, OpenLesson, server, view
<1>4. ASSUME NEW next, Judged(m, v, c.step, next), Settle(c, next),
             next.acknowledged = lesson.nt[c.step].acknowledged
      PROVE  LessonInv'
  <2>1. /\ LessonHolds(lesson') /\ lesson'.mission = m /\ lesson'.version = v
        /\ DOMAIN lesson'.nt = DOMAIN lesson.nt
        /\ \A i \in DOMAIN lesson.nt : lesson'.nt[i].acknowledged = lesson.nt[i].acknowledged
    BY <1>2, <1>4, EditedLesson DEF LessonHolds, Settle
  <2>2. /\ Opened' /\ lesson' # NoLesson /\ lesson'.mission = selected'
        /\ InstructionSource(request, selected)' = "structured" /\ ChecksOpen'
    BY <1>2, <1>4, <2>1, WorkedLesson DEF Settle
  <2>3. OpenLesson'
    BY <1>2, <1>4, <2>1, <2>2 DEF LessonInv, OpenLesson, Settle
  <2> QED BY <2>2, <2>3 DEF LessonInv
<1>5. CASE VersionUnavailable(c)
  BY <1>2, <1>4, <1>5, PressIsJudged
  DEF VersionUnavailable, FailCheckVersionUnavailable, Judged
<1>6. CASE CheckFailed(c)
  BY <1>2, <1>4, <1>6, PressIsJudged DEF CheckFailed, FailCheck, Judged
<1>7. CASE CheckAnswered(c)
  <2> DEFINE next == CommitAnswer(lesson.nt[c.step], c.question, c.chosen,
                                  Verdict(m, v, c.step, c.question, c.chosen))
  <2>1. Settle(c, next)
    BY <1>2, <1>7 DEF CheckAnswered, JudgedVersion
  <2>2. Judged(m, v, c.step, next)
    BY <1>2, VerdictIsJudged
  <2>3. next.acknowledged = lesson.nt[c.step].acknowledged
    BY <1>2 DEF CommitAnswer, Judged
  <2> QED BY <1>4, <2>1, <2>2, <2>3
<1> QED BY <1>1, <1>3, <1>5, <1>6, <1>7

LEMMA LessonInvNext == LessonInv /\ [LessonNext]_lessonVars => LessonInv'
<1> SUFFICES ASSUME LessonInv, [LessonNext]_lessonVars PROVE LessonInv'
  OBVIOUS
<1>1. CASE UNCHANGED <<server, view, fetch, lesson, seen, checks>>
  BY <1>1 DEF LessonInv, Opened, OpenLesson, ChecksOpen, server, view, InstructionSource
<1>2. CASE Study
  BY <1>2, JourneyKeeps, TransferKeeps, RenderKeeps DEF Study
<1> QED
  BY <1>1, <1>2, ReleaseKeeps, OpenKeeps, JudgeKeeps
  DEF LessonNext, RecordProgress, RecordAnswered, lessonVars

\* The invariant holds of every behaviour of the view against the server.
LEMMA LessonHeld == LessonSpec => []LessonInv
BY LessonInvInit, LessonInvNext, PTL DEF LessonSpec

\* A lesson on screen is the open mission's (LearningView's tagged request
\* state): whatever answer was in flight, however missions are released.
THEOREM BelongsToItsMission == LessonSpec => []InstructionBelongs
<1>1. LessonInv => InstructionBelongs
  BY DEF LessonInv, OpenLesson, LessonHolds, InstructionBelongs
<1> QED BY <1>1, LessonHeld, PTL

\* A verdict on screen is the opened version's, on the selection beside it
\* (near-transfer-presentation.ts, near-transfer-check.ts).
THEOREM VerdictsAreTrue == LessonSpec => []VerdictIsOfAnswer
<1>1. LessonInv => VerdictIsOfAnswer
  BY DEF LessonInv, OpenLesson, LessonHolds, Judged, VerdictIsOfAnswer
<1> QED BY <1>1, LessonHeld, PTL

\* What the invariant says of the journey of step i.
LEMMA JourneyHolds ==
    ASSUME LessonInv, lesson # NoLesson, NEW i \in DOMAIN lesson.journeys
    PROVE  /\ lesson.mission \in MissionIds /\ lesson.version \in DOMAIN Lesson[lesson.mission]
           /\ i \in OfKind(lesson.mission, lesson.version, "interaction")
           /\ Parameters(i) = Sent(lesson.mission, lesson.version, i)
           /\ InOrder(Parameters(i), lesson.journeys[i], LessonSteps[i].level)
<1>1. LessonHolds(lesson)
  BY DEF LessonInv, OpenLesson
<1>2. /\ Parameters(i) = Sent(lesson.mission, lesson.version, i)
      /\ LessonSteps[i].level = Steps(lesson.mission, lesson.version)[i].level
  BY <1>1 DEF LessonHolds, Parameters, LessonSteps, Sent
<1> QED BY <1>1, <1>2 DEF LessonHolds

\* At the strict sequencing no stage is shown before its prediction
\* (packet-journey-presentation.ts), whatever the author wrote.
THEOREM PredictedFirst == LessonSpec => []PredictionComesFirst
<1>1. LessonInv => PredictionComesFirst
  BY JourneyHolds DEF PredictionComesFirst, InOrder, Predicted
<1> QED BY <1>1, LessonHeld, PTL

\* No journey asks for a prediction of the stage after the one it stops at.
NoPredictionPastStop ==
    \A m \in MissionIds : \A v \in DOMAIN Lesson[m] : \A i \in OfKind(m, v, "interaction") :
        NoneAskedAfterStop(Sent(m, v, i))

\* An activity is worked through in its author's order, unless a prediction is
\* asked right after the stop (packet-journey-presentation.ts): that committing
\* a prediction reveals its stage is the one way past a fault not repaired.
THEOREM WorkedInOrder ==
    ASSUME NoPredictionPastStop
    PROVE  LessonSpec => []JourneyInOrder
<1>1. LessonInv => RepairComesFirst
  BY JourneyHolds, NoPredictionPastStop
  DEF NoPredictionPastStop, RepairComesFirst, InOrder, Repaired
<1> QED BY <1>1, LessonHeld, PredictedFirst, PTL DEF JourneyInOrder

\* What a journey loses on its way to the learner, besides reasons and checks,
\* is its remediation, at a level that withholds answers.
LEMMA SentStages ==
    ASSUME NEW j, ValidJourney(j), NEW level, NEW p, p = Projected(j, level)
    PROVE  /\ p.fault = j.fault /\ Len(p.stages) = Len(j.stages)
           /\ \A k \in 1..Len(j.stages) :
                 p.stages[k].outcome = j.stages[k].outcome /\ p.stages[k].asks = j.stages[k].asks
           /\ j.fault # 0 /\ ~WithholdsAnswers(level) =>
                 \E a \in DOMAIN p.actions : p.actions[a]
<1>1. CASE ~WithholdsAnswers(level)
  BY <1>1 DEF Projected, ValidJourney, ValidActions
<1>2. CASE WithholdsAnswers(level)
  <2>1. /\ p.stages = [i \in DOMAIN j.stages |->
                            [j.stages[i] EXCEPT !.explains = FALSE, !.checks = << >>]]
        /\ p.fault = j.fault
    BY <1>2 DEF Projected
  <2>2. DOMAIN j.stages = 1..Len(j.stages) /\ Len(j.stages) \in Nat
    BY DEF ValidJourney, ValidStages
  <2>3. Len(p.stages) = Len(j.stages)
    <3>1. PICK sent : sent = p.stages
      OBVIOUS
    <3>2. sent = [k \in 1..Len(j.stages) |-> sent[k]]
      BY <2>1, <2>2, <3>1
    <3> QED BY <2>2, <3>1, <3>2, ListOf
  <2>4. ASSUME NEW k \in 1..Len(j.stages)
        PROVE  p.stages[k].outcome = j.stages[k].outcome /\ p.stages[k].asks = j.stages[k].asks
    <3>1. p.stages[k] = [j.stages[k] EXCEPT !.explains = FALSE, !.checks = << >>]
      BY <2>1, <2>2
    <3>2. DOMAIN j.stages[k] = {"outcome", "asks", "explains", "checks"}
      BY <2>2 DEF ValidJourney, ValidStages
    <3> QED BY <3>1, <3>2
  <2> QED BY <1>2, <2>1, <2>3, <2>4
<1> QED BY <1>1, <1>2

\* Whatever was pressed in whatever order, an activity the lesson waits on is
\* stuck only where its author stops the traffic and nothing leads on
\* (packet-journey-presentation.ts, resolveJourneyBeats): never before its first
\* stage, never where traffic proceeds, never at a fault with what repairs it,
\* never where the next stage asks a prediction.  Of two things an author may
\* write it tells apart the one that strands: a stop other than the fault, and
\* a fault at a level that withholds the remediation.
THEOREM StrandedOnlyWhereAuthored == LessonSpec => []OnlyAuthoringStrands
<1>1. LessonInv => OnlyAuthoringStrands
  <2> SUFFICES ASSUME LessonInv, lesson # NoLesson, NEW i \in OnScreen, Stuck(i),
                      NEW j, j = LessonSteps[i].journey, NEW level, level = LessonSteps[i].level,
                      NEW s, s = lesson.journeys[i], NEW k, k = s.revealed
               PROVE  /\ k > 0 /\ j.stages[k].outcome = "stops"
                      /\ k = j.fault => WithholdsAnswers(level)
                      /\ k < Len(j.stages) => ~j.stages[k + 1].asks
    BY DEF OnlyAuthoringStrands
  <2>1. i \in DOMAIN lesson.journeys
    BY DEF LessonInv, OpenLesson, LessonHolds, OnScreen, Visible, OfKind, LessonSteps, Stuck
  <2>2. PICK p : p = Parameters(i)
    OBVIOUS
  <2>3. /\ lesson.mission \in MissionIds /\ lesson.version \in DOMAIN Lesson[lesson.mission]
        /\ i \in OfKind(lesson.mission, lesson.version, "interaction")
        /\ p = Sent(lesson.mission, lesson.version, i)
        /\ InOrder(p, s, level)
    BY <2>1, <2>2, JourneyHolds
  <2>4. Staged(p)
    BY <2>3, SentJourney DEF Journey
  <2>5. ValidJourney(j)
    BY <2>3, MissionsAssumption
    DEF OfKind, Steps, ValidInteractionStep, LessonInv, OpenLesson, LessonHolds, LessonSteps
  <2>6. p = Projected(j, level)
    BY <2>2 DEF Parameters
  <2>7. ~Finished(p, s)
    BY <2>2 DEF Stuck, OffersFinish
  <2>8. /\ DOMAIN s = Fields /\ s.revealed \in 0..Len(p.stages)
        /\ s.predicted \subseteq 1..s.revealed
    BY <2>3 DEF InOrder, Fields
  <2>9. ~LeadsOn(p, k)
    <3>1. \A b \in DOMAIN Beats(p, s, level) :
            \A next \in JourneyMoves(p, TurnedTo(s, b), level) : ~TakesFurther(p, s, next)
      BY <2>2 DEF Stuck, TurnedTo
    <3> QED BY <2>4, <2>7, <2>8, <3>1, MovesOn
  <2>10. /\ p.fault = j.fault /\ Len(p.stages) = Len(j.stages)
         /\ \A n \in 1..Len(j.stages) :
               p.stages[n].outcome = j.stages[n].outcome /\ p.stages[n].asks = j.stages[n].asks
         /\ j.fault # 0 /\ ~WithholdsAnswers(level) => \E a \in DOMAIN p.actions : p.actions[a]
    BY <2>5, <2>6, SentStages
  <2>11. k # 0 /\ k \in 1..Len(j.stages) /\ Len(j.stages) \in Nat
    <3>1. Len(p.stages) \in Nat
      BY <2>4 DEF Staged
    <3>2. k # 0
      BY <2>9 DEF LeadsOn
    <3> QED BY <2>8, <2>10, <3>1, <3>2
  <2>12. j.stages[k].outcome = "stops"
    BY <2>9, <2>10, <2>11 DEF LeadsOn
  <2>13. k = j.fault => WithholdsAnswers(level)
    BY <2>9, <2>10, <2>11 DEF LeadsOn
  <2>14. k < Len(j.stages) => ~j.stages[k + 1].asks
    <3>1. ASSUME k < Len(j.stages)
          PROVE  ~j.stages[k + 1].asks
      <4>1. k + 1 \in 1..Len(j.stages)
        BY <2>11, <3>1
      <4> QED BY <2>9, <2>10, <3>1, <4>1 DEF LeadsOn
    <3> QED BY <3>1
  <2> QED BY <2>11, <2>12, <2>13, <2>14
<1> QED BY <1>1, LessonHeld, PTL

-----------------------------------------------------------------------------
(* What a lesson requires, and what it reports.                            *)

\* What is settled or acknowledged stays so.
LEMMA SatisfiedStays ==
    ASSUME NEW steps, NEW before, NEW after, NEW done, NEW settled, done \subseteq settled,
           NEW i,
           steps[i].kind = "near_transfer" =>
               before[i].acknowledged \subseteq after[i].acknowledged,
           Satisfied(steps, before, done, i)
    PROVE  Satisfied(steps, after, settled, i)
BY DEF Satisfied, IsSettled, Unacknowledged

LEMMA NothingBecomesOutstanding ==
    ASSUME NEW steps, NEW before, NEW after, NEW done, NEW settled, done \subseteq settled,
           \A i \in DOMAIN steps : steps[i].kind = "near_transfer" =>
               before[i].acknowledged \subseteq after[i].acknowledged
    PROVE  RequiredInstruction(steps, after, settled) = "outstanding" =>
               RequiredInstruction(steps, before, done) = "outstanding"
<1>1. \A i \in DOMAIN steps :
          Satisfied(steps, before, done, i) => Satisfied(steps, after, settled, i)
  BY SatisfiedStays
<1> QED BY <1>1, Zenon DEF RequiredInstruction

\* The lesson mounted is the one that was, with no less done of it.
GoesOn ==
    /\ lesson # NoLesson /\ lesson' # NoLesson
    /\ lesson'.mission = lesson.mission /\ lesson'.version = lesson.version
    /\ lesson.settled \subseteq lesson'.settled
    /\ \A i \in DOMAIN lesson.nt :
          lesson.nt[i].acknowledged \subseteq lesson'.nt[i].acknowledged

\* Working on a lesson and judging it keep it mounted and undo nothing.
LEMMA StudyGoesOn ==
    ASSUME LessonInv, Study \/ Judge
    PROVE  GoesOn
<1>1. lesson # NoLesson /\ LessonHolds(lesson)
  BY DEF Study, Judge, OnScreen, RenderAnswers, LessonInv, OpenLesson, ChecksOpen
<1>2. LessonInv'
  BY LessonInvNext DEF LessonNext
<1>3. ASSUME NEW i, NEW next, lesson' = [lesson EXCEPT !.nt[i] = next],
             i \in DOMAIN lesson.nt => lesson.nt[i].acknowledged \subseteq next.acknowledged
      PROVE  GoesOn
  BY <1>1, <1>3, MissionsAssumption DEF GoesOn, LessonHolds, NoLesson
<1>4. CASE lesson' = lesson
  BY <1>1, <1>4 DEF GoesOn
<1>5. ASSUME NEW i, WorkJourney(i) \/ StartOver(i) \/ FinishActivity(i)
      PROVE  GoesOn
  BY <1>1, <1>5, MissionsAssumption
  DEF WorkJourney, StartOver, FinishActivity, GoesOn, LessonHolds, NoLesson
<1>6. ASSUME NEW i \in OnScreen, Toggle(i) \/ Acknowledge(i) \/ Submit(i)
      PROVE  GoesOn
  <2>1. i \in DOMAIN lesson.nt =>
            /\ lesson.nt[i].acknowledged = seen[i].acknowledged
            /\ Judged(lesson.mission, lesson.version, i, seen[i])
            /\ Judged(lesson.mission, lesson.version, i, lesson.nt[i])
    BY <1>1 DEF LessonInv, OpenLesson, LessonHolds
  <2>2. ASSUME NEW next, Change(i, next),
               i \in DOMAIN lesson.nt => seen[i].acknowledged \subseteq next.acknowledged
        PROVE  GoesOn
    BY <1>3, <2>1, <2>2 DEF Change
  <2>3. CASE Toggle(i)
    BY <2>1, <2>2, <2>3 DEF Toggle, ToggleOption, Judged
  <2>4. CASE Acknowledge(i)
    BY <2>1, <2>2, <2>4 DEF Acknowledge, AcknowledgeAnswer, Judged
  <2>5. CASE Submit(i)
    <3>1. PICK q : lesson' = [lesson EXCEPT !.nt[i] = BeginCheck(@, q)]
      BY <2>5 DEF Submit
    <3>2. lesson' = [lesson EXCEPT !.nt[i] = BeginCheck(lesson.nt[i], q)]
      BY <1>1, <3>1 DEF LessonHolds
    <3>3. i \in DOMAIN lesson.nt =>
              BeginCheck(lesson.nt[i], q).acknowledged = lesson.nt[i].acknowledged
      BY <2>1 DEF BeginCheck, Judged
    <3> QED BY <1>3, <3>2, <3>3
  <2> QED BY <1>6, <2>3, <2>4, <2>5
<1>7. ASSUME NEW c \in checks, \/ ResolveExactVersion(c) \/ VersionUnavailable(c)
                               \/ CheckAnswered(c) \/ CheckFailed(c)
      PROVE  GoesOn
  <2>1. c.step \in DOMAIN lesson.nt
        /\ Judged(lesson.mission, lesson.version, c.step, lesson.nt[c.step])
    BY <1>1 DEF LessonInv, ChecksOpen, LessonHolds
  <2>2. ASSUME NEW next, Settle(c, next), next.acknowledged = lesson.nt[c.step].acknowledged
        PROVE  GoesOn
    BY <1>3, <2>2 DEF Settle
  <2>3. CASE VersionUnavailable(c)
    BY <2>1, <2>2, <2>3 DEF VersionUnavailable, FailCheckVersionUnavailable, Judged
  <2>4. CASE CheckAnswered(c)
    BY <2>1, <2>2, <2>4 DEF CheckAnswered, CommitAnswer, Judged
  <2>5. CASE CheckFailed(c)
    BY <2>1, <2>2, <2>5 DEF CheckFailed, FailCheck, Judged
  <2> QED BY <1>4, <1>7, <2>3, <2>4, <2>5 DEF ResolveExactVersion
<1> QED BY <1>4, <1>5, <1>6, <1>7 DEF Study, Judge, RenderAnswers

\* A lesson that stays mounted goes on.
LEMMA MountedGoesOn ==
    ASSUME LessonInv, [LessonNext]_lessonVars, lesson # NoLesson, lesson' # NoLesson,
           lesson'.mission = lesson.mission
    PROVE  GoesOn
<1>1. CASE lesson' = lesson
  BY <1>1 DEF GoesOn
<1>2. CASE Study \/ Judge
  BY <1>2, StudyGoesOn
<1>3. ASSUME NEW r, NEW m, Remount(r, m)
      PROVE  lesson' = lesson
  BY <1>3 DEF Remount, Mounted
<1>4. CASE Open
  BY <1>1, <1>3, <1>4
  DEF Open, SelectMission, RefreshSession, ReloadInstruction, FetchEffect, ResolveMission,
      InstructionLoaded, InstructionFailed, ReportEffect
<1> QED
  BY <1>1, <1>2, <1>4
  DEF LessonNext, Release, Publish, Retire, RecordProgress, RecordAnswered, lessonVars

\* Starting an activity over, or a verdict, or a release, hides no step the
\* learner has reached (mission-instruction-presentation.ts).
THEOREM StepsAreKept == LessonSpec => StepsStayRevealed
<1>1. LessonInv /\ LessonInv' /\ [LessonNext]_lessonVars =>
        [lesson # NoLesson /\ lesson' # NoLesson /\ generation' = generation
         /\ lesson'.mission = lesson.mission => OnScreen \subseteq OnScreen']_lessonVars
  <2> SUFFICES ASSUME LessonInv, LessonInv', [LessonNext]_lessonVars, lesson # NoLesson,
                      lesson' # NoLesson, lesson'.mission = lesson.mission,
                      NEW i \in OnScreen
               PROVE  i \in OnScreen'
    OBVIOUS
  <2> DEFINE steps == Steps(lesson.mission, lesson.version)
  <2>1. GoesOn
    BY MountedGoesOn
  <2>2. LessonHolds(lesson) /\ LessonHolds(lesson')
    BY DEF LessonInv, OpenLesson, LessonHolds
  <2>3. LessonSteps = steps /\ LessonSteps' = steps
    BY <2>1, <2>2 DEF LessonSteps, LessonHolds, Steps, GoesOn
  <2>4. steps \in Seq(ToSet(steps))
    BY <2>2, MissionsAssumption DEF LessonHolds, Steps
  <2>5. \A k \in DOMAIN steps : steps[k].kind = "near_transfer" =>
            seen[k].acknowledged \subseteq seen'[k].acknowledged
    <3>1. ASSUME NEW k \in DOMAIN steps, steps[k].kind = "near_transfer"
          PROVE  seen[k].acknowledged \subseteq seen'[k].acknowledged
      <4>1. k \in DOMAIN lesson.nt /\ k \in DOMAIN lesson'.nt
        BY <2>1, <2>2, <3>1 DEF LessonHolds, OfKind, GoesOn
      <4>2. seen[k].acknowledged = lesson.nt[k].acknowledged
        BY <4>1 DEF LessonInv, OpenLesson
      <4>3. seen'[k].acknowledged = lesson'.nt[k].acknowledged
        BY <4>1 DEF LessonInv, OpenLesson
      <4> QED BY <2>1, <4>1, <4>2, <4>3 DEF GoesOn
    <3> QED BY <3>1
  <2>6. i \in Visible(steps, seen, lesson.settled)
    BY <2>3 DEF OnScreen
  <2> HIDE DEF steps
  <2>7. \A k \in DOMAIN steps : Satisfied(steps, seen, lesson.settled, k) =>
            Satisfied(steps, seen', lesson'.settled, k)
    BY <2>1, <2>5, SatisfiedStays DEF GoesOn
  <2>8. 1..(i - 1) \subseteq DOMAIN steps
    BY <2>4, <2>6 DEF Visible
  <2>9. i \in Visible(steps, seen', lesson'.settled)
    BY <2>6, <2>7, <2>8 DEF Visible
  <2> QED BY <2>3, <2>9 DEF OnScreen
<1> QED BY <1>1, LessonHeld, PTL DEF LessonSpec, StepsStayRevealed

\* What the bounds of the model leave room for.
Counted ==
    /\ releases \in 0..MaxReleases
    /\ generation \in 0..MaxGeneration
    /\ due \in BOOLEAN /\ (due => generation < MaxGeneration)
    /\ reported.state \in {"none", "outstanding", "satisfied"}
    /\ recording.action \in {"none", "start", "complete"}

LEMMA CountedInit == LessonInit => Counted
<1> SUFFICES ASSUME LessonInit PROVE Counted
  OBVIOUS
<1>1. releases \in 0..MaxReleases /\ generation \in 0..MaxGeneration
  BY BoundsAssumption DEF LessonInit
<1>2. due \in BOOLEAN /\ ~due
  BY Zenon DEF LessonInit
<1> QED BY <1>1, <1>2, Zenon DEF LessonInit, Counted, NoReport, NotRecording

LEMMA CountedNext == Counted /\ [LessonNext]_lessonVars => Counted'
<1> SUFFICES ASSUME Counted, [LessonNext]_lessonVars PROVE Counted'
  OBVIOUS
<1>1. CASE UNCHANGED <<releases, generation, due, reported, recording>>
  BY <1>1 DEF Counted
<1>2. CASE Release
  BY <1>2, BoundsAssumption DEF Release, Publish, Retire, Counted, view
<1>3. CASE Study \/ Judge
  <2>1. UNCHANGED <<server, view, recording>>
    BY <1>3 DEF Study, Judge, WorkJourney, StartOver, FinishActivity, Toggle, Acknowledge,
                Submit, Change, RenderAnswers, ResolveExactVersion, VersionUnavailable,
                CheckAnswered, CheckFailed, Settle, KeepView
  <2> QED BY <1>1, <2>1 DEF server, view
<1>4. CASE Open
  <2>1. UNCHANGED <<releases, recording>>
    BY <1>4
    DEF Open, SelectMission, RefreshSession, ReloadInstruction, FetchEffect, ResolveMission,
        InstructionLoaded, InstructionFailed, ReportEffect, server, view
  <2>2. \/ UNCHANGED <<generation, due, reported>>
        \/ generation < MaxGeneration /\ due' = TRUE /\ UNCHANGED <<generation, reported>>
        \/ due /\ due' = FALSE /\ generation' \in {generation, generation + 1}
             /\ UNCHANGED reported
        \/ reported' = Report /\ UNCHANGED <<generation, due>>
    BY <1>4
    DEF Open, SelectMission, RefreshSession, ReloadInstruction, FetchEffect, ResolveMission,
        InstructionLoaded, InstructionFailed, ReportEffect, view
  <2>3. Report.state \in {"none", "outstanding", "satisfied"}
    BY DEF Report, RequiredInstruction
  <2>4. generation' \in 0..MaxGeneration
    BY <2>2, BoundsAssumption DEF Counted
  <2>5. due' \in BOOLEAN /\ (due' => generation' < MaxGeneration)
    <3>1. CASE UNCHANGED <<generation, due>>
      BY <3>1 DEF Counted
    <3>2. CASE generation < MaxGeneration /\ due' = TRUE /\ UNCHANGED generation
      BY <3>2
    <3>3. CASE due' = FALSE
      BY <3>3
    <3> QED BY <2>2, <3>1, <3>2, <3>3, Zenon
  <2>6. reported'.state \in {"none", "outstanding", "satisfied"}
    BY <2>2, <2>3 DEF Counted
  <2> QED BY <2>1, <2>4, <2>5, <2>6 DEF Counted
<1>5. CASE (\E action \in {"start", "complete"} : RecordProgress(action)) \/ RecordAnswered
  BY <1>5 DEF RecordProgress, RecordAnswered, NotRecording, Counted, server, view
<1> QED
  BY <1>1, <1>2, <1>3, <1>4, <1>5 DEF LessonNext, lessonVars, server, view

\* Every part of the view and of the lesson is what its hook or reducer says it
\* is, and the bounds of the model hold.
THEOREM LessonTypeCorrect == LessonSpec => []LessonTypeOK
<1>1. LessonInv /\ Counted => LessonTypeOK
  BY DEF LessonInv, Opened, OpenLesson, LessonHolds, Counted, LessonTypeOK, LessonSteps
<1> QED BY <1>1, LessonHeld, CountedInit, CountedNext, PTL DEF LessonSpec

-----------------------------------------------------------------------------
(* Completion.                                                             *)

\* The lesson's word of this rendering on the open mission is of the lesson
\* still mounted, and nothing it called done has become outstanding.
ReportHolds ==
    /\ generation \in Nat /\ reported.generation \in Nat
    /\ reported.generation <= generation
    /\ ~due /\ reported.generation = generation => reported.mission \in {selected, NoneOpen}
    /\ reported.generation = generation /\ reported.mission = selected /\ selected # NoneOpen =>
          /\ lesson # NoLesson
          /\ reported.state # "outstanding" =>
                RequiredInstruction(LessonSteps, lesson.nt, lesson.settled) # "outstanding"

LEMMA ReportInit == LessonInit => ReportHolds
BY DEF LessonInit, ReportHolds, NoReport

\* While the instruction is on its way there is no lesson.
LEMMA NoneWhileLoading ==
    ASSUME LessonInv, fetch # NoFetch
    PROVE  lesson = NoLesson
BY DEF LessonInv, Opened, OpenLesson, InstructionSource

\* A report stays true until its generation is over.
LEMMA ReportNext ==
    ASSUME LessonInv, LessonInv', ReportHolds, [LessonNext]_lessonVars
    PROVE  ReportHolds'
<1>1. ASSUME UNCHANGED view, lesson # NoLesson => GoesOn
      PROVE  ReportHolds'
  <2>1. ASSUME lesson # NoLesson,
               RequiredInstruction(LessonSteps, lesson.nt, lesson.settled) # "outstanding"
        PROVE  RequiredInstruction(LessonSteps, lesson.nt, lesson.settled)' # "outstanding"
    <3>1. LessonHolds(lesson) /\ LessonHolds(lesson') /\ GoesOn
      BY <1>1, <2>1 DEF LessonInv, OpenLesson, GoesOn
    <3>2. LessonSteps' = LessonSteps
      BY <3>1 DEF LessonSteps, LessonHolds, Steps, GoesOn
    <3>3. \A i \in DOMAIN LessonSteps : LessonSteps[i].kind = "near_transfer" =>
              lesson.nt[i].acknowledged \subseteq lesson'.nt[i].acknowledged
      BY <3>1 DEF LessonHolds, OfKind, GoesOn, LessonSteps
    <3>4. lesson.settled \subseteq lesson'.settled
      BY <3>1 DEF GoesOn
    <3> QED BY <2>1, <3>2, <3>3, <3>4, NothingBecomesOutstanding
  <2> QED BY <1>1, <2>1 DEF ReportHolds, view, GoesOn
<1>2. CASE UNCHANGED <<selected, request, generation, due, reported, lesson>>
  BY <1>2 DEF ReportHolds, LessonSteps
<1>3. CASE Study \/ Judge
  <2>1. UNCHANGED view
    BY <1>3 DEF Study, Judge, WorkJourney, StartOver, FinishActivity, Toggle, Acknowledge,
                Submit, Change, RenderAnswers, ResolveExactVersion, VersionUnavailable,
                CheckAnswered, CheckFailed, Settle, KeepView
  <2> QED BY <1>1, <1>3, <2>1, StudyGoesOn
<1>4. ASSUME NEW m \in MissionIds, SelectMission(m)
      PROVE  ReportHolds'
  BY <1>4, MissionsAssumption DEF SelectMission, ReportHolds
<1>5. CASE RefreshSession \/ \E i \in OnScreen : ReloadInstruction(i)
  BY <1>5 DEF RefreshSession, ReloadInstruction, ReportHolds, LessonSteps
<1>6. CASE FetchEffect
  BY <1>6 DEF FetchEffect, ReportHolds, LessonInv, Opened
<1>7. CASE InstructionLoaded \/ InstructionFailed
  <2>1. lesson = NoLesson
    BY <1>7, NoneWhileLoading DEF InstructionLoaded, InstructionFailed, NoFetch
  <2> QED BY <1>7, <2>1 DEF InstructionLoaded, InstructionFailed, ReportHolds
<1>8. CASE ReportEffect
  <2>1. /\ lesson # NoLesson /\ reported' = Report
        /\ UNCHANGED <<selected, generation, due, lesson>>
    BY <1>8 DEF ReportEffect
  <2>2. LessonHolds(lesson) /\ lesson.mission = selected
    BY <2>1 DEF LessonInv, OpenLesson
  <2>3. \A i \in DOMAIN LessonSteps : LessonSteps[i].kind = "near_transfer" =>
            seen[i].acknowledged \subseteq lesson.nt[i].acknowledged
    BY <2>1, <2>2 DEF LessonInv, OpenLesson, LessonHolds, OfKind, LessonSteps
  <2>4. Report.state # "outstanding" =>
            RequiredInstruction(LessonSteps, lesson.nt, lesson.settled) # "outstanding"
    BY <2>3, NothingBecomesOutstanding DEF Report
  <2>5. Report.generation = generation /\ Report.mission = selected
    BY <2>2 DEF Report
  <2>6. LessonSteps' = LessonSteps
    BY <2>1 DEF LessonSteps
  <2> QED BY <2>1, <2>4, <2>5, <2>6 DEF ReportHolds
<1> QED
  BY <1>2, <1>3, <1>4, <1>5, <1>6, <1>7, <1>8
  DEF LessonNext, Open, Release, Publish, Retire, ResolveMission, RecordProgress,
      RecordAnswered, lessonVars, view

\* Only what its own lesson asks is called complete (LearningView's gate on the
\* report of this rendering): no earlier visit's word and no other mission's
\* lets a completion out.
THEOREM CompletedWhenDone == LessonSpec => CompletionEarned
<1>1. LessonInv /\ LessonInv' /\ ReportHolds /\ [LessonNext]_lessonVars => ReportHolds'
  BY ReportNext
<1>2. LessonInv /\ ReportHolds /\ [LessonNext]_lessonVars =>
        [(recording' # recording /\ recording'.action = "complete") =>
            /\ request.mission = selected
            /\ request.status \in {"loaded", "error"}
            /\ lesson # NoLesson =>
                  RequiredInstruction(LessonSteps, lesson.nt, lesson.settled) # "outstanding"
        ]_lessonVars
  <2> SUFFICES ASSUME LessonInv, ReportHolds, [LessonNext]_lessonVars,
                      recording' # recording, recording'.action = "complete"
               PROVE  /\ request.mission = selected
                      /\ request.status \in {"loaded", "error"}
                      /\ lesson # NoLesson =>
                            RequiredInstruction(LessonSteps, lesson.nt, lesson.settled)
                                # "outstanding"
    OBVIOUS
  <2>1. \E action : RecordProgress(action) /\ action = "complete"
    <3>1. CASE RecordAnswered
      BY <3>1 DEF RecordAnswered, NotRecording
    <3>2. ASSUME NEW action, RecordProgress(action)
          PROVE  action = "complete"
      BY <3>2 DEF RecordProgress
    <3>3. recording' = recording \/ RecordAnswered \/ \E action : RecordProgress(action)
      BY DEF LessonNext, Release, Publish, Retire, Open, SelectMission, RefreshSession,
             ReloadInstruction, FetchEffect, ResolveMission, InstructionLoaded,
             InstructionFailed, ReportEffect, Study, WorkJourney, StartOver, FinishActivity,
             Toggle, Acknowledge, Submit, Change, RenderAnswers, Judge, ResolveExactVersion,
             VersionUnavailable, CheckAnswered, CheckFailed, Settle, KeepView, lessonVars
    <3> QED BY <3>1, <3>2, <3>3
  <2>2. /\ selected # NoneOpen
        /\ ResolveReportedRequiredInstruction(selected) # "outstanding"
    BY <2>1 DEF RecordProgress, CanComplete
  <2>3. CASE reported.mission = selected /\ reported.generation = generation
    <3>1. /\ lesson # NoLesson
          /\ RequiredInstruction(LessonSteps, lesson.nt, lesson.settled) # "outstanding"
      BY <2>2, <2>3 DEF ResolveReportedRequiredInstruction, ReportHolds
    <3>2. InstructionSource(request, selected) = "structured"
      BY <3>1 DEF LessonInv, OpenLesson
    <3> QED BY <3>1, <3>2 DEF InstructionSource
  <2>4. CASE ~(reported.mission = selected /\ reported.generation = generation)
    <3>1. ~ExpectsStructuredInstruction(request, selected)
      BY <2>2, <2>4 DEF ResolveReportedRequiredInstruction
    <3>2. /\ request.mission = selected /\ request.status \notin {"idle", "loading"}
          /\ InstructionSource(request, selected) # "structured"
      BY <3>1 DEF ExpectsStructuredInstruction, InstructionSource
    <3>3. lesson = NoLesson
      BY <3>2 DEF LessonInv, OpenLesson
    <3>4. request.status \in {"loaded", "error"}
      BY <3>2 DEF LessonInv, Opened
    <3> QED BY <3>2, <3>3, <3>4
  <2> QED BY <2>3, <2>4
<1> QED BY <1>1, <1>2, LessonHeld, ReportInit, PTL DEF LessonSpec, CompletionEarned
=============================================================================

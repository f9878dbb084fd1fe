----------------------------- MODULE LabProofs -----------------------------
(***************************************************************************)
(* Theorems about LabSession: whatever its students and automation cycles  *)
(* do at the same time, and wherever they stop, a session is provisioned   *)
(* once, one session is live, and what is offered is there.  And about     *)
(* ProviderRollout: no order of canary runs, operators and overlapping     *)
(* registry queries enables the container provider unearned or gives out a *)
(* container on an authorization that is too old.                          *)
(***************************************************************************)
EXTENDS LabSession, ProviderRollout, TLAPS

-----------------------------------------------------------------------------
(* LabSession.                                                             *)

\* The handlers by the fields they carry along.
PlainStep == {"queue", "claim", "provision", "save", "ready", "fail", "start", "activate",
              "expire", "closeExpire", "schedule", "escalate"}
CleanStep == {"clean", "destroy", "destroyed", "spoiled", "close", "openCleanup", "reschedule"}
SeenStep == {"drop", "claimEnd", "claimExpired"}
ResetStep == {"reset", "recreate", "count", "restore"}

\* States a session is in before any handler has claimed it.
Early == {"none", "requested", "queued"}

\* Steps of a handler that runs an open cleanup operation.
Cleaning(w) ==
    /\ work[w].step \in CleanStep \ {"openCleanup"}
    /\ work[w].kind # "end"

\* A reset counts from below the limit, an operation that is due may be
\* retried, and one handler at most runs the open operation of a session.
Counted ==
    /\ \A w \in Workers : work[w].step \in ResetStep =>
          w \in Students /\ work[w].count < ResetLimit
    /\ \A w \in Workers : work[w].step = "claimExpired" => work[w].seen \in LiveStates
    /\ \A s \in Sessions : cleanup[s].due => CanRetry(cleanup[s].attempts)
    /\ \A w \in Workers : work[w].step \in {"openCleanup", "clean", "close", "reschedule"} =>
          work[w].kind # "end"
    /\ \A w \in Workers : Cleaning(w) =>
          /\ cleanup[Session(w)] = [stage |-> "running", attempts |-> 1, due |-> FALSE]
          /\ \A v \in Workers : Cleaning(v) /\ Session(v) = Session(w) => v = w

Typed == TypeOK /\ Counted

\* Nothing is done to a session before its row is inserted, and one handler
\* inserts it.
InsertedFirst ==
    /\ \A w \in Workers : At(w, "insert") =>
          /\ state[Session(w)] = "none"
          /\ \A v \in Workers : At(v, "insert") /\ Session(v) = Session(w) => v = w
    /\ \A w \in Workers : work[w] # Idle /\ ~At(w, "insert") => state[Session(w)] # "none"
    /\ \A s \in Sessions : cleanup[s] # NoOp => state[s] # "none"

\* No session that may still be claimed has a resource.
Unclaimed == \A s \in Sessions : state[s] \in Early => resource[s] = "none"

\* The claim is the handler's own, and the session leaves the states that can
\* be claimed for good.
Claimed ==
    \A w \in Workers : At(w, "provision") =>
        /\ state[Session(w)] \notin Early
        /\ resource[Session(w)] = "none"
        /\ \A v \in Workers : At(v, "provision") /\ Session(v) = Session(w) => v = w

\* What is referenced, saved, recreated or destroyed has been provisioned.
Held ==
    /\ \A s \in reference : resource[s] # "none"
    /\ \A w \in Workers : work[w].step \in {"save", "recreate"} => resource[Session(w)] # "none"
    /\ \A w \in Workers :
          work[w].step \in {"ready", "start", "activate", "claimEnd", "destroy"} \cup ResetStep
              => Session(w) \in reference

OnceInv == InsertedFirst /\ Unclaimed /\ Claimed /\ Held

-----------------------------------------------------------------------------
\* A handler's record by the step it is at.
LEMMA PlainJob ==
    ASSUME TypeOK, NEW w \in Workers, work[w].step \in PlainStep
    PROVE  /\ work[w] \in [step : PlainStep, session : Sessions]
           /\ \A step \in PlainStep : [work[w] EXCEPT !.step = step] \in Job
BY DEF TypeOK, Job, Idle, PlainStep

LEMMA CleanJob ==
    ASSUME TypeOK, NEW w \in Workers, work[w].step \in CleanStep
    PROVE  /\ work[w] \in [step : CleanStep, session : Sessions,
                           kind : {"end", "cleanup", "recover"}]
           /\ \A step \in CleanStep : [work[w] EXCEPT !.step = step] \in Job
BY DEF TypeOK, Job, Idle, CleanStep

LEMMA SeenJob ==
    ASSUME TypeOK, NEW w \in Workers, work[w].step \in SeenStep
    PROVE  work[w] \in [step : SeenStep, session : Sessions, seen : LabState]
BY DEF TypeOK, Job, Idle, SeenStep

LEMMA ResetJob ==
    ASSUME TypeOK, NEW w \in Workers, work[w].step \in ResetStep
    PROVE  /\ work[w] \in [step : ResetStep, session : Sessions, count : 0..ResetLimit]
           /\ \A step \in ResetStep : [work[w] EXCEPT !.step = step] \in Job
BY DEF TypeOK, Job, Idle, ResetStep

LEMMA BusySession ==
    ASSUME TypeOK, NEW w \in Workers, work[w] # Idle
    PROVE  Session(w) \in Sessions
BY DEF TypeOK, Job, Session

\* Which writes of lifecycle_state a handler under way can make.
StateMoves(w) ==
    \A t \in Sessions : state'[t] # state[t] =>
        /\ t = Session(w)
        /\ state'[t] \in LabState
        /\ state'[t] \in Early => \/ At(w, "insert")
                                  \/ At(w, "queue") /\ state[t] = "requested"
        /\ state'[t] = "ready" => \/ At(w, "ready") /\ state[t] = "provisioning"
                                  \/ At(w, "restore")
        /\ state'[t] = "active" => At(w, "activate")
        /\ state'[t] \in LiveStates => \/ MayEnter(t, state'[t])
                                       \/ At(w, "claimExpired") /\ state[t] = work[w].seen

LEMMA StateMovesOfHandler ==
    ASSUME TypeOK, NEW w \in Workers, Proceed(w)
    PROVE  /\ StateMoves(w)
           /\ state' \in [Sessions -> LabState \cup {"none"}]
BY BusySession DEF StateMoves, TypeOK, Proceed, Insert, Queue, Claim, Provision, SaveReference,
    MarkReady, MarkFailed, StartResource, Activate, RemoveResource, RecreateResource,
    CountReset, Restore, Drop, ClaimEnd, Destroy, MarkTerminated, MarkSpoiled, Reschedule,
    Expire, CloseExpire, OpenCleanup, Clean, CloseCleanup, ClaimExpired, Schedule, Escalate,
    LoseRoundTrip, Crash, Transition, Overwrite, Set, KeepRest, KeepRows, KeepAll, rows, At,
    Early, LabState

\* Resources only the provider calls change, and none is ever taken back to
\* not having been provisioned.
ResourceMoves(w) ==
    \A t \in Sessions : resource'[t] # resource[t] =>
        /\ t = Session(w)
        /\ resource'[t] \in {"up", "gone"}
        /\ \/ At(w, "provision") \/ At(w, "recreate") \/ At(w, "destroy")
           \/ At(w, "reset") /\ resource[t] = "up"

LEMMA ResourceMovesOfHandler ==
    ASSUME TypeOK, NEW w \in Workers, Proceed(w)
    PROVE  /\ ResourceMoves(w)
           /\ resource' \in [Sessions -> Resource]
           /\ \/ reference' = reference
              \/ At(w, "save") /\ reference' = reference \cup {Session(w)}
BY BusySession DEF ResourceMoves, Resource, TypeOK, Proceed, Insert, Queue, Claim, Provision,
    SaveReference,
    MarkReady, MarkFailed, StartResource, Activate, RemoveResource, RecreateResource,
    CountReset, Restore, Drop, ClaimEnd, Destroy, MarkTerminated, MarkSpoiled, Reschedule,
    Expire, CloseExpire, OpenCleanup, Clean, CloseCleanup, ClaimExpired, Schedule, Escalate,
    LoseRoundTrip, Crash, Transition, Overwrite, Set, KeepRest, KeepRows, KeepAll, rows, At

\* A handler that goes on to another step keeps what else it carries.
LEMMA GoToFacts ==
    ASSUME TypeOK, NEW w \in Workers, NEW step, GoTo(w, step),
           \/ work[w].step \in PlainStep /\ step \in PlainStep
           \/ work[w].step \in CleanStep /\ step \in CleanStep
           \/ work[w].step \in ResetStep /\ step \in ResetStep
    PROVE  /\ \A v \in Workers \ {w} : work'[v] = work[v]
           /\ work' \in [Workers -> Job]
           /\ work'[w].step = step
           /\ work'[w].session = Session(w)
           /\ work[w].step \in CleanStep => work'[w].kind = work[w].kind
           /\ work[w].step \in ResetStep => work'[w].count = work[w].count
<1> DEFINE after == [work[w] EXCEPT !.step = step]
<1>1. ASSUME after \in Job
      PROVE  /\ \A v \in Workers \ {w} : work'[v] = work[v]
             /\ work' \in [Workers -> Job]
             /\ work'[w] = after
  <2>1. work' = [work EXCEPT ![w] = after]
    BY DEF GoTo, Continue
  <2> HIDE DEF after
  <2> QED
    BY <1>1, <2>1 DEF TypeOK
<1>2. CASE work[w].step \in PlainStep /\ step \in PlainStep
  <2>1. work[w] \in [step : PlainStep, session : Sessions] /\ after \in Job
    BY <1>2, PlainJob
  <2> QED
    BY <1>1, <1>2, <2>1 DEF Session, PlainStep, CleanStep, ResetStep
<1>3. CASE work[w].step \in CleanStep /\ step \in CleanStep
  <2>1. /\ work[w] \in [step : CleanStep, session : Sessions,
                        kind : {"end", "cleanup", "recover"}]
        /\ after \in Job
    BY <1>3, CleanJob
  <2> QED
    BY <1>1, <1>3, <2>1 DEF Session, CleanStep, ResetStep
<1>4. CASE work[w].step \in ResetStep /\ step \in ResetStep
  <2>1. /\ work[w] \in [step : ResetStep, session : Sessions, count : 0..ResetLimit]
        /\ after \in Job
    BY <1>4, ResetJob
  <2> QED
    BY <1>1, <1>4, <2>1 DEF Session, CleanStep, ResetStep
<1> QED
  BY <1>2, <1>3, <1>4

LEMMA ContinueFacts ==
    ASSUME TypeOK, NEW w \in Workers, NEW job \in Job, Continue(w, job)
    PROVE  /\ \A v \in Workers \ {w} : work'[v] = work[v]
           /\ work' \in [Workers -> Job]
           /\ work'[w] = job
BY DEF Continue, TypeOK

LEMMA FinishFacts ==
    ASSUME TypeOK, NEW w \in Workers, Finish(w)
    PROVE  /\ \A v \in Workers \ {w} : work'[v] = work[v]
           /\ work' \in [Workers -> Job]
           /\ work'[w] = Idle
BY DEF Finish, Continue, TypeOK, Job

\* A handler goes from step to step along its own way, for the same session.
Goes(w) ==
    LET s    == Session(w)
        from == work[w].step
        to   == work'[w].step
    IN  \/ work'[w] = Idle
        \/ /\ work'[w].session = s
           /\ from # "idle" /\ to # "insert"
           /\ from = "insert" => state'[s] # "none"
           /\ to = "provision" => state[s] \in {"requested", "queued"} /\ state'[s] = "provisioning"
           /\ to = "save" => resource'[s] = "up"
           /\ to = "ready" => s \in reference'
           /\ to = "activate" => from = "start"
           /\ to = "recreate" => from = "reset" /\ resource'[s] = "gone"
           /\ to \in ResetStep => from \in ResetStep /\ work'[w].count = work[w].count
           /\ to = "destroy" => from = "claimEnd" \/ s \in reference
           /\ to \in CleanStep =>
                 \/ to = "destroy" /\ work'[w].kind = "end"
                 \/ /\ from \in CleanStep /\ work'[w].kind = work[w].kind
                    /\ from = "openCleanup" => to = "clean"
                    /\ to \in {"close", "reschedule"} => work[w].kind # "end"
           /\ to = "clean" =>
                 /\ from = "openCleanup" /\ cleanup[s] = NoOp
                 /\ cleanup'[s] = [stage |-> "running", attempts |-> 1, due |-> FALSE]
           /\ to \notin {"openCleanup", "start", "claimEnd", "claimExpired"}

LEMMA WayOfHandler ==
    ASSUME TypeOK, NEW w \in Workers, Proceed(w)
    PROVE  /\ \A v \in Workers \ {w} : work'[v] = work[v]
           /\ work' \in [Workers -> Job]
           /\ Goes(w)
<1>1. CASE Queue(w)
  BY <1>1, FinishFacts
      DEF Queue, Goes, Transition, Overwrite, Set, KeepRest, KeepRows, KeepAll
<1>2. CASE Drop(w)
  BY <1>2, FinishFacts
      DEF Drop, Goes, Transition, Overwrite, Set, KeepRest, KeepRows, KeepAll
<1>3. CASE Restore(w)
  BY <1>3, FinishFacts
      DEF Restore, Goes, Transition, Overwrite, Set, KeepRest, KeepRows, KeepAll
<1>4. CASE Activate(w)
  BY <1>4, FinishFacts
      DEF Activate, Goes, Transition, Overwrite, Set, KeepRest, KeepRows, KeepAll
<1>5. CASE CloseExpire(w)
  BY <1>5, FinishFacts
      DEF CloseExpire, Goes, Transition, Overwrite, Set, KeepRest, KeepRows, KeepAll
<1>6. CASE Reschedule(w)
  BY <1>6, FinishFacts
      DEF Reschedule, Goes, Transition, Overwrite, Set, KeepRest, KeepRows, KeepAll
<1>7. CASE Schedule(w)
  BY <1>7, FinishFacts
      DEF Schedule, Goes, Transition, Overwrite, Set, KeepRest, KeepRows, KeepAll
<1>8. CASE Escalate(w)
  BY <1>8, FinishFacts
      DEF Escalate, Goes, Transition, Overwrite, Set, KeepRest, KeepRows, KeepAll
<1>9. CASE CloseCleanup(w)
  BY <1>9, FinishFacts
      DEF CloseCleanup, Goes, Transition, Overwrite, Set, KeepRest, KeepRows, KeepAll
<1>10. CASE Crash(w)
  BY <1>10, FinishFacts
      DEF Crash, Goes, Transition, Overwrite, Set, KeepRest, KeepRows, KeepAll
<1>11. CASE Claim(w)
  BY <1>11, FinishFacts, GoToFacts, BusySession
      DEF Claim, Transition, Overwrite, Set, KeepRest, KeepRows, KeepAll,
          PlainStep, CleanStep, ResetStep, TypeOK, Goes, At, Session, Idle
<1>12. CASE Provision(w)
  BY <1>12, FinishFacts, GoToFacts, BusySession
      DEF Provision, Transition, Overwrite, Set, KeepRest, KeepRows, KeepAll,
          PlainStep, CleanStep, ResetStep, TypeOK, Goes, At, Session, Idle
<1>13. CASE SaveReference(w)
  BY <1>13, FinishFacts, GoToFacts, BusySession
      DEF SaveReference, Transition, Overwrite, Set, KeepRest, KeepRows, KeepAll,
          PlainStep, CleanStep, ResetStep, TypeOK, Goes, At, Session, Idle
<1>14. CASE MarkReady(w)
  BY <1>14, FinishFacts, GoToFacts, BusySession
      DEF MarkReady, Transition, Overwrite, Set, KeepRest, KeepRows, KeepAll,
          PlainStep, CleanStep, ResetStep, TypeOK, Goes, At, Session, Idle
<1>15. CASE MarkFailed(w)
  BY <1>15, FinishFacts, GoToFacts, BusySession
      DEF MarkFailed, Transition, Overwrite, Set, KeepRest, KeepRows, KeepAll,
          PlainStep, CleanStep, ResetStep, TypeOK, Goes, At, Session, Idle
<1>16. CASE StartResource(w)
  BY <1>16, FinishFacts, GoToFacts, BusySession
      DEF StartResource, Transition, Overwrite, Set, KeepRest, KeepRows, KeepAll,
          PlainStep, CleanStep, ResetStep, TypeOK, Goes, At, Session, Idle
<1>17. CASE Expire(w)
  BY <1>17, FinishFacts, GoToFacts, BusySession
      DEF Expire, Transition, Overwrite, Set, KeepRest, KeepRows, KeepAll,
          PlainStep, CleanStep, ResetStep, TypeOK, Goes, At, Session, Idle
<1>18. CASE RemoveResource(w)
  BY <1>18, FinishFacts, GoToFacts, BusySession
      DEF RemoveResource, Transition, Overwrite, Set, KeepRest, KeepRows, KeepAll,
          ResetStep, CleanStep, TypeOK, Goes, At, Session, Idle
<1>19. CASE RecreateResource(w)
  BY <1>19, FinishFacts, GoToFacts, BusySession
      DEF RecreateResource, Transition, Overwrite, Set, KeepRest, KeepRows, KeepAll,
          ResetStep, CleanStep, TypeOK, Goes, At, Session, Idle
<1>20. CASE CountReset(w)
  BY <1>20, FinishFacts, GoToFacts, BusySession
      DEF CountReset, Transition, Overwrite, Set, KeepRest, KeepRows, KeepAll,
          ResetStep, CleanStep, TypeOK, Goes, At, Session, Idle
<1>21. CASE Destroy(w)
  BY <1>21, FinishFacts, GoToFacts, BusySession
      DEF Destroy, Transition, Overwrite, Set, KeepRest, KeepRows, KeepAll,
          CleanStep, ResetStep, TypeOK, Goes, At, Session, Idle
<1>22. CASE MarkTerminated(w)
  BY <1>22, FinishFacts, GoToFacts, BusySession
      DEF MarkTerminated, Transition, Overwrite, Set, KeepRest, KeepRows, KeepAll,
          CleanStep, ResetStep, TypeOK, Goes, At, Session, Idle
<1>23. CASE MarkSpoiled(w)
  BY <1>23, FinishFacts, GoToFacts, BusySession
      DEF MarkSpoiled, Transition, Overwrite, Set, KeepRest, KeepRows, KeepAll,
          CleanStep, ResetStep, TypeOK, Goes, At, Session, Idle
<1>24. CASE OpenCleanup(w)
  BY <1>24, FinishFacts, GoToFacts, BusySession
      DEF OpenCleanup, Transition, Overwrite, Set, KeepRest, KeepRows, KeepAll,
          CleanStep, ResetStep, TypeOK, Goes, At, Session, Idle
<1>25. CASE Clean(w)
  BY <1>25, FinishFacts, GoToFacts, BusySession
      DEF Clean, Transition, Overwrite, Set, KeepRest, KeepRows, KeepAll,
          CleanStep, ResetStep, TypeOK, Goes, At, Session, Idle
<1>26. CASE Insert(w)
  BY <1>26, FinishFacts, ContinueFacts, BusySession
      DEF Insert, Transition, Overwrite, Set, KeepRest, KeepRows, KeepAll,
          Job, ResetStep, CleanStep, TypeOK, Goes, At, Session, Idle
<1>27. CASE ClaimEnd(w)
  BY <1>27, FinishFacts, ContinueFacts, BusySession
      DEF ClaimEnd, Transition, Overwrite, Set, KeepRest, KeepRows, KeepAll,
          Job, ResetStep, CleanStep, TypeOK, Goes, At, Session, Idle
<1>28. CASE ClaimExpired(w)
  BY <1>28, FinishFacts, ContinueFacts, BusySession
      DEF ClaimExpired, Transition, Overwrite, Set, KeepRest, KeepRows, KeepAll,
          Job, ResetStep, CleanStep, TypeOK, Goes, At, Session, Idle
<1>29. CASE LoseRoundTrip(w)
  <2>1. CASE work[w].step \in {"provision", "save", "ready"}
    BY <1>29, <2>1, GoToFacts DEF LoseRoundTrip, Goes, PlainStep, CleanStep, ResetStep
  <2>2. CASE work[w].step = "destroyed"
    BY <1>29, <2>2, GoToFacts DEF LoseRoundTrip, Goes, CleanStep, ResetStep
  <2>3. CASE work[w].step \notin {"provision", "save", "ready", "destroyed"}
    BY <1>29, <2>3 DEF LoseRoundTrip, GoTo, Continue, TypeOK, Job, Idle
  <2> QED
    BY <2>1, <2>2, <2>3
<1> QED
  BY <1>1, <1>2, <1>3, <1>4, <1>5, <1>6, <1>7, <1>8, <1>9, <1>10, <1>11,
     <1>12, <1>13, <1>14, <1>15, <1>16, <1>17, <1>18, <1>19, <1>20, <1>21, <1>22, <1>23,
     <1>24, <1>25, <1>26, <1>27, <1>28, <1>29 DEF Proceed

\* Cleanup operations: an open one is only closed or put off by the handler
\* that runs it.
CleanupMoves(w) ==
    \A t \in Sessions : cleanup'[t] # cleanup[t] =>
        /\ t = Session(w)
        /\ \/ /\ At(w, "openCleanup") /\ cleanup[t] = NoOp
              /\ cleanup'[t] \in CleanupOp /\ ~cleanup'[t].due
           \/ /\ At(w, "openCleanup") /\ cleanup[t] = NoOp
              /\ cleanup'[t] = [stage |-> "running", attempts |-> 1, due |-> FALSE]
           \/ /\ At(w, "close")
              /\ cleanup'[t] = NoOp
           \/ /\ At(w, "schedule") /\ cleanup[t] = NoOp
              /\ cleanup'[t] = [stage |-> "pending", attempts |-> 0, due |-> TRUE]
           \/ /\ At(w, "reschedule")
              /\ cleanup'[t] \in CleanupOp /\ cleanup'[t].attempts = cleanup[t].attempts
              /\ cleanup'[t].due => CanRetry(1)

LEMMA CleanupMovesOfHandler ==
    ASSUME TypeOK, NEW w \in Workers, Proceed(w)
    PROVE  /\ CleanupMoves(w)
           /\ cleanup' \in [Sessions -> CleanupOp]
<1>1. \/ cleanup' = cleanup
      \/ OpenCleanup(w) \/ CloseCleanup(w) \/ Schedule(w) \/ Reschedule(w)
  BY DEF Proceed, Insert, Queue, Claim, Provision, SaveReference, MarkReady, MarkFailed,
      StartResource, Activate, RemoveResource, RecreateResource, CountReset, Restore, Drop,
      ClaimEnd, Destroy, MarkTerminated, MarkSpoiled, Reschedule, Expire, CloseExpire,
      OpenCleanup, Clean, CloseCleanup, ClaimExpired, Schedule, Escalate, LoseRoundTrip,
      Crash, Transition, Overwrite, KeepRest, KeepRows, KeepAll, rows
<1>2. \A t \in Sessions : cleanup[t] \in CleanupOp
  BY DEF TypeOK
<1>3. CASE cleanup' = cleanup
  BY <1>3 DEF CleanupMoves, TypeOK
<1>4. CASE OpenCleanup(w)
  <2> DEFINE op == [NoOp EXCEPT !.stage = "pending"]
  <2>0. NoOp \in CleanupOp
    BY LabRulesAssumption DEF NoOp, CleanupOp
  <2>1. op \in CleanupOp
    BY <2>0 DEF CleanupOp
  <2>2. ~op.due
    BY DEF NoOp
  <2>3. [stage |-> "running", attempts |-> 1, due |-> FALSE] \in CleanupOp
    BY LabRulesAssumption DEF CleanupOp
  <2> HIDE DEF op
  <2> QED
    BY <1>4, <2>1, <2>2, <2>3, BusySession
       DEF CleanupMoves, OpenCleanup, At, TypeOK, Idle, op
<1>5. CASE CloseCleanup(w)
  <2>1. NoOp \in CleanupOp
    BY LabRulesAssumption DEF NoOp, CleanupOp
  <2> QED
    BY <1>5, <2>1 DEF CleanupMoves, CloseCleanup, At, TypeOK
<1>6. CASE Schedule(w)
  <2>1. [stage |-> "pending", attempts |-> 0, due |-> TRUE] \in CleanupOp
    BY LabRulesAssumption DEF CleanupOp
  <2> QED
    BY <1>6, <2>1 DEF CleanupMoves, Schedule, At, TypeOK
<1>7. CASE Reschedule(w)
  <2> DEFINE s == Session(w)
             put == [[cleanup[s] EXCEPT !.stage = "failed"] EXCEPT !.due = CanRetry(1)]
  <2>1. s \in Sessions /\ cleanup[s] \in CleanupOp
    BY <1>2, <1>7, BusySession DEF Reschedule, At, Idle
  <2>2. cleanup' = [cleanup EXCEPT ![s] = put]
    BY <1>7, <2>1 DEF Reschedule, TypeOK
  <2>3. CanRetry(1) \in BOOLEAN
    BY DEF CanRetry
  <2> DEFINE retry == CanRetry(1)
  <2> HIDE DEF retry
  <2>4. [[cleanup[s] EXCEPT !.stage = "failed"] EXCEPT !.due = retry] \in CleanupOp
    BY <2>1, <2>3 DEF CleanupOp, retry
  <2>5. put.attempts = cleanup[s].attempts
    BY <2>1 DEF CleanupOp
  <2>6. put.due => CanRetry(1)
    BY <2>1 DEF CleanupOp
  <2> HIDE DEF put
  <2> QED
    BY <1>7, <2>1, <2>2, <2>4, <2>5, <2>6 DEF CleanupMoves, Reschedule, TypeOK, put, retry
<1> QED
  BY <1>1, <1>3, <1>4, <1>5, <1>6, <1>7

\* The other tables stay well formed.
LEMMA TablesOfHandler ==
    ASSUME Typed, NEW w \in Workers, Proceed(w)
    PROVE  /\ resets' \in [Sessions -> 0..ResetLimit]
           /\ open' \subseteq Sessions \X {"expire", "recover"}
           /\ destroyTried' \subseteq Sessions
<1>0. TypeOK
  BY DEF Typed
<1>1. /\ resets' = resets \/ CountReset(w)
      /\ open' = open \/ CloseExpire(w) \/ CloseCleanup(w)
      /\ destroyTried' = destroyTried \/ Destroy(w)
  BY DEF Proceed, Insert, Queue, Claim, Provision, SaveReference, MarkReady, MarkFailed,
      StartResource, Activate, RemoveResource, RecreateResource, CountReset, Restore, Drop,
      ClaimEnd, Destroy, MarkTerminated, MarkSpoiled, Reschedule, Expire, CloseExpire,
      OpenCleanup, Clean, CloseCleanup, ClaimExpired, Schedule, Escalate, LoseRoundTrip,
      Crash, Transition, Overwrite, KeepRest, KeepRows, KeepAll, rows
<1>2. ASSUME CountReset(w)
      PROVE  resets' \in [Sessions -> 0..ResetLimit]
  <2>1. /\ work[w] \in [step : ResetStep, session : Sessions, count : 0..ResetLimit]
        /\ work[w].count < ResetLimit
    BY <1>0, <1>2, ResetJob DEF CountReset, At, Typed, Counted, ResetStep
  <2>2. work[w].count + 1 \in 0..ResetLimit
    BY <2>1, LabSessionAssumption
  <2> QED
    BY <1>0, <1>2, <2>2 DEF CountReset, TypeOK
<1>3. ASSUME CloseExpire(w) \/ CloseCleanup(w)
      PROVE  open' \subseteq Sessions \X {"expire", "recover"}
  BY <1>0, <1>3 DEF CloseExpire, CloseCleanup, TypeOK
<1>4. ASSUME Destroy(w)
      PROVE  destroyTried' \subseteq Sessions
  BY <1>0, <1>4, BusySession DEF Destroy, TypeOK, At, Idle
<1> QED
  BY <1>0, <1>1, <1>2, <1>3, <1>4 DEF TypeOK

-----------------------------------------------------------------------------
\* How a call begins: on rows as they are, which it leaves alone but for the
\* operation it opens or the attempt it counts.
Begins(w) ==
    LET to == work'[w].step
        s  == work'[w].session
    IN  /\ work[w] = Idle
        /\ s \in Sessions
        /\ to = "insert" => /\ state[s] = "none"
                            /\ \A v \in Workers : ~(At(v, "insert") /\ Session(v) = s)
        /\ to # "insert" => state[s] # "none" \/ cleanup[s].due
        /\ to \in {"start", "claimEnd", "reset"} => s \in reference
        /\ to = "reset" => w \in Students /\ work'[w].count < ResetLimit
        /\ to = "claimExpired" => work'[w].seen \in LiveStates
        /\ to = "openCleanup" => work'[w].kind # "end"
        /\ to \in {"insert", "start", "reset", "drop", "claimEnd", "expire", "openCleanup",
                   "claim", "fail", "claimExpired", "escalate"}

Calls(w) == \E s \in Sessions : StudentStep(w, s) \/ CycleStep(w, s)

Counts(w) == \E s \in Sessions : CountAttempt(w, s)

LEMMA BeginFacts ==
    ASSUME TypeOK, NEW w \in Workers, NEW job \in Job, Begin(w, job)
    PROVE  /\ work[w] = Idle
           /\ \A v \in Workers \ {w} : work'[v] = work[v]
           /\ work' \in [Workers -> Job]
           /\ work'[w] = job
           /\ calls' \in 0..MaxCalls
BY LabSessionAssumption DEF Begin, Continue, TypeOK

LEMMA CallFacts ==
    ASSUME TypeOK, NEW w \in Workers, Calls(w)
    PROVE  /\ \A v \in Workers \ {w} : work'[v] = work[v]
           /\ work' \in [Workers -> Job]
           /\ calls' \in 0..MaxCalls
           /\ Begins(w) \/ work' = work
           /\ UNCHANGED <<state, resource, reference, resets, destroyTried>>
           /\ open' \subseteq Sessions \X {"expire", "recover"}
           /\ cleanup' = cleanup \/ Counts(w)
<1>1. PICK s \in Sessions : StudentStep(w, s) \/ CycleStep(w, s)
  BY DEF Calls
<1> DEFINE Goal == /\ \A v \in Workers \ {w} : work'[v] = work[v]
                   /\ work' \in [Workers -> Job]
                   /\ calls' \in 0..MaxCalls
                   /\ Begins(w) \/ work' = work
<1>2. /\ UNCHANGED <<state, resource, reference, resets, destroyTried>>
      /\ cleanup' = cleanup \/ CountAttempt(w, s)
      /\ open' = open \/ OpenExpire(w, s) \/ OpenRecover(w, s)
  BY <1>1 DEF StudentStep, CycleStep, Request, Start, Reset, End, OpenExpire, OpenRecover,
      Cleanup, Drain, FindExpired, CountAttempt, KeepAll, KeepRows, rows
<1>3. open' \subseteq Sessions \X {"expire", "recover"}
  BY <1>2 DEF OpenExpire, OpenRecover, TypeOK
<1>4. ASSUME NEW free \in BOOLEAN, Request(w, s, free)
      PROVE  Goal
  BY <1>4, BeginFacts DEF Request, Begins, Job
<1>5. ASSUME Start(w, s)
      PROVE  Goal
  BY <1>5, BeginFacts DEF Start, Begins, Job
<1>6. ASSUME Reset(w, s)
      PROVE  Goal
  BY <1>6, BeginFacts, LabSessionAssumption DEF Reset, Begins, Job, TypeOK
<1>7. ASSUME End(w, s)
      PROVE  Goal
  BY <1>7, BeginFacts DEF End, Begins, Job, TypeOK
<1>8. ASSUME OpenExpire(w, s)
      PROVE  Goal
  BY <1>8, BeginFacts DEF OpenExpire, Begins, Job
<1>9. ASSUME OpenRecover(w, s) \/ Cleanup(w, s)
      PROVE  Goal
  BY <1>9, BeginFacts DEF OpenRecover, Cleanup, Begins, Job
<1>10. ASSUME NEW step \in {"claim", "fail"}, Drain(w, s, step)
       PROVE  Goal
  BY <1>10, BeginFacts DEF Drain, Begins, Job
<1>11. ASSUME FindExpired(w, s)
       PROVE  Goal
  BY <1>11, BeginFacts DEF FindExpired, Begins, Job, LabState, LiveStates
<1>12. ASSUME CountAttempt(w, s)
       PROVE  Goal
  BY <1>12, BeginFacts DEF CountAttempt, Begins, Job, TypeOK
<1>13. Goal
  BY <1>1, <1>4, <1>5, <1>6, <1>7, <1>8, <1>9, <1>10, <1>11, <1>12
     DEF StudentStep, CycleStep
<1> HIDE DEF Goal
<1> QED
  BY <1>2, <1>3, <1>13 DEF Counts, Goal

LEMMA CountFacts ==
    ASSUME Typed, NEW w \in Workers, Counts(w)
    PROVE  /\ cleanup' \in [Sessions -> CleanupOp]
           /\ \A t \in Sessions : cleanup'[t] # cleanup[t] =>
                 /\ cleanup[t].due
                 /\ cleanup'[t].due => CanRetry(cleanup'[t].attempts)
<1>0. TypeOK
  BY DEF Typed
<1>1. PICK s \in Sessions : CountAttempt(w, s)
  BY DEF Counts
<1> DEFINE n == cleanup[s].attempts + 1
           op == [[cleanup[s] EXCEPT !.attempts = n] EXCEPT !.due = CanRetry(n)]
           retry == CanRetry(n)
<1>2. cleanup[s] \in CleanupOp /\ cleanup[s].due /\ CanRetry(cleanup[s].attempts)
  BY <1>0, <1>1 DEF CountAttempt, TypeOK, Typed, Counted
<1>3. n \in 0..RetryLimit
  BY <1>2, LabRulesAssumption DEF CleanupOp, CanRetry
<1>4. cleanup' = [cleanup EXCEPT ![s] = op]
  BY <1>0, <1>1 DEF CountAttempt, TypeOK
<1>5. retry \in BOOLEAN
  BY DEF CanRetry
<1> HIDE DEF n
<1>6. /\ [[cleanup[s] EXCEPT !.attempts = n] EXCEPT !.due = retry] \in CleanupOp
      /\ op.attempts = n
  <2> HIDE DEF retry
  <2>1. [[cleanup[s] EXCEPT !.attempts = n] EXCEPT !.due = retry] \in CleanupOp
    BY <1>2, <1>3, <1>5 DEF CleanupOp
  <2> QED
    BY <1>2, <2>1 DEF CleanupOp
<1>7. op.due => CanRetry(n)
  BY <1>2 DEF CleanupOp
<1> HIDE DEF op
<1> QED
  BY <1>0, <1>2, <1>4, <1>6, <1>7 DEF TypeOK, op

LEMMA StepCases ==
    ASSUME [Next]_vars
    PROVE  \/ UNCHANGED vars
           \/ \E w \in Workers : Calls(w) \/ (Proceed(w) /\ calls' = calls)
           \/ \E s \in Sessions : LoseResource(s) /\ calls' = calls
BY DEF Next, Calls

LEMMA LossFacts ==
    ASSUME TypeOK, NEW s \in Sessions, LoseResource(s)
    PROVE  /\ UNCHANGED <<rows, destroyTried, work>>
           /\ resource' \in [Sessions -> Resource]
           /\ \A t \in Sessions : resource'[t] # resource[t] =>
                 resource[t] = "up" /\ resource'[t] = "gone"
BY DEF LoseResource, KeepRows, TypeOK, Resource

LEMMA TypeInit ==
    ASSUME Init
    PROVE  Typed /\ OnceInv
<1>1. NoOp \in CleanupOp /\ ~NoOp.due
  BY LabRulesAssumption DEF NoOp, CleanupOp
<1>2. TypeOK
  <2>1. cleanup \in [Sessions -> CleanupOp]
    BY <1>1 DEF Init
  <2>2. /\ state \in [Sessions -> LabState \cup {"none"}]
        /\ resource \in [Sessions -> Resource]
        /\ resets \in [Sessions -> 0..ResetLimit]
    BY LabSessionAssumption DEF Init, Resource
  <2>3. work \in [Workers -> Job] /\ calls \in 0..MaxCalls
    BY LabSessionAssumption DEF Init, Job
  <2> QED
    BY <2>1, <2>2, <2>3 DEF Init, TypeOK
<1>3. \A w \in Workers : work[w] = Idle /\ work[w].step = "idle"
  BY DEF Init, Idle
<1>4. Counted
  BY <1>1, <1>3 DEF Init, Counted, Cleaning, CleanStep, ResetStep
<1>5. OnceInv
  BY <1>3 DEF Init, OnceInv, InsertedFirst, Unclaimed, Claimed, Held, At, ResetStep
<1> QED
  BY <1>2, <1>4, <1>5 DEF Typed

LEMMA TypeOKNext ==
    ASSUME Typed, [Next]_vars
    PROVE  TypeOK'
<1>0. TypeOK
  BY DEF Typed
<1>1. CASE UNCHANGED vars
  BY <1>0, <1>1 DEF vars, rows, TypeOK
<1>2. ASSUME NEW w \in Workers, Calls(w)
      PROVE  TypeOK'
  <2>1. /\ work' \in [Workers -> Job] /\ calls' \in 0..MaxCalls
        /\ UNCHANGED <<state, resource, reference, resets, destroyTried>>
        /\ open' \subseteq Sessions \X {"expire", "recover"}
        /\ cleanup' = cleanup \/ Counts(w)
    BY <1>0, <1>2, CallFacts
  <2>2. cleanup' \in [Sessions -> CleanupOp]
    BY <1>0, <1>2, <2>1, CountFacts DEF TypeOK
  <2> QED
    BY <1>0, <2>1, <2>2 DEF TypeOK
<1>3. ASSUME NEW w \in Workers, Proceed(w), calls' = calls
      PROVE  TypeOK'
  <2>1. /\ work' \in [Workers -> Job]
        /\ state' \in [Sessions -> LabState \cup {"none"}]
        /\ resource' \in [Sessions -> Resource]
        /\ cleanup' \in [Sessions -> CleanupOp]
    BY <1>0, <1>3, WayOfHandler, StateMovesOfHandler, ResourceMovesOfHandler,
       CleanupMovesOfHandler
  <2>2. reference' \subseteq Sessions
    <3>1. \/ reference' = reference
          \/ At(w, "save") /\ reference' = reference \cup {Session(w)}
      BY <1>0, <1>3, ResourceMovesOfHandler
    <3> QED
      BY <1>0, <3>1, BusySession DEF TypeOK, At, Idle
  <2>3. /\ resets' \in [Sessions -> 0..ResetLimit]
        /\ open' \subseteq Sessions \X {"expire", "recover"}
        /\ destroyTried' \subseteq Sessions
    BY <1>3, TablesOfHandler
  <2> QED
    BY <1>0, <1>3, <2>1, <2>2, <2>3 DEF TypeOK
<1>4. ASSUME NEW s \in Sessions, LoseResource(s), calls' = calls
      PROVE  TypeOK'
  BY <1>0, <1>4, LossFacts DEF TypeOK, rows
<1> QED
  BY <1>1, <1>2, <1>3, <1>4, StepCases

\* The operation a handler is running stays as it is until that handler closes
\* it or puts it off.
LEMMA CleaningStays ==
    ASSUME Typed, [Next]_vars, NEW v \in Workers, Cleaning(v), Cleaning(v)',
           Session(v)' = Session(v)
    PROVE  cleanup'[Session(v)] = cleanup[Session(v)]
<1>0. TypeOK /\ Counted
  BY DEF Typed
<1> DEFINE s == Session(v)
<1>1. /\ s \in Sessions
      /\ cleanup[s] = [stage |-> "running", attempts |-> 1, due |-> FALSE]
      /\ \A u \in Workers : Cleaning(u) /\ Session(u) = s => u = v
  BY <1>0, BusySession DEF Counted, Cleaning, CleanStep, Idle
<1>2. ~cleanup[s].due /\ cleanup[s] # NoOp
  <2>1. cleanup[s].stage = "running" /\ NoOp.stage = "none"
    BY <1>1 DEF NoOp
  <2> QED
    BY <1>1, <2>1
<1>3. ASSUME NEW w \in Workers, Calls(w)
      PROVE  cleanup'[s] = cleanup[s]
  BY <1>0, <1>1, <1>2, <1>3, CallFacts, CountFacts
<1>4. ASSUME NEW w \in Workers, Proceed(w), cleanup'[s] # cleanup[s]
      PROVE  FALSE
  <2>1. CleanupMoves(w) /\ Goes(w)
    BY <1>0, <1>4, CleanupMovesOfHandler, WayOfHandler
  <2>2. s = Session(w) /\ work[w].step \in {"close", "reschedule"}
    BY <1>1, <1>2, <1>4, <2>1 DEF CleanupMoves, At
  <2>3. Cleaning(w)
    BY <1>0, <2>2 DEF Counted, Cleaning, CleanStep
  <2>4. w = v
    BY <1>1, <2>2, <2>3
  <2>5. CloseCleanup(w) \/ Reschedule(w)
    BY <1>4, <2>2 DEF CleanStep, Proceed, Insert, Queue, Claim, Provision, SaveReference, MarkReady,
      MarkFailed, StartResource, Activate, RemoveResource, RecreateResource, CountReset,
      Restore, Drop, ClaimEnd, Destroy, MarkTerminated, MarkSpoiled, Expire, CloseExpire,
      OpenCleanup, Clean, ClaimExpired, Schedule, Escalate, LoseRoundTrip, Crash,
      Transition, Overwrite, KeepRest, KeepRows, KeepAll, rows, At
  <2>6. work'[w] = Idle
    BY <1>0, <2>5, FinishFacts DEF CloseCleanup, Reschedule
  <2> QED
    BY <2>4, <2>6 DEF Cleaning, Idle, CleanStep
<1>5. ASSUME NEW t \in Sessions, LoseResource(t)
      PROVE  cleanup'[s] = cleanup[s]
  BY <1>0, <1>5, LossFacts DEF rows
<1> QED
  BY <1>3, <1>4, <1>5, StepCases DEF vars, rows

\* What a handler is at changes in its own steps only.
LEMMA WorkCases ==
    ASSUME TypeOK, [Next]_vars, NEW v \in Workers
    PROVE  \/ work'[v] = work[v]
           \/ /\ Calls(v) /\ Begins(v)
              /\ UNCHANGED <<state, resource, reference, resets, destroyTried>>
              /\ \A u \in Workers \ {v} : work'[u] = work[u]
              /\ cleanup' = cleanup \/ Counts(v)
           \/ /\ Proceed(v) /\ Goes(v) /\ StateMoves(v) /\ ResourceMoves(v) /\ CleanupMoves(v)
              /\ \A u \in Workers \ {v} : work'[u] = work[u]
<1>1. ASSUME NEW w \in Workers, Calls(w)
      PROVE  \/ work'[v] = work[v]
             \/ /\ Calls(v) /\ Begins(v)
                /\ UNCHANGED <<state, resource, reference, resets, destroyTried>>
                /\ \A u \in Workers \ {v} : work'[u] = work[u]
                /\ cleanup' = cleanup \/ Counts(v)
  BY <1>1, CallFacts
<1>2. ASSUME NEW w \in Workers, Proceed(w)
      PROVE  \/ work'[v] = work[v]
             \/ /\ Proceed(v) /\ Goes(v) /\ StateMoves(v) /\ ResourceMoves(v) /\ CleanupMoves(v)
                /\ \A u \in Workers \ {v} : work'[u] = work[u]
  BY <1>2, WayOfHandler, StateMovesOfHandler, ResourceMovesOfHandler, CleanupMovesOfHandler
<1>3. ASSUME NEW t \in Sessions, LoseResource(t)
      PROVE  work'[v] = work[v]
  BY <1>3, LossFacts
<1> QED
  BY <1>1, <1>2, <1>3, StepCases DEF vars

LEMMA CountedNext ==
    ASSUME Typed, [Next]_vars
    PROVE  Counted'
<1>0. TypeOK /\ Counted /\ TypeOK'
  BY TypeOKNext DEF Typed
<1>1. ASSUME NEW v \in Workers, work'[v].step \in ResetStep
      PROVE  v \in Students /\ work'[v].count < ResetLimit
  BY <1>0, <1>1, WorkCases DEF Counted, Begins, Goes, ResetStep, Idle
<1>2. ASSUME NEW v \in Workers, work'[v].step = "claimExpired"
      PROVE  work'[v].seen \in LiveStates
  BY <1>0, <1>2, WorkCases DEF Counted, Begins, Goes, Idle
<1>3. ASSUME NEW v \in Workers,
             work'[v].step \in {"openCleanup", "clean", "close", "reschedule"}
      PROVE  work'[v].kind # "end"
  BY <1>0, <1>3, WorkCases DEF Counted, Begins, Goes, Idle, CleanStep
<1>4. ASSUME NEW s \in Sessions, cleanup'[s].due
      PROVE  CanRetry(cleanup'[s].attempts)
  <2>1. CASE cleanup'[s] = cleanup[s]
    BY <1>0, <1>4, <2>1 DEF Counted
  <2>2. ASSUME NEW w \in Workers, Calls(w), cleanup'[s] # cleanup[s]
        PROVE  CanRetry(cleanup'[s].attempts)
    BY <1>0, <1>4, <2>2, CallFacts, CountFacts
  <2>3. ASSUME NEW w \in Workers, Proceed(w), cleanup'[s] # cleanup[s]
        PROVE  CanRetry(cleanup'[s].attempts)
    <3>1. CleanupMoves(w)
      BY <1>0, <2>3, CleanupMovesOfHandler
    <3>2. CASE At(w, "schedule") /\ cleanup'[s] = [stage |-> "pending", attempts |-> 0, due |-> TRUE]
      BY <3>2, LabRulesAssumption DEF CanRetry
    <3>3. CASE /\ At(w, "reschedule") /\ s = Session(w)
               /\ cleanup'[s].attempts = cleanup[s].attempts
               /\ cleanup'[s].due => CanRetry(1)
      <4>1. Cleaning(w)
        BY <1>0, <3>3 DEF Counted, Cleaning, CleanStep, At
      <4>2. cleanup[s].attempts = 1
        BY <1>0, <3>3, <4>1 DEF Counted
      <4> QED
        BY <1>4, <3>3, <4>2
    <3> QED
      BY <1>4, <2>3, <3>1, <3>2, <3>3 DEF CleanupMoves, NoOp
  <2>4. ASSUME NEW t \in Sessions, LoseResource(t)
        PROVE  cleanup' = cleanup
    BY <1>0, <2>4, LossFacts DEF rows
  <2> QED
    BY <2>1, <2>2, <2>3, <2>4, StepCases DEF vars, rows
<1> DEFINE Running == [stage |-> "running", attempts |-> 1, due |-> FALSE]
\* A handler comes to run an operation by opening it, when none is open.
<1>5. ASSUME NEW v \in Workers, Cleaning(v)'
      PROVE  \/ Cleaning(v) /\ Session(v)' = Session(v)
             \/ /\ cleanup[Session(v)'] = NoOp /\ cleanup'[Session(v)'] = Running
                /\ \A u \in Workers \ {v} : work'[u] = work[u]
                /\ work'[v].step = "clean"
  <2>1. CASE work'[v] = work[v]
    BY <1>5, <2>1 DEF Cleaning, Session
  <2>2. CASE Begins(v)
    BY <1>5, <2>2 DEF Begins, Cleaning, CleanStep
  <2>3. CASE Goes(v) /\ \A u \in Workers \ {v} : work'[u] = work[u]
    BY <1>5, <2>3 DEF Goes, Cleaning, CleanStep, Session, Idle
  <2> QED
    BY <1>0, <2>1, <2>2, <2>3, WorkCases
<1>6. NoOp # Running
  <2>1. NoOp.stage = "none" /\ Running.stage = "running"
    BY DEF NoOp
  <2> QED
    BY <2>1
<1>7. ASSUME NEW v \in Workers, Cleaning(v)'
      PROVE  cleanup'[Session(v)'] = Running
  <2>1. CASE Cleaning(v) /\ Session(v)' = Session(v)
    BY <1>0, <1>7, <2>1, CleaningStays DEF Counted
  <2> QED
    BY <1>5, <1>7, <2>1
<1>8. ASSUME NEW v \in Workers, NEW u \in Workers, Cleaning(v)', Cleaning(u)',
             Session(u)' = Session(v)'
      PROVE  u = v
  <2>1. CASE Cleaning(v) /\ Session(v)' = Session(v) /\ Cleaning(u) /\ Session(u)' = Session(u)
    BY <1>0, <1>8, <2>1 DEF Counted
  <2>2. CASE /\ cleanup[Session(v)'] = NoOp
             /\ \A x \in Workers \ {v} : work'[x] = work[x]
    <3>1. ASSUME u # v
          PROVE  FALSE
      <4>1. Cleaning(u) /\ Session(u)' = Session(u)
        BY <1>8, <2>2, <3>1 DEF Cleaning, Session
      <4>2. cleanup[Session(u)] = Running
        BY <1>0, <4>1 DEF Counted
      <4> QED
        BY <1>6, <1>8, <2>2, <4>1, <4>2
    <3> QED
      BY <3>1
  <2>3. CASE /\ cleanup[Session(u)'] = NoOp
             /\ \A x \in Workers \ {u} : work'[x] = work[x]
    <3>1. ASSUME u # v
          PROVE  FALSE
      <4>1. Cleaning(v) /\ Session(v)' = Session(v)
        BY <1>8, <2>3, <3>1 DEF Cleaning, Session
      <4>2. cleanup[Session(v)] = Running
        BY <1>0, <4>1 DEF Counted
      <4> QED
        BY <1>6, <1>8, <2>3, <4>1, <4>2
    <3> QED
      BY <3>1
  <2> QED
    BY <1>5, <1>8, <2>1, <2>2, <2>3
<1> HIDE DEF Running
<1>9. \A v \in Workers : Cleaning(v)' =>
         /\ cleanup'[Session(v)'] = [stage |-> "running", attempts |-> 1, due |-> FALSE]
         /\ \A u \in Workers : Cleaning(u)' /\ Session(u)' = Session(v)' => u = v
  BY <1>7, <1>8 DEF Running
<1> QED
  BY <1>1, <1>2, <1>3, <1>4, <1>9 DEF Counted, Cleaning, Session

LEMMA TypeNext ==
    ASSUME Typed, [Next]_vars
    PROVE  Typed'
BY TypeOKNext, CountedNext DEF Typed

\* Every table and every handler's record is what the schema and the code say,
\* and neither resets nor attempts ever pass their limits (lab-sessions.ts,
\* lab-operations.ts).
THEOREM TypeCorrect == Spec => []TypeOK
<1>1. Spec => []Typed
  BY TypeInit, TypeNext, PTL DEF Spec
<1>2. Typed => TypeOK
  BY DEF Typed
<1> QED
  BY <1>1, <1>2, PTL

-----------------------------------------------------------------------------
\* Rows and resources change in the steps of handlers under way; resources can
\* also be lost.
LEMMA RowCases ==
    ASSUME TypeOK, [Next]_vars
    PROVE  /\ \A t \in Sessions : state'[t] # state[t] =>
                 \E w \in Workers : /\ Proceed(w) /\ work[w] # Idle
                                    /\ StateMoves(w) /\ Goes(w) /\ t = Session(w)
           /\ \A t \in Sessions : resource'[t] # resource[t] =>
                 \/ resource[t] = "up" /\ resource'[t] = "gone"
                 \/ \E w \in Workers : /\ Proceed(w) /\ work[w] # Idle
                                       /\ ResourceMoves(w) /\ Goes(w) /\ t = Session(w)
           /\ reference \subseteq reference'
           /\ \A t \in reference' \ reference :
                 \E w \in Workers : At(w, "save") /\ t = Session(w)
<1>1. ASSUME NEW w \in Workers, Proceed(w)
      PROVE  /\ StateMoves(w) /\ ResourceMoves(w) /\ Goes(w)
             /\ \/ reference' = reference
                \/ At(w, "save") /\ reference' = reference \cup {Session(w)}
  BY <1>1, WayOfHandler, StateMovesOfHandler, ResourceMovesOfHandler
<1>2. ASSUME NEW w \in Workers, Calls(w)
      PROVE  UNCHANGED <<state, resource, reference>>
  BY <1>2, CallFacts
<1>3. ASSUME NEW t \in Sessions, LoseResource(t)
      PROVE  /\ UNCHANGED <<state, reference>>
             /\ \A s \in Sessions : resource'[s] # resource[s] =>
                   resource[s] = "up" /\ resource'[s] = "gone"
  BY <1>3, LossFacts DEF rows
<1>4. ASSUME NEW w \in Workers, Proceed(w),
             NEW t \in Sessions, state'[t] # state[t] \/ resource'[t] # resource[t]
      PROVE  work[w] # Idle
  <2>1. work[w].step # "idle"
    BY <1>1, <1>4 DEF Proceed, Insert, Queue, Claim, Provision, SaveReference, MarkReady,
      MarkFailed, StartResource, Activate, RemoveResource, RecreateResource, CountReset,
      Restore, Drop, ClaimEnd, Destroy, MarkTerminated, MarkSpoiled, Reschedule, Expire,
      CloseExpire, OpenCleanup, Clean, CloseCleanup, ClaimExpired, Schedule, Escalate,
      LoseRoundTrip, Crash, KeepAll, KeepRows, rows, At
  <2> QED
    BY <2>1 DEF Idle
<1>5. CASE UNCHANGED vars
  BY <1>5 DEF vars, rows
<1>6. ASSUME NEW w \in Workers, Proceed(w)
      PROVE  /\ \A t \in Sessions : state'[t] # state[t] => t = Session(w)
             /\ \A t \in Sessions : resource'[t] # resource[t] => t = Session(w)
  BY <1>1, <1>6 DEF StateMoves, ResourceMoves
<1> QED
  BY <1>1, <1>2, <1>3, <1>4, <1>5, <1>6, StepCases

\* No row is ever deleted.
LEMMA RowStays ==
    ASSUME TypeOK, [Next]_vars, NEW t \in Sessions, state[t] # "none"
    PROVE  state'[t] # "none"
BY RowCases DEF StateMoves, LabState

LEMMA InsertedFirstNext ==
    ASSUME Typed, InsertedFirst, [Next]_vars
    PROVE  InsertedFirst'
<1>0. TypeOK /\ TypeOK'
  BY TypeOKNext DEF Typed
<1>1. ASSUME NEW v \in Workers, At(v, "insert")'
      PROVE  /\ state'[Session(v)'] = "none"
             /\ \A u \in Workers : At(u, "insert")' /\ Session(u)' = Session(v)' => u = v
  <2>1. ASSUME NEW u \in Workers, At(u, "insert")'
        PROVE  \/ work'[u] = work[u] /\ ~Goes(u)
               \/ work'[u] = work[u] /\ ~Proceed(u)
               \/ /\ Begins(u) /\ UNCHANGED state
                  /\ \A x \in Workers \ {u} : work'[x] = work[x]
    <3>1. Goes(u) => FALSE
      BY <2>1 DEF Goes, At, Idle
    <3> QED
      BY <1>0, <2>1, <3>1, WorkCases
  <2>2. CASE Begins(v) /\ UNCHANGED state /\ \A x \in Workers \ {v} : work'[x] = work[x]
    BY <1>1, <2>2 DEF Begins, At, Session
  <2>3. CASE work'[v] = work[v] /\ ~(Goes(v) /\ Proceed(v))
    <3>1. At(v, "insert") /\ Session(v)' = Session(v) /\ Session(v) \in Sessions
      BY <1>0, <1>1, <2>3, BusySession DEF At, Session, Idle
    <3>2. state[Session(v)] = "none"
      BY <3>1 DEF InsertedFirst
    <3>3. ASSUME state'[Session(v)] # "none"
          PROVE  FALSE
      <4>1. PICK w \in Workers : /\ Proceed(w) /\ work[w] # Idle
                                 /\ StateMoves(w) /\ Goes(w) /\ Session(v) = Session(w)
        BY <1>0, <3>1, <3>2, <3>3, RowCases
      <4>2. At(w, "insert")
        BY <3>2, <4>1 DEF InsertedFirst
      <4>3. w = v
        BY <3>1, <4>1, <4>2 DEF InsertedFirst
      <4> QED
        BY <2>3, <4>1, <4>3
    <3>4. ASSUME NEW u \in Workers, At(u, "insert")', Session(u)' = Session(v)'
          PROVE  u = v
      <4>1. CASE work'[u] = work[u]
        BY <3>1, <3>4, <4>1 DEF InsertedFirst, At, Session
      <4>2. CASE Begins(u)
        BY <3>1, <3>4, <4>2 DEF Begins, At, Session
      <4> QED
        BY <2>1, <3>4, <4>1, <4>2
    <3> QED
      BY <3>1, <3>3, <3>4
  <2> QED
    BY <1>1, <2>1, <2>2, <2>3
<1>2. ASSUME NEW v \in Workers, work'[v] # Idle, ~At(v, "insert")'
      PROVE  state'[Session(v)'] # "none"
  <2>1. CASE work'[v] = work[v]
    BY <1>0, <1>2, <2>1, BusySession, RowStays DEF InsertedFirst, At, Session
  <2>2. CASE Begins(v) /\ UNCHANGED state
    <3>1. NoOp.due = FALSE
      BY DEF NoOp
    <3> QED
      BY <1>2, <2>2, <3>1 DEF Begins, InsertedFirst, At, Session
  <2>3. CASE Goes(v)
    <3>1. work[v] # Idle /\ Session(v)' = Session(v)
      BY <1>2, <2>3 DEF Goes, Session, Idle
    <3>2. CASE At(v, "insert")
      BY <1>2, <2>3, <3>1, <3>2 DEF Goes, At, Session
    <3>3. CASE ~At(v, "insert")
      BY <1>0, <3>1, <3>3, BusySession, RowStays DEF InsertedFirst
    <3> QED
      BY <3>2, <3>3
  <2> QED
    BY <1>0, <2>1, <2>2, <2>3, WorkCases
<1>3. ASSUME NEW s \in Sessions, cleanup'[s] # NoOp
      PROVE  state'[s] # "none"
  <2>1. CASE cleanup'[s] = cleanup[s]
    BY <1>0, <1>3, <2>1, RowStays DEF InsertedFirst
  <2>2. ASSUME NEW w \in Workers, Calls(w), cleanup'[s] # cleanup[s]
        PROVE  state'[s] # "none"
    <3>1. cleanup[s].due
      BY <1>0, <2>2, CallFacts, CountFacts
    <3>2. cleanup[s] # NoOp
      BY <3>1 DEF NoOp
    <3> QED
      BY <1>0, <3>2, RowStays DEF InsertedFirst
  <2>3. ASSUME NEW w \in Workers, Proceed(w), cleanup'[s] # cleanup[s]
        PROVE  state'[s] # "none"
    <3>1. CleanupMoves(w)
      BY <1>0, <2>3, CleanupMovesOfHandler
    <3>2. work[w] # Idle /\ ~At(w, "insert") /\ s = Session(w)
      BY <2>3, <3>1 DEF CleanupMoves, At, Idle
    <3> QED
      BY <1>0, <3>2, RowStays DEF InsertedFirst
  <2>4. ASSUME NEW t \in Sessions, LoseResource(t)
        PROVE  cleanup' = cleanup
    BY <1>0, <2>4, LossFacts DEF rows
  <2> QED
    BY <2>1, <2>2, <2>3, <2>4, StepCases DEF vars, rows
<1> QED
  BY <1>1, <1>2, <1>3 DEF InsertedFirst, At, Session

\* A session never comes back to a state in which it can be claimed.
LEMMA EarlyBefore ==
    ASSUME TypeOK, InsertedFirst, [Next]_vars, NEW t \in Sessions, state'[t] \in Early
    PROVE  state[t] \in Early
<1>1. ASSUME NEW w \in Workers, StateMoves(w), t = Session(w), state'[t] # state[t]
      PROVE  state[t] \in Early
  BY <1>1 DEF StateMoves, InsertedFirst, Early
<1> QED
  BY <1>1, RowCases

\* Nor does a resource, while it can still be claimed.
LEMMA EarlyHasNone ==
    ASSUME Typed, OnceInv, [Next]_vars, NEW t \in Sessions, state[t] \in Early
    PROVE  resource'[t] = "none"
<1>0. TypeOK
  BY DEF Typed
<1>1. resource[t] = "none"
  BY DEF OnceInv, Unclaimed
<1>2. ASSUME NEW w \in Workers, ResourceMoves(w), t = Session(w), resource'[t] # resource[t]
      PROVE  FALSE
  BY <1>1, <1>2 DEF ResourceMoves, OnceInv, Claimed, Held, At
<1> QED
  BY <1>0, <1>1, <1>2, RowCases

LEMMA ProvisionedStays ==
    ASSUME TypeOK, [Next]_vars, NEW t \in Sessions, resource[t] # "none"
    PROVE  resource'[t] # "none"
BY RowCases DEF ResourceMoves

LEMMA ClaimedNext ==
    ASSUME Typed, OnceInv, [Next]_vars
    PROVE  Claimed'
<1>0. TypeOK /\ TypeOK'
  BY TypeOKNext DEF Typed
<1>1. ASSUME NEW v \in Workers, At(v, "provision")'
      PROVE  \/ work'[v] = work[v] /\ At(v, "provision") /\ Session(v)' = Session(v) /\ ~Goes(v)
             \/ work'[v] = work[v] /\ At(v, "provision") /\ Session(v)' = Session(v) /\ ~Proceed(v)
             \/ /\ Session(v)' = Session(v) /\ Session(v) \in Sessions
                /\ state[Session(v)] \in {"requested", "queued"}
                /\ state'[Session(v)] = "provisioning"
                /\ \A u \in Workers \ {v} : work'[u] = work[u]
  <2>1. CASE work'[v] = work[v]
    <3>1. At(v, "provision") /\ Session(v)' = Session(v) /\ Session(v) \in Sessions
      BY <1>0, <1>1, <2>1, BusySession DEF At, Session, Idle
    <3>2. state[Session(v)] \notin Early
      BY <3>1 DEF OnceInv, Claimed
    <3>3. ~Goes(v)
      BY <1>1, <2>1, <3>1, <3>2 DEF Goes, At, Idle, Early
    <3> QED
      BY <2>1, <3>1, <3>3
  <2>2. CASE Begins(v)
    BY <1>1, <2>2 DEF Begins, At
  <2>3. CASE Goes(v) /\ \A u \in Workers \ {v} : work'[u] = work[u]
    <3>1. /\ work[v] # Idle /\ Session(v)' = Session(v)
          /\ state[Session(v)] \in {"requested", "queued"}
          /\ state'[Session(v)] = "provisioning"
      BY <1>1, <2>3 DEF Goes, At, Session, Idle
    <3> QED
      BY <1>0, <2>3, <3>1, BusySession
  <2> QED
    BY <1>0, <2>1, <2>2, <2>3, WorkCases
<1>2. ASSUME NEW v \in Workers, At(v, "provision")'
      PROVE  state'[Session(v)'] \notin Early
  <2>1. CASE work'[v] = work[v] /\ At(v, "provision") /\ Session(v)' = Session(v)
    <3>1. Session(v) \in Sessions /\ state[Session(v)] \notin Early
      BY <1>0, <2>1, BusySession DEF OnceInv, Claimed, At, Idle
    <3> QED
      BY <1>0, <2>1, <3>1, EarlyBefore DEF OnceInv
  <2> QED
    BY <1>1, <1>2, <2>1 DEF Early
<1>3. ASSUME NEW v \in Workers, At(v, "provision")'
      PROVE  resource'[Session(v)'] = "none"
  <2>1. CASE /\ work'[v] = work[v] /\ At(v, "provision") /\ Session(v)' = Session(v)
             /\ ~(Goes(v) /\ Proceed(v))
    <3>1. Session(v) \in Sessions /\ resource[Session(v)] = "none"
      BY <1>0, <2>1, BusySession DEF OnceInv, Claimed, At, Idle
    <3>2. ASSUME resource'[Session(v)] # "none"
          PROVE  FALSE
      <4>1. PICK w \in Workers : /\ Proceed(w) /\ ResourceMoves(w) /\ Goes(w)
                                 /\ Session(v) = Session(w)
        BY <1>0, <3>1, <3>2, RowCases
      <4>2. At(w, "provision")
        BY <3>1, <3>2, <4>1 DEF ResourceMoves, OnceInv, Held, At
      <4>3. w = v
        BY <2>1, <4>1, <4>2 DEF OnceInv, Claimed
      <4> QED
        BY <2>1, <4>1, <4>3
    <3> QED
      BY <2>1, <3>2
  <2>2. CASE /\ Session(v)' = Session(v) /\ Session(v) \in Sessions
             /\ state[Session(v)] \in {"requested", "queued"}
    BY <2>2, EarlyHasNone DEF Early
  <2> QED
    BY <1>1, <1>3, <2>1, <2>2
<1>4. ASSUME NEW v \in Workers, NEW u \in Workers, At(v, "provision")', At(u, "provision")',
             Session(u)' = Session(v)'
      PROVE  u = v
  <2>1. CASE /\ At(v, "provision") /\ Session(v)' = Session(v)
             /\ At(u, "provision") /\ Session(u)' = Session(u)
    BY <1>4, <2>1 DEF OnceInv, Claimed
  <2>2. ASSUME NEW x \in Workers, NEW y \in Workers, x # y,
               At(y, "provision")', Session(x)' = Session(y)',
               Session(x)' = Session(x), state[Session(x)] \in {"requested", "queued"},
               \A z \in Workers \ {x} : work'[z] = work[z]
        PROVE  FALSE
    <3>1. At(y, "provision") /\ Session(y) = Session(x)
      BY <2>2 DEF At, Session
    <3>2. state[Session(y)] \notin Early
      BY <3>1 DEF OnceInv, Claimed
    <3> QED
      BY <2>2, <3>1, <3>2 DEF Early
  <2> QED
    BY <1>1, <1>4, <2>1, <2>2
<1> QED
  BY <1>2, <1>3, <1>4 DEF Claimed, At, Session

LEMMA HeldNext ==
    ASSUME Typed, OnceInv, [Next]_vars
    PROVE  Held'
<1>0. TypeOK /\ TypeOK' /\ Held
  BY TypeOKNext DEF Typed, OnceInv
<1>1. ASSUME NEW s \in reference'
      PROVE  resource'[s] # "none"
  <2>1. s \in Sessions
    BY <1>0 DEF TypeOK
  <2>2. resource[s] # "none"
    BY <1>0, <2>1, RowCases DEF Held, At
  <2> QED
    BY <1>0, <2>1, <2>2, ProvisionedStays
<1>2. ASSUME NEW v \in Workers, work'[v].step \in {"save", "recreate"}
      PROVE  resource'[Session(v)'] # "none"
  <2>1. CASE work'[v] = work[v]
    BY <1>0, <1>2, <2>1, BusySession, ProvisionedStays DEF Held, Session, Idle
  <2>2. CASE Begins(v)
    BY <1>2, <2>2 DEF Begins
  <2>3. CASE Goes(v)
    BY <1>2, <2>3 DEF Goes, Session, Idle
  <2> QED
    BY <1>0, <2>1, <2>2, <2>3, WorkCases
<1>3. ASSUME NEW v \in Workers,
             work'[v].step \in {"ready", "start", "activate", "claimEnd", "destroy"} \cup ResetStep
      PROVE  Session(v)' \in reference'
  <2>0. reference \subseteq reference'
    BY <1>0, RowCases
  <2>1. CASE work'[v] = work[v]
    BY <1>0, <1>3, <2>0, <2>1 DEF Held, Session
  <2>2. CASE Begins(v)
    BY <1>3, <2>0, <2>2 DEF Begins, Session, ResetStep
  <2>3. CASE Goes(v)
    BY <1>0, <1>3, <2>0, <2>3 DEF Goes, Held, Session, Idle, ResetStep
  <2> QED
    BY <1>0, <2>1, <2>2, <2>3, WorkCases
<1> QED
  BY <1>1, <1>2, <1>3 DEF Held, Session

LEMMA OnceInvNext ==
    ASSUME Typed, OnceInv, [Next]_vars
    PROVE  OnceInv'
<1>1. TypeOK
  BY DEF Typed
<1>2. Unclaimed'
  BY <1>1, EarlyBefore, EarlyHasNone DEF OnceInv, Unclaimed
<1> QED
  BY <1>2, InsertedFirstNext, ClaimedNext, HeldNext DEF OnceInv

LEMMA OnceHolds == Spec => [](Typed /\ OnceInv)
<1>1. Typed /\ OnceInv /\ [Next]_vars => (Typed /\ OnceInv)'
  BY TypeNext, OnceInvNext
<1> QED
  BY <1>1, TypeInit, PTL DEF Spec

\* However many request handlers and automation cycles race for a session, one
\* provisions it and none provisions it again (requestLabSession and
\* drainQueuedLabSessions).
THEOREM OneProvisions == Spec => []ProvisionedOnce
<1>1. OnceInv => ProvisionedOnce
  BY DEF OnceInv, Claimed, ProvisionedOnce
<1> QED
  BY <1>1, OnceHolds, PTL

\* A session that was given up while it was being provisioned stays given up:
\* it becomes ready from provisioning, or because its student had it reset.
THEOREM GivenUpStays == Spec => NotRevived
<1>1. ASSUME Typed, [Next]_vars, NEW s \in Sessions, state'[s] = "ready", state[s] # "ready"
      PROVE  \/ state[s] = "provisioning"
             \/ \E w \in Students : At(w, "restore") /\ Session(w) = s
  <2>1. TypeOK /\ Counted
    BY <1>1 DEF Typed
  <2>2. PICK w \in Workers : StateMoves(w) /\ s = Session(w)
    BY <1>1, <2>1, RowCases
  <2>3. (At(w, "ready") /\ state[s] = "provisioning") \/ At(w, "restore")
    BY <1>1, <2>2 DEF StateMoves
  <2>4. At(w, "restore") => w \in Students
    BY <2>1 DEF Counted, At, ResetStep
  <2> QED
    BY <2>2, <2>3, <2>4
<1>2. Typed /\ OnceInv /\ [Next]_vars =>
         [\A s \in Sessions : state'[s] = "ready" /\ state[s] # "ready" =>
             \/ state[s] = "provisioning"
             \/ \E w \in Students : At(w, "restore") /\ Session(w) = s]_vars
  BY <1>1
<1> QED
  BY <1>2, OnceHolds, PTL DEF Spec, NotRevived

LEMMA OneLiveNext ==
    ASSUME Typed, OneLive, [Next]_vars
    PROVE  OneLive'
<1>0. TypeOK /\ Counted
  BY DEF Typed
\* Whoever makes a session live, or leaves it live, sees to the other one.
<1>1. ASSUME NEW s \in Sessions, NEW t \in Sessions, s # t, state'[s] # state[s],
             state'[s] \in LiveStates, state'[t] \in LiveStates
      PROVE  FALSE
  <2>1. PICK w \in Workers : work[w] # Idle /\ StateMoves(w) /\ s = Session(w)
    BY <1>0, <1>1, RowCases
  <2>2. state'[t] = state[t]
    BY <1>1, <2>1 DEF StateMoves
  <2>3. CASE MayEnter(s, state'[s])
    BY <1>1, <2>2, <2>3 DEF MayEnter
  <2>4. CASE At(w, "claimExpired") /\ state[s] = work[w].seen
    BY <1>0, <1>1, <2>2, <2>4 DEF Counted, OneLive, At
  <2> QED
    BY <1>1, <2>1, <2>3, <2>4 DEF StateMoves
<1> QED
  BY <1>1 DEF OneLive

\* A student never has two live sessions of one lab: what is written without
\* looking is refused by lab_sessions_one_live_definition_per_user_idx, and
\* ClaimExpired only takes over what was live.
THEOREM OneLiveSession == Spec => []OneLive
<1>1. Init => OneLive
  BY DEF Init, OneLive, LiveStates, LabState
<1>2. Typed /\ OnceInv /\ OneLive /\ [Next]_vars => OneLive'
  BY OneLiveNext
<1> QED
  BY <1>1, <1>2, OnceHolds, PTL DEF Spec

LEMMA ProviderConfirmedNext ==
    ASSUME Typed, OnceInv, ProviderConfirmed, [Next]_vars
    PROVE  ProviderConfirmed'
<1>0. TypeOK /\ Held /\ Held'
  BY HeldNext DEF Typed, OnceInv
<1>1. ASSUME NEW s \in Sessions, state'[s] \in {"ready", "active"}
      PROVE  s \in reference
  <2>1. CASE state'[s] = state[s]
    BY <1>1, <2>1 DEF ProviderConfirmed
  <2>2. ASSUME NEW w \in Workers, StateMoves(w), s = Session(w), state'[s] # state[s]
        PROVE  s \in reference
    BY <1>0, <1>1, <2>2 DEF StateMoves, Held, At, ResetStep
  <2> QED
    BY <1>0, <2>1, <2>2, RowCases
<1>2. ASSUME NEW s \in Sessions, state'[s] \in {"ready", "active"}
      PROVE  s \in reference' /\ resource'[s] # "none"
  BY <1>0, <1>1, <1>2, RowCases DEF Held
<1> QED
  BY <1>2 DEF ProviderConfirmed

\* What is offered as ready or active was provisioned and can be found again
\* through its reference (lab-runtime.ts).
THEOREM ConfirmedByProvider == Spec => []ProviderConfirmed
<1>1. Init => ProviderConfirmed
  BY DEF Init, ProviderConfirmed
<1>2. Typed /\ OnceInv /\ ProviderConfirmed /\ [Next]_vars => ProviderConfirmed'
  BY ProviderConfirmedNext
<1> QED
  BY <1>1, <1>2, OnceHolds, PTL DEF Spec

-----------------------------------------------------------------------------
(* ProviderRollout.                                                        *)

Record ==
    [state : {"disabled", "canary_eligible", "enabled", "suspended"}, enabled : BOOLEAN,
     mode : {"off", "allowlist", "percentage", "all"}, percentage : 0..100,
     allowed : SUBSET Users, canaryPassed : BOOLEAN]

Answer == Record \cup {NoRow}

Judged ==
    [mode : {"off", "allowlist", "percentage", "all"}, percentage : 0..100,
     allowed : SUBSET Users]

Picking ==
    [at : {"idle", "queued", "refused", "ended"}]
      \cup [at : {"read"}, left : {1, 2}]
      \cup [at : {"asked"}, left : {1, 2}, since : Nat]
      \cup [at : {"answered"}, left : {1, 2}, since : Nat, answer : Answer]
      \cup [at : {"decide"}, record : Answer, readAt : Nat]
      \cup [at : {"chosen", "create"}, provider : {"container", "mock"}, readAt : Nat]
      \cup [at : {"placed"}, provider : {"container", "mock"}]

Shape ==
    /\ row \in Record
    /\ acting \in [Operators -> Judged \cup {NoPolicy}]
    /\ cache \in [at : Nat, row : Answer, held : BOOLEAN]
    /\ picking \in [Requests -> Picking]
    /\ lastAllowed \in [Users -> Nat]

RolloutTyped == RolloutTypeOK /\ Shape

\* A canary passed since the provider was last off, wherever an activation may
\* take it from.
EligibleIsEarned == row.state \in {"canary_eligible", "enabled"} => earned

\* The history is up to date.
HistoryIsTrue ==
    \A u \in Users :
        /\ lastAllowed[u] <= time
        /\ Allows(row, u) => lastAllowed[u] = time

\* The copy is older than its stamp by a query at most.
CopyIsBacked ==
    /\ cache.at <= time
    /\ \A u \in Users : Allows(cache.row, u) => cache.at <= lastAllowed[u] + Latency

\* A query under way is young, and its answer no older than the query.
QueryIsYoung(p) ==
    /\ p.at \in {"asked", "answered"} => p.since <= time /\ time <= p.since + Latency
    /\ p.at = "answered" =>
          \A u \in Users : Allows(p.answer, u) => p.since <= lastAllowed[u]

\* What a request decides on may be older by the time the copy is used.
ReadingIsBacked(p) ==
    p.at = "decide" =>
        \A u \in Users : Allows(p.record, u) => p.readAt < lastAllowed[u] + TTL + Latency

ChoiceIsFresh(s, p) ==
    p.at = "chosen" /\ p.provider = "container" =>
        p.readAt < lastAllowed[UserOf[s]] + TTL + Latency

Sound(s, p) == QueryIsYoung(p) /\ ReadingIsBacked(p) /\ ChoiceIsFresh(s, p)

FreshInv ==
    /\ HistoryIsTrue
    /\ CopyIsBacked
    /\ \A s \in Requests : Sound(s, picking[s])

-----------------------------------------------------------------------------
\* The registry's trigger keeps the row well formed, and lets it be enabled
\* only from eligibility.
LEMMA OffRecord ==
    ASSUME NEW record \in Record
    PROVE  Off(record) \in Record /\ Off(record).state = record.state
<1>2. Off(record).state = record.state
  BY DEF Record, Off
<1>3. ASSUME NEW r \in Record
      PROVE  [r EXCEPT !.enabled = FALSE] \in Record
  BY DEF Record
<1>4. ASSUME NEW r \in Record
      PROVE  /\ [r EXCEPT !.mode = "off"] \in Record
             /\ [r EXCEPT !.percentage = 0] \in Record
             /\ [r EXCEPT !.allowed = {}] \in Record
  BY DEF Record
<1>5. Off(record) \in Record
  BY <1>3, <1>4 DEF Off
<1> QED
  BY <1>2, <1>5

LEMMA UpdateFacts ==
    ASSUME row \in Record, NEW new \in Record, UpdateRow(new)
    PROVE  /\ row' \in Record
           /\ row' = row \/ row'.state = new.state
           /\ new.state = "enabled" /\ row'.state = "enabled" =>
                 row.state \in {"canary_eligible", "enabled"}
<1>1. CASE Refuses(new)
  BY <1>1 DEF UpdateRow
<1>2. CASE ~Refuses(new)
  <2>1. row' \in {new, Off(new)}
    BY <1>2 DEF UpdateRow
  <2>2. row' \in Record /\ row'.state = new.state
    BY <2>1, OffRecord
  <2>3. new.state = "enabled" => row.state \in {"canary_eligible", "enabled"}
    BY <1>2 DEF Refuses
  <2> QED
    BY <2>2, <2>3
<1> QED
  BY <1>1, <1>2

LEMMA OperateFacts ==
    ASSUME RolloutTyped, NEW o \in Operators, Operate(o)
    PROVE  /\ row' \in Record
           /\ acting' \in [Operators -> Judged \cup {NoPolicy}]
           /\ acts' \in 0..MaxActs
           /\ earned' \in BOOLEAN
           /\ UNCHANGED <<time, runtime, selection>>
           /\ EligibleIsEarned => EligibleIsEarned'
<1>0. /\ row \in Record /\ acts \in 0..MaxActs /\ earned \in BOOLEAN
      /\ acting \in [Operators -> Judged \cup {NoPolicy}]
  BY DEF RolloutTyped, RolloutTypeOK, Shape
<1>1. ASSUME NEW policy \in Policies, ActivateRead(o, policy)
      PROVE  acting' \in [Operators -> Judged \cup {NoPolicy}] /\ acts' \in 0..MaxActs
  <2>1. /\ policy.mode \in {"off", "allowlist", "percentage", "all"}
        /\ policy.percentage \in 0..100 /\ policy.allowed \in SUBSET Users
    BY RolloutAssumption
  <2> DEFINE percentage == CASE policy.mode = "percentage" -> policy.percentage
                             [] policy.mode = "all" -> 100
                             [] OTHER -> 0
             allowed == IF policy.mode = "allowlist" THEN policy.allowed ELSE {}
             judged == [mode |-> policy.mode, percentage |-> percentage, allowed |-> allowed]
  <2>2. percentage \in 0..100 /\ allowed \in SUBSET Users
    BY <2>1
  <2>3. acting' = [acting EXCEPT ![o] = judged]
    BY <1>1 DEF ActivateRead
  <2>4. judged \in Judged
    <3> HIDE DEF percentage, allowed
    <3> QED
      BY <2>1, <2>2 DEF Judged
  <2> HIDE DEF judged
  <2>5. acts' \in 0..MaxActs
    BY <1>0, <1>1, RolloutAssumption DEF ActivateRead
  <2> QED
    BY <1>0, <2>3, <2>4, <2>5
<1>2. CASE \E policy \in Policies : ActivateRead(o, policy)
  <2>1. PICK policy \in Policies : ActivateRead(o, policy)
    BY <1>2
  <2>2. UNCHANGED <<time, row, earned, runtime, selection>>
    BY <2>1 DEF ActivateRead
  <2> QED
    BY <1>0, <1>1, <2>1, <2>2 DEF EligibleIsEarned
<1>3. CASE ActivateWrite(o)
  <2> DEFINE new == [row EXCEPT !.enabled = TRUE, !.state = "enabled",
                                !.mode = acting[o].mode, !.percentage = acting[o].percentage,
                                !.allowed = acting[o].allowed]
  <2>1. acting[o] \in Judged
    BY <1>0, <1>3 DEF ActivateWrite
  <2>2. new \in Record /\ new.state = "enabled"
    BY <1>0, <2>1 DEF Record, Judged
  <2>3. UpdateRow(new)
    BY <1>3 DEF ActivateWrite
  <2> HIDE DEF new
  <2>4. /\ row' \in Record
        /\ row' = row \/ row'.state = "enabled"
        /\ row'.state = "enabled" => row.state \in {"canary_eligible", "enabled"}
    BY <1>0, <2>2, <2>3, UpdateFacts
  <2>5. acting' \in [Operators -> Judged \cup {NoPolicy}]
    BY <1>0, <1>3 DEF ActivateWrite
  <2> QED
    BY <1>0, <1>3, <2>4, <2>5 DEF ActivateWrite, EligibleIsEarned
<1>4. ASSUME NEW to \in {"suspended", "disabled"}, TurnOff(o, to)
      PROVE  row' \in Record /\ row'.state = to /\ acts' \in 0..MaxActs
  <2> DEFINE set == [row EXCEPT !.state = to]
  <2>1. set \in Record /\ set.state = to
    BY <1>0 DEF Record
  <2>2. UpdateRow(Off(set))
    BY <1>4 DEF TurnOff
  <2> HIDE DEF set
  <2>3. Off(set) \in Record /\ Off(set).state = to
    BY <2>1, OffRecord
  <2>4. ~Refuses(Off(set))
    BY <2>3 DEF Refuses
  <2>5. row' \in Record /\ row'.state = to
    BY <2>2, <2>3, <2>4, OffRecord DEF UpdateRow
  <2> QED
    BY <1>0, <1>4, <2>5, RolloutAssumption DEF TurnOff
<1>5. CASE SuspendContainerProvider(o) \/ DisableContainerProvider(o)
  <2>1. PICK to \in {"suspended", "disabled"} : TurnOff(o, to)
    BY <1>5 DEF SuspendContainerProvider, DisableContainerProvider
  <2>2. row' \in Record /\ row'.state = to /\ acts' \in 0..MaxActs
    BY <1>4, <2>1
  <2> QED
    BY <1>0, <2>1, <2>2 DEF TurnOff, EligibleIsEarned
<1>6. CASE OperatorCutOff(o)
  BY <1>0, <1>6 DEF OperatorCutOff, EligibleIsEarned
<1> QED
  BY <1>2, <1>3, <1>5, <1>6 DEF Operate

LEMMA CanaryFacts ==
    ASSUME RolloutTyped, NEW c \in Canaries, RunContainerProviderCanary(c)
    PROVE  /\ row' \in Record
           /\ earned' \in BOOLEAN
           /\ containers' \subseteq Canaries \cup Requests
           /\ UNCHANGED <<time, acting, acts, selection>>
           /\ EligibleIsEarned => EligibleIsEarned'
<1>0. /\ row \in Record /\ earned \in BOOLEAN
      /\ containers \subseteq Canaries \cup Requests
  BY DEF RolloutTyped, RolloutTypeOK, Shape
<1>1. /\ containers' \subseteq Canaries \cup Requests
      /\ UNCHANGED <<time, acting, acts, selection>>
      /\ UNCHANGED <<row, earned>> \/ PersistPass(c)
  BY <1>0 DEF RunContainerProviderCanary, CanaryBegin, CanaryProvision, CanaryProbe,
     CanaryDestroy, CanaryCleanup, PersistPass, CanaryCutOff, Canary
<1>2. CASE UNCHANGED <<row, earned>>
  BY <1>0, <1>1, <1>2 DEF EligibleIsEarned
<1>3. CASE PersistPass(c)
  <2> DEFINE to == IF row.state = "disabled" THEN "canary_eligible" ELSE row.state
             new == [[row EXCEPT !.state = to] EXCEPT !.canaryPassed = TRUE]
  <2>1. to \in {"canary_eligible", "enabled", "suspended"}
    BY <1>0 DEF Record
  <2>2. UpdateRow(new)
    BY <1>0, <1>3 DEF PersistPass, Record
  <2> HIDE DEF to
  <2>3. new \in Record /\ new.state = to
    BY <1>0, <2>1 DEF Record
  <2> HIDE DEF new
  <2>4. row' \in Record /\ (row' = row \/ row'.state = to)
    BY <1>0, <2>2, <2>3, UpdateFacts
  <2>5. earned' = (earned \/ row.state # "suspended")
    BY <1>3 DEF PersistPass
  <2> QED
    BY <1>0, <1>1, <2>4, <2>5 DEF EligibleIsEarned, to
<1> QED
  BY <1>1, <1>2, <1>3

-----------------------------------------------------------------------------
\* A request, by where it stands.
LEMMA PickingCases ==
    ASSUME RolloutTyped, NEW s \in Requests
    PROVE  /\ picking[s].at \in {"read", "asked", "answered"} => picking[s].left \in {1, 2}
           /\ picking[s].at \in {"asked", "answered"} => picking[s].since \in Nat
           /\ picking[s].at = "answered" => picking[s].answer \in Answer
           /\ picking[s].at = "decide" =>
                 picking[s].record \in Answer /\ picking[s].readAt \in Nat
           /\ picking[s].at \in {"chosen", "create"} =>
                 /\ picking[s] \in [at : {"chosen", "create"}, provider : {"container", "mock"},
                                    readAt : Nat]
                 /\ picking[s].provider \in {"container", "mock"} /\ picking[s].readAt \in Nat
<1>1. picking[s] \in Picking
  BY DEF RolloutTyped, Shape
<1> QED
  BY <1>1 DEF Picking

\* A record that is read is what the next step goes on with.
LEMMA UseFacts ==
    ASSUME RolloutTyped, NEW s \in Requests, picking[s].at \in {"read", "answered"},
           NEW record \in Answer, Use(s, record),
           \A u \in Users : Allows(record, u) => time < lastAllowed[u] + TTL + Latency
    PROVE  \E next \in Picking : picking' = [picking EXCEPT ![s] = next] /\ Sound(s, next)
<1>1. time \in Nat
  BY RolloutAssumption DEF RolloutTyped, RolloutTypeOK
<1>2. CASE picking[s].left = 2
  <2> DEFINE next == [at |-> "read", left |-> 1]
  <2>1. next \in Picking /\ next.at = "read"
    BY DEF Picking
  <2>2. picking' = [picking EXCEPT ![s] = next]
    BY <1>2 DEF Use, Pick
  <2> HIDE DEF next
  <2> QED
    BY <2>1, <2>2 DEF Sound, QueryIsYoung, ReadingIsBacked, ChoiceIsFresh
<1>3. CASE picking[s].left # 2
  <2> DEFINE next == [at |-> "decide", record |-> record, readAt |-> time]
  <2>1. /\ next \in Picking /\ next.at = "decide"
        /\ next.record = record /\ next.readAt = time
    BY <1>1 DEF Picking
  <2>2. picking' = [picking EXCEPT ![s] = next]
    BY <1>3 DEF Use, Pick
  <2> HIDE DEF next
  <2> QED
    BY <2>1, <2>2 DEF Sound, QueryIsYoung, ReadingIsBacked, ChoiceIsFresh
<1> QED
  BY <1>2, <1>3

\* A state of a request that nothing is known about is sound.
LEMMA PlainIsSound ==
    ASSUME NEW s, NEW next, next.at \notin {"asked", "answered", "decide", "chosen"}
    PROVE  Sound(s, next)
BY DEF Sound, QueryIsYoung, ReadingIsBacked, ChoiceIsFresh

LEMMA ServeFacts ==
    ASSUME RolloutTyped, FreshInv, NEW s \in Requests, Serve(s)
    PROVE  /\ UNCHANGED <<time, control, canary>>
           /\ containers' \subseteq Canaries \cup Requests
           /\ \E next \in Picking : picking' = [picking EXCEPT ![s] = next] /\ Sound(s, next)
           /\ \/ cache' = cache
              \/ /\ cache' \in [at : Nat, row : Answer, held : BOOLEAN]
                 /\ cache'.at <= time
                 /\ \A u \in Users : Allows(cache'.row, u) => cache'.at <= lastAllowed[u] + Latency
<1> DEFINE Next1 == \E next \in Picking : picking' = [picking EXCEPT ![s] = next] /\ Sound(s, next)
<1>0. /\ time \in Nat /\ TTL \in Nat /\ TTL # 0 /\ Latency \in Nat
      /\ row \in Record /\ containers \subseteq Canaries \cup Requests
      /\ cache \in [at : Nat, row : Answer, held : BOOLEAN]
      /\ lastAllowed \in [Users -> Nat]
      /\ UserOf[s] \in Users
  BY RolloutAssumption DEF RolloutTyped, RolloutTypeOK, Shape
<1>1. /\ UNCHANGED <<time, control, canary>>
      /\ containers' \subseteq Canaries \cup Requests
      /\ cache' = cache \/ LoadRegistryRecords(s)
  BY <1>0 DEF Serve, BeginChoice, ReadCopy, AskRegistry, RegistryAnswers, LoadRegistryRecords,
     ChooseLabProvider, RetryQueued, ProvisionChecks, ProvisionCreates, EndSession, Use, Pick,
     control, runtime
<1>2. ASSUME NEW next \in Picking, picking' = [picking EXCEPT ![s] = next], Sound(s, next)
      PROVE  Next1
  BY <1>2
<1>3. ASSUME BeginChoice(s) \/ RetryQueued(s)
      PROVE  Next1
  <2> DEFINE next == [at |-> "read", left |-> 2]
  <2>1. next \in Picking /\ next.at = "read"
    BY DEF Picking
  <2>2. picking' = [picking EXCEPT ![s] = next]
    BY <1>3 DEF BeginChoice, RetryQueued, Pick
  <2> HIDE DEF next
  <2> QED
    BY <1>2, <2>1, <2>2, PlainIsSound
<1>4. ASSUME ReadCopy(s)
      PROVE  Next1
  <2>1. cache.at \in Nat /\ cache.row \in Answer
    BY <1>0
  <2>2. \A u \in Users : Allows(cache.row, u) => time < lastAllowed[u] + TTL + Latency
    <3>1. cache.at <= time /\ time - cache.at < TTL
      BY <1>4 DEF ReadCopy, Young, FreshInv, CopyIsBacked
    <3>2. ASSUME NEW u \in Users, Allows(cache.row, u)
          PROVE  time < lastAllowed[u] + TTL + Latency
      <4>1. cache.at <= lastAllowed[u] + Latency
        BY <3>2 DEF FreshInv, CopyIsBacked
      <4>2. lastAllowed[u] \in Nat
        BY <1>0
      <4> QED
        BY <1>0, <2>1, <3>1, <4>1, <4>2
    <3> QED
      BY <3>2
  <2> QED
    BY <1>4, <2>1, <2>2, UseFacts DEF ReadCopy
<1>5. ASSUME AskRegistry(s)
      PROVE  Next1
  <2> DEFINE next == [at |-> "asked", left |-> picking[s].left, since |-> time]
  <2>1. picking[s].left \in {1, 2}
    BY <1>5, PickingCases DEF AskRegistry
  <2>2. next \in Picking /\ next.at = "asked" /\ next.since = time
    BY <1>0, <2>1 DEF Picking
  <2>3. picking' = [picking EXCEPT ![s] = next]
    BY <1>5 DEF AskRegistry, Pick
  <2> HIDE DEF next
  <2>4. Sound(s, next)
    BY <1>0, <2>2 DEF Sound, QueryIsYoung, ReadingIsBacked, ChoiceIsFresh
  <2> QED
    BY <1>2, <2>2, <2>3, <2>4
<1>6. ASSUME RegistryAnswers(s)
      PROVE  Next1
  <2>1. PICK answer \in {row, NoRow} :
           picking' = [picking EXCEPT ![s] = [at |-> "answered", left |-> picking[s].left,
                                              since |-> picking[s].since, answer |-> answer]]
    BY <1>6 DEF RegistryAnswers, Pick
  <2> DEFINE next == [at |-> "answered", left |-> picking[s].left,
                      since |-> picking[s].since, answer |-> answer]
  <2>2. /\ picking[s].at = "asked"
        /\ picking[s].left \in {1, 2} /\ picking[s].since \in Nat /\ answer \in Answer
    BY <1>0, <1>6, PickingCases DEF RegistryAnswers, Answer
  <2>3. /\ next \in Picking /\ next.at = "answered"
        /\ next.since = picking[s].since /\ next.answer = answer
    BY <2>2 DEF Picking
  <2>4. picking[s].since <= time /\ time <= picking[s].since + Latency
    BY <2>2 DEF FreshInv, Sound, QueryIsYoung
  <2>5. ASSUME NEW u \in Users, Allows(answer, u)
        PROVE  picking[s].since <= lastAllowed[u]
    <3>1. answer = row
      BY <2>5 DEF Allows
    <3>2. lastAllowed[u] = time
      BY <2>5, <3>1 DEF FreshInv, HistoryIsTrue
    <3> QED
      BY <2>4, <3>2
  <2> HIDE DEF next
  <2>6. Sound(s, next)
    BY <2>3, <2>4, <2>5 DEF Sound, QueryIsYoung, ReadingIsBacked, ChoiceIsFresh
  <2> QED
    BY <1>2, <2>1, <2>3, <2>6 DEF next
<1>7. ASSUME LoadRegistryRecords(s)
      PROVE  /\ Next1
             /\ cache' \in [at : Nat, row : Answer, held : BOOLEAN]
             /\ cache'.at <= time
             /\ \A u \in Users : Allows(cache'.row, u) => cache'.at <= lastAllowed[u] + Latency
  <2> DEFINE answer == picking[s].answer
             new == [held |-> TRUE, at |-> time, row |-> answer]
  <2>1. /\ picking[s].at = "answered" /\ answer \in Answer /\ picking[s].since \in Nat
        /\ cache' = new /\ Use(s, answer)
    BY <1>7, PickingCases DEF LoadRegistryRecords
  <2> HIDE DEF answer
  <2>2. new \in [at : Nat, row : Answer, held : BOOLEAN] /\ new.at = time /\ new.row = answer
    BY <1>0, <2>1
  <2>3. time <= picking[s].since + Latency
    BY <2>1 DEF FreshInv, Sound, QueryIsYoung
  <2>4. \A u \in Users : Allows(answer, u) => time <= lastAllowed[u] + Latency
    <3>1. ASSUME NEW u \in Users, Allows(answer, u)
          PROVE  time <= lastAllowed[u] + Latency
      <4>1. picking[s].since <= lastAllowed[u] /\ lastAllowed[u] \in Nat
        BY <1>0, <2>1, <3>1 DEF FreshInv, Sound, QueryIsYoung, answer
      <4> QED
        BY <1>0, <2>1, <2>3, <4>1
    <3> QED
      BY <3>1
  <2>5. \A u \in Users : Allows(answer, u) => time < lastAllowed[u] + TTL + Latency
    BY <1>0, <2>4
  <2>6. Next1
    BY <2>1, <2>5, UseFacts
  <2> HIDE DEF new, Next1
  <2> QED
    BY <1>0, <2>1, <2>2, <2>4, <2>6
<1>8. ASSUME ChooseLabProvider(s)
      PROVE  Next1
  <2> DEFINE chosen(i) == [at |-> "chosen", provider |-> Candidates[i],
                           readAt |-> picking[s].readAt]
  <2>1. PICK first \in Probe(s, Candidates[1]), second \in Probe(s, Candidates[2]) :
           picking' = [picking EXCEPT ![s] =
              CASE first = "fits" -> chosen(1)
                [] first # "fits" /\ second = "fits" -> chosen(2)
                [] "fits" \notin {first, second} ->
                      IF "later" \in {first, second} THEN [at |-> "queued"]
                      ELSE [at |-> "refused"]]
    BY <1>8 DEF ChooseLabProvider, Pick
  <2>2. /\ picking[s].at = "decide"
        /\ picking[s].record \in Answer /\ picking[s].readAt \in Nat
    BY <1>8, PickingCases DEF ChooseLabProvider
  <2>3. ASSUME NEW i \in {1, 2}, "fits" \in Probe(s, Candidates[i])
        PROVE  chosen(i) \in Picking /\ Sound(s, chosen(i))
    <3>1. Candidates[i] \in {"container", "mock"}
      BY DEF Candidates
    <3>2. Candidates[i] = "container" => Allows(picking[s].record, UserOf[s])
      BY <2>3 DEF Probe
    <3>3. Candidates[i] = "container" =>
             picking[s].readAt < lastAllowed[UserOf[s]] + TTL + Latency
      BY <1>0, <2>2, <3>2 DEF FreshInv, Sound, ReadingIsBacked
    <3>4. /\ chosen(i) \in Picking /\ chosen(i).at = "chosen"
          /\ chosen(i).provider = Candidates[i] /\ chosen(i).readAt = picking[s].readAt
      BY <2>2, <3>1 DEF Picking
    <3> HIDE DEF chosen
    <3> QED
      BY <3>3, <3>4 DEF Sound, QueryIsYoung, ReadingIsBacked, ChoiceIsFresh
  <2>4. ASSUME NEW to \in {"queued", "refused"}
        PROVE  [at |-> to] \in Picking /\ Sound(s, [at |-> to])
    <3>1. [at |-> to] \in Picking /\ [at |-> to].at = to
      BY DEF Picking
    <3> QED
      BY <3>1, PlainIsSound
  <2> HIDE DEF chosen
  <2>5. CASE first = "fits"
    <3>1. picking' = [picking EXCEPT ![s] = chosen(1)]
      BY <2>1, <2>5
    <3> QED
      BY <1>2, <2>3, <2>5, <3>1
  <2>6. CASE first # "fits" /\ second = "fits"
    <3>1. picking' = [picking EXCEPT ![s] = chosen(2)]
      BY <2>1, <2>6
    <3> QED
      BY <1>2, <2>3, <2>6, <3>1
  <2>7. CASE first # "fits" /\ second # "fits"
    <3>1. PICK to \in {"queued", "refused"} : picking' = [picking EXCEPT ![s] = [at |-> to]]
      BY <2>1, <2>7
    <3> QED
      BY <1>2, <2>4, <3>1
  <2> QED
    BY <2>5, <2>6, <2>7
<1>9. ASSUME NEW next \in Picking, next.at \in {"create", "placed", "refused", "ended"},
             picking' = [picking EXCEPT ![s] = next]
      PROVE  Next1
  BY <1>2, <1>9, PlainIsSound
<1>10. /\ \A to \in {"refused", "ended"} : [at |-> to] \in Picking
       /\ \A provider \in {"container", "mock"} :
             [at |-> "placed", provider |-> provider] \in Picking
  BY DEF Picking
<1>11. ASSUME ProvisionChecks(s)
       PROVE  Next1
  <2>1. /\ picking[s] \in [at : {"chosen", "create"}, provider : {"container", "mock"},
                           readAt : Nat]
        /\ picking[s].provider \in {"container", "mock"}
    BY <1>11, PickingCases DEF ProvisionChecks
  <2> DEFINE creating == [picking[s] EXCEPT !.at = "create"]
  <2>2. creating \in Picking /\ creating.at = "create"
    BY <2>1 DEF Picking
  <2>3. picking' = [picking EXCEPT ![s] =
           CASE picking[s].provider = "mock" -> [at |-> "placed", provider |-> "mock"]
             [] picking[s].provider = "container" /\ HasCapacity -> creating
             [] picking[s].provider = "container" /\ ~HasCapacity -> [at |-> "refused"]]
    BY <1>11 DEF ProvisionChecks, Pick
  <2> HIDE DEF creating
  <2>4. \/ picking' = [picking EXCEPT ![s] = [at |-> "placed", provider |-> "mock"]]
        \/ picking' = [picking EXCEPT ![s] = creating]
        \/ picking' = [picking EXCEPT ![s] = [at |-> "refused"]]
    BY <2>1, <2>3
  <2> QED
    BY <1>9, <1>10, <2>2, <2>4
<1>12. ASSUME ProvisionCreates(s) \/ EndSession(s)
       PROVE  Next1
  <2>1. \/ picking' = [picking EXCEPT ![s] = [at |-> "placed", provider |-> "container"]]
        \/ picking' = [picking EXCEPT ![s] = [at |-> "refused"]]
        \/ picking' = [picking EXCEPT ![s] = [at |-> "ended"]]
    BY <1>12 DEF ProvisionCreates, EndSession
  <2> QED
    BY <1>9, <1>10, <2>1
<1>13. Next1
  BY <1>3, <1>4, <1>5, <1>6, <1>7, <1>8, <1>11, <1>12 DEF Serve
<1> HIDE DEF Next1
<1>14. \/ cache' = cache
       \/ /\ cache' \in [at : Nat, row : Answer, held : BOOLEAN]
          /\ cache'.at <= time
          /\ \A u \in Users : Allows(cache'.row, u) => cache'.at <= lastAllowed[u] + Latency
  BY <1>1, <1>7
<1> QED
  BY <1>1, <1>13, <1>14 DEF Next1

-----------------------------------------------------------------------------
Extends(u) == lastAllowed'[u] = IF Allows(row', u) THEN time' ELSE lastAllowed[u]

LEMMA RolloutSteps ==
    ASSUME RolloutTyped, [RolloutNext]_rolloutVars
    PROVE  \/ UNCHANGED rolloutVars
           \/ /\ lastAllowed' \in [Users -> {time'} \cup Nat]
              /\ \A u \in Users : Extends(u)
              /\ \/ \E o \in Operators : Operate(o)
                 \/ \E c \in Canaries : RunContainerProviderCanary(c)
                 \/ \E s \in Requests : Serve(s)
                 \/ Tick
BY DEF RolloutNext, Extends, RolloutTyped, Shape

LEMMA RolloutTypeInit ==
    ASSUME RolloutInit
    PROVE  RolloutTyped /\ EligibleIsEarned /\ FreshInv
<1> DEFINE first == [state |-> "disabled", enabled |-> FALSE, mode |-> "off", percentage |-> 0,
                     allowed |-> {}, canaryPassed |-> FALSE]
<1>1. first \in Record /\ first.state = "disabled"
  BY DEF Record
<1>2. row = Off(first)
  BY DEF RolloutInit
<1> HIDE DEF first
<1>3. row \in Record /\ row.state = "disabled"
  BY <1>1, <1>2, OffRecord
<1>4. row.enabled = FALSE
  <2>1. Off(first).enabled = FALSE
    BY <1>1 DEF Off, Record
  <2> QED
    BY <1>2, <2>1
<1>5. NoCopy \in [at : Nat, row : Answer, held : BOOLEAN] /\ NoCopy.row = NoRow /\ NoCopy.at = 0
  BY DEF NoCopy, Answer
<1>6. [at |-> "idle"] \in Picking
  BY DEF Picking
<1>7. time = 0 /\ acts = 0 /\ containers = {} /\ earned = FALSE
      /\ acting = [o \in Operators |-> NoPolicy] /\ cache = NoCopy
      /\ picking = [s \in Requests |-> [at |-> "idle"]]
      /\ lastAllowed = [u \in Users |-> 0]
  BY DEF RolloutInit
<1>8. RolloutTypeOK
  <2>1. time \in 0..MaxTime /\ acts \in 0..MaxActs
    BY <1>7, RolloutAssumption
  <2>2. /\ row.state \in {"disabled", "canary_eligible", "enabled", "suspended"}
        /\ row.mode \in {"off", "allowlist", "percentage", "all"}
        /\ row.percentage \in 0..100
        /\ row.allowed \subseteq Users
    BY <1>3 DEF Record
  <2>3. containers \subseteq Canaries \cup Requests
    BY <1>7
  <2>4. earned \in BOOLEAN
    BY <1>7
  <2> QED
    BY <2>1, <2>2, <2>3, <2>4 DEF RolloutTypeOK
<1>9. Shape
  BY <1>3, <1>5, <1>6, <1>7 DEF Shape
<1>10. \A s \in Requests : Sound(s, picking[s])
  BY <1>7, PlainIsSound
<1>11. HistoryIsTrue
  BY <1>4, <1>7, RolloutAssumption DEF HistoryIsTrue, Allows
<1>12. CopyIsBacked
  BY <1>5, <1>7, RolloutAssumption DEF CopyIsBacked, Allows
<1> QED
  BY <1>3, <1>8, <1>9, <1>10, <1>11, <1>12 DEF RolloutTyped, EligibleIsEarned, FreshInv

LEMMA TickFacts ==
    ASSUME RolloutTyped, Tick
    PROVE  /\ time' = time + 1 /\ time' \in 0..MaxTime
           /\ UNCHANGED <<control, runtime, selection>>
           /\ \A s \in Requests :
                 picking[s].at \in {"asked", "answered"} => time < picking[s].since + Latency
BY RolloutAssumption DEF Tick, RolloutTyped, RolloutTypeOK

LEMMA PickingNext ==
    ASSUME RolloutTyped, FreshInv, NEW s \in Requests, Serve(s)
    PROVE  picking' \in [Requests -> Picking]
<1>1. PICK next \in Picking : picking' = [picking EXCEPT ![s] = next]
  BY ServeFacts
<1> QED
  BY <1>1 DEF RolloutTyped, Shape

LEMMA RolloutTypeNext ==
    ASSUME RolloutTyped, FreshInv, [RolloutNext]_rolloutVars
    PROVE  RolloutTyped'
<1>0. RolloutTypeOK /\ Shape
  BY DEF RolloutTyped
<1>1. CASE UNCHANGED rolloutVars
  BY <1>0, <1>1 DEF rolloutVars, control, runtime, selection, RolloutTyped, RolloutTypeOK, Shape
\* What a step leaves alone keeps its type; the rest is given by the lemmas.
<1>2. ASSUME row' \in Record, acting' \in [Operators -> Judged \cup {NoPolicy}],
             acts' \in 0..MaxActs, earned' \in BOOLEAN,
             containers' \subseteq Canaries \cup Requests,
             cache' \in [at : Nat, row : Answer, held : BOOLEAN],
             picking' \in [Requests -> Picking], time' \in 0..MaxTime,
             lastAllowed' \in [Users -> {time'} \cup Nat]
      PROVE  RolloutTyped'
  <2>1. RolloutTypeOK'
    BY <1>2 DEF RolloutTypeOK, Record
  <2>2. lastAllowed' \in [Users -> Nat]
    BY <1>2, RolloutAssumption
  <2>3. Shape'
    BY <1>2, <2>2 DEF Shape
  <2> QED
    BY <2>1, <2>3 DEF RolloutTyped
<1>3. CASE lastAllowed' \in [Users -> {time'} \cup Nat] /\ \E o \in Operators : Operate(o)
  <2>1. /\ row' \in Record /\ acting' \in [Operators -> Judged \cup {NoPolicy}]
        /\ acts' \in 0..MaxActs /\ earned' \in BOOLEAN
        /\ UNCHANGED <<time, runtime, selection>>
    BY <1>3, OperateFacts
  <2> QED
    BY <1>0, <1>2, <1>3, <2>1 DEF RolloutTypeOK, Shape, runtime, selection
<1>4. CASE /\ lastAllowed' \in [Users -> {time'} \cup Nat]
           /\ \E c \in Canaries : RunContainerProviderCanary(c)
  <2>1. /\ row' \in Record /\ earned' \in BOOLEAN
        /\ containers' \subseteq Canaries \cup Requests
        /\ UNCHANGED <<time, acting, acts, selection>>
    BY <1>4, CanaryFacts
  <2> QED
    BY <1>0, <1>2, <1>4, <2>1 DEF RolloutTypeOK, Shape, selection
<1>5. CASE lastAllowed' \in [Users -> {time'} \cup Nat] /\ \E s \in Requests : Serve(s)
  <2>1. /\ UNCHANGED <<time, control, canary>>
        /\ containers' \subseteq Canaries \cup Requests
        /\ cache' = cache \/ cache' \in [at : Nat, row : Answer, held : BOOLEAN]
        /\ picking' \in [Requests -> Picking]
    BY <1>5, ServeFacts, PickingNext
  <2> QED
    BY <1>0, <1>2, <1>5, <2>1 DEF RolloutTypeOK, Shape, control
<1>6. CASE lastAllowed' \in [Users -> {time'} \cup Nat] /\ Tick
  <2>1. time' \in 0..MaxTime /\ UNCHANGED <<control, runtime, selection>>
    BY <1>6, TickFacts
  <2> QED
    BY <1>0, <1>2, <1>6, <2>1 DEF RolloutTypeOK, Shape, control, runtime, selection
<1> QED
  BY <1>1, <1>3, <1>4, <1>5, <1>6, RolloutSteps

LEMMA EligibleIsEarnedNext ==
    ASSUME RolloutTyped, FreshInv, EligibleIsEarned, [RolloutNext]_rolloutVars
    PROVE  EligibleIsEarned'
<1>1. CASE UNCHANGED rolloutVars
  BY <1>1 DEF rolloutVars, control, EligibleIsEarned
<1>2. CASE \E o \in Operators : Operate(o)
  BY <1>2, OperateFacts
<1>3. CASE \E c \in Canaries : RunContainerProviderCanary(c)
  BY <1>3, CanaryFacts
<1>4. CASE \E s \in Requests : Serve(s)
  BY <1>4, ServeFacts DEF control, EligibleIsEarned
<1>5. CASE Tick
  BY <1>5, TickFacts DEF control, EligibleIsEarned
<1> QED
  BY <1>1, <1>2, <1>3, <1>4, <1>5, RolloutSteps

-----------------------------------------------------------------------------
\* The history only ever moves forward, and is up to date after every step.
LEMMA HistoryNext ==
    ASSUME RolloutTyped, FreshInv, [RolloutNext]_rolloutVars, RolloutTyped'
    PROVE  /\ time' \in Nat /\ time \in Nat /\ time <= time'
           /\ \A u \in Users : lastAllowed[u] \in Nat /\ lastAllowed'[u] \in Nat
                               /\ lastAllowed[u] <= lastAllowed'[u]
           /\ HistoryIsTrue'
<1>1. time \in Nat /\ time' \in Nat
  BY RolloutAssumption DEF RolloutTyped, RolloutTypeOK
<1>2. \A u \in Users : lastAllowed[u] \in Nat /\ lastAllowed'[u] \in Nat
  BY DEF RolloutTyped, Shape
<1>3. CASE UNCHANGED rolloutVars
  BY <1>1, <1>2, <1>3 DEF rolloutVars, control, FreshInv, HistoryIsTrue
<1>4. CASE ~UNCHANGED rolloutVars
  <2>1. \A u \in Users : Extends(u)
    BY <1>4, RolloutSteps
  <2>2. time <= time'
    BY <1>1, <1>4, RolloutSteps, OperateFacts, CanaryFacts, ServeFacts, TickFacts
  <2>3. \A u \in Users : lastAllowed[u] <= time
    BY DEF FreshInv, HistoryIsTrue
  <2>4. ASSUME NEW u \in Users
        PROVE  /\ lastAllowed[u] <= lastAllowed'[u] /\ lastAllowed'[u] <= time'
               /\ Allows(row', u) => lastAllowed'[u] = time'
    <3>1. lastAllowed[u] <= time'
      BY <1>1, <1>2, <2>2, <2>3
    <3>2. CASE Allows(row', u)
      BY <1>1, <2>1, <3>1, <3>2 DEF Extends
    <3>3. CASE ~Allows(row', u)
      BY <1>2, <2>1, <3>1, <3>3 DEF Extends
    <3> QED
      BY <3>2, <3>3
  <2> QED
    BY <1>1, <1>2, <2>2, <2>4 DEF HistoryIsTrue
<1> QED
  BY <1>3, <1>4

\* What was sound stays so while the clock stands still.
LEMMA SoundStays ==
    ASSUME RolloutTyped, FreshInv, [RolloutNext]_rolloutVars, RolloutTyped', time' = time,
           NEW s \in Requests, NEW p \in Picking, Sound(s, p)
    PROVE  Sound(s, p)'
<1>1. \A u \in Users : lastAllowed[u] \in Nat /\ lastAllowed'[u] \in Nat
                       /\ lastAllowed[u] <= lastAllowed'[u]
  BY HistoryNext
<1>2. UserOf[s] \in Users /\ TTL \in Nat /\ Latency \in Nat
  BY RolloutAssumption
<1>3. /\ p.at \in {"asked", "answered"} => p.since \in Nat
      /\ p.at \in {"decide", "chosen"} => p.readAt \in Nat
  BY DEF Picking
<1>4. QueryIsYoung(p)'
  BY <1>1, <1>3 DEF Sound, QueryIsYoung
<1>5. ReadingIsBacked(p)'
  BY <1>1, <1>2, <1>3 DEF Sound, ReadingIsBacked
<1>6. ChoiceIsFresh(s, p)'
  BY <1>1, <1>2, <1>3 DEF Sound, ChoiceIsFresh
<1> QED
  BY <1>4, <1>5, <1>6 DEF Sound

\* A tick is allowed while every query under way may take that long.
LEMMA SoundTicks ==
    ASSUME RolloutTyped, FreshInv, [RolloutNext]_rolloutVars, RolloutTyped', Tick, NEW s \in Requests
    PROVE  Sound(s, picking[s])'
<1>1. /\ \A u \in Users : lastAllowed[u] \in Nat /\ lastAllowed'[u] \in Nat
                          /\ lastAllowed[u] <= lastAllowed'[u]
      /\ time \in Nat
  BY HistoryNext
<1>2. /\ time' = time + 1 /\ picking' = picking
      /\ picking[s].at \in {"asked", "answered"} => time < picking[s].since + Latency
  BY TickFacts DEF selection
<1>3. UserOf[s] \in Users /\ TTL \in Nat /\ Latency \in Nat
  BY RolloutAssumption
<1>4. Sound(s, picking[s])
  BY DEF FreshInv
<1> DEFINE p == picking[s]
<1>5. /\ p.at \in {"asked", "answered"} => p.since \in Nat
      /\ p.at \in {"decide", "chosen"} => p.readAt \in Nat
  BY PickingCases
<1>6. p' = p
  BY <1>2
<1>7. QueryIsYoung(p)'
  BY <1>1, <1>2, <1>3, <1>4, <1>5, <1>6 DEF Sound, QueryIsYoung
<1>8. ReadingIsBacked(p)'
  BY <1>1, <1>3, <1>4, <1>5, <1>6 DEF Sound, ReadingIsBacked
<1>9. ChoiceIsFresh(s, p)'
  BY <1>1, <1>3, <1>4, <1>5, <1>6 DEF Sound, ChoiceIsFresh
<1> QED
  BY <1>7, <1>8, <1>9 DEF Sound

LEMMA FreshNext ==
    ASSUME RolloutTyped, FreshInv, [RolloutNext]_rolloutVars
    PROVE  FreshInv'
<1>0. RolloutTyped'
  BY RolloutTypeNext
<1>1. /\ time' \in Nat /\ time \in Nat /\ time <= time'
      /\ \A u \in Users : lastAllowed[u] \in Nat /\ lastAllowed'[u] \in Nat
                          /\ lastAllowed[u] <= lastAllowed'[u]
      /\ HistoryIsTrue'
  BY <1>0, HistoryNext
<1>2. Latency \in Nat /\ cache.at \in Nat
  BY RolloutAssumption DEF RolloutTyped, Shape
<1>3. cache'.at \in Nat
  BY <1>0 DEF RolloutTyped, Shape
<1>4. CopyIsBacked'
  <2>1. CASE cache' = cache
    BY <1>1, <1>2, <2>1 DEF FreshInv, CopyIsBacked
  <2>2. ASSUME NEW s \in Requests, Serve(s), cache' # cache
        PROVE  CopyIsBacked'
    <3>1. /\ time' = time /\ cache'.at <= time
          /\ \A u \in Users : Allows(cache'.row, u) => cache'.at <= lastAllowed[u] + Latency
      BY <2>2, ServeFacts
    <3> QED
      BY <1>1, <1>2, <1>3, <3>1 DEF CopyIsBacked
  <2>3. cache' = cache \/ \E s \in Requests : Serve(s)
    BY RolloutSteps, OperateFacts, CanaryFacts, TickFacts DEF rolloutVars, selection
  <2> QED
    BY <2>1, <2>2, <2>3
<1>5. ASSUME NEW s \in Requests
      PROVE  Sound(s, picking[s])'
  <2>1. picking[s] \in Picking /\ Sound(s, picking[s])
    BY DEF RolloutTyped, Shape, FreshInv
  <2>2. CASE time' = time /\ picking'[s] = picking[s]
    <3> DEFINE p == picking[s]
    <3>1. Sound(s, p) /\ p \in Picking /\ picking'[s] = p
      BY <2>1, <2>2
    <3> QED
      BY <1>0, <2>2, <3>1, SoundStays DEF Sound, QueryIsYoung, ReadingIsBacked, ChoiceIsFresh
  <2>3. ASSUME NEW r \in Requests, Serve(r)
        PROVE  Sound(s, picking[s])'
    <3>1. time' = time
      BY <2>3, ServeFacts
    <3>2. PICK next \in Picking : picking' = [picking EXCEPT ![r] = next] /\ Sound(r, next)
      BY <2>3, ServeFacts
    <3>3. picking \in [Requests -> Picking]
      BY DEF RolloutTyped, Shape
    <3>4. CASE r # s
      BY <2>2, <3>1, <3>2, <3>3, <3>4
    <3>5. CASE r = s
      <4>1. picking'[s] = next /\ Sound(s, next)'
        BY <1>0, <3>1, <3>2, <3>3, <3>5, SoundStays
      <4> QED
        BY <4>1 DEF Sound, QueryIsYoung, ReadingIsBacked, ChoiceIsFresh
    <3> QED
      BY <3>4, <3>5
  <2>4. CASE Tick
    BY <1>0, <2>4, SoundTicks
  <2> QED
    BY <2>2, <2>3, <2>4, RolloutSteps, OperateFacts, CanaryFacts DEF rolloutVars, selection
<1> QED
  BY <1>1, <1>4, <1>5 DEF FreshInv

LEMMA InvHolds == RolloutSpec => [](RolloutTyped /\ EligibleIsEarned /\ FreshInv)
<1>1. RolloutTyped /\ EligibleIsEarned /\ FreshInv /\ [RolloutNext]_rolloutVars
        => (RolloutTyped /\ EligibleIsEarned /\ FreshInv)'
  BY RolloutTypeNext, EligibleIsEarnedNext, FreshNext
<1> QED
  BY <1>1, RolloutTypeInit, PTL DEF RolloutSpec

\* The row, the runtime's containers and the clock are what the schema and the
\* configuration say (the registry's migration and container-provider.ts).
THEOREM RolloutTypeCorrect == RolloutSpec => []RolloutTypeOK
<1>1. RolloutTyped => RolloutTypeOK
  BY DEF RolloutTyped
<1> QED
  BY <1>1, InvHolds, PTL

\* The container provider is enabled on a canary that passed after it was last
\* turned off, however reads and writes of operators and canary runs interleave
\* (activateContainerProvider, persistCanaryResult and the registry's triggers).
THEOREM EnabledOnlyEarned == RolloutSpec => []EnabledIsEarned
<1>1. EligibleIsEarned => EnabledIsEarned
  BY DEF EligibleIsEarned, EnabledIsEarned
<1> QED
  BY <1>1, InvHolds, PTL

\* A container is given only to someone the registry allowed one within the
\* lifetime of the copy and of a query, whichever queries overlap or fail
\* (loadRegistryRecords, evaluateCandidates).
THEOREM AuthorizedRecently == RolloutSpec => []FreshAuthorization
<1>1. FreshInv => FreshAuthorization
  BY DEF FreshInv, Sound, ChoiceIsFresh, FreshAuthorization
<1> QED
  BY <1>1, InvHolds, PTL
=============================================================================

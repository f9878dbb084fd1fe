----------------------------- MODULE LabSession -----------------------------
(***************************************************************************)
(* The sessions one student opens of one lab: request, start, end and      *)
(* reset (services/api/src/lab-sessions.ts, lab-runtime.ts), expiry,       *)
(* cleanup and recovery (lab-operations.ts) and the automation cycle       *)
(* (lab-automation.ts), over the provider that holds the resources.  The   *)
(* lifecycle table of a session (packages/shared-types/src/lab-sessions.ts)*)
(* and the retry rule of its operations come first.                        *)
(*                                                                         *)
(* Every handler reads a session, calls the provider and writes back in    *)
(* separate round trips; some writes are conditional on the state read     *)
(* (compare and set), others are not, and the unique index on live         *)
(* sessions may refuse either.                                             *)
(***************************************************************************)
EXTENDS Naturals, FiniteSets

CONSTANT RetryLimit    \* attempts after which a lab operation is not retried

ASSUME LabRulesAssumption == RetryLimit \in Nat \ {0}

LabState ==
    {"requested", "queued", "provisioning", "ready", "active", "validating", "completed",
     "cleaning", "terminated", "provisioning_failed", "degraded", "recovery_required",
     "expired", "cleanup_failed"}

\* States in which a session counts as its student's one session of the lab.
LiveStates == LabState \ {"terminated", "provisioning_failed"}

Targets ==
    [requested           |-> {"queued", "provisioning", "provisioning_failed", "terminated"},
     queued              |-> {"provisioning", "expired", "terminated"},
     provisioning        |-> {"ready", "provisioning_failed", "recovery_required", "cleaning"},
     ready               |-> {"active", "degraded", "expired", "cleaning"},
     active              |-> {"validating", "completed", "degraded", "expired", "cleaning"},
     validating          |-> {"active", "completed", "degraded", "recovery_required", "expired"},
     completed           |-> {"cleaning", "terminated"},
     cleaning            |-> {"terminated", "cleanup_failed"},
     terminated          |-> {},
     provisioning_failed |-> {"provisioning", "cleaning", "terminated"},
     degraded            |-> {"active", "recovery_required", "expired", "cleaning"},
     recovery_required   |-> {"provisioning", "cleaning", "terminated"},
     expired             |-> {"cleaning", "terminated"},
     cleanup_failed      |-> {"cleaning", "recovery_required"}]

Allowed(from, to) == to \in Targets[from]

CanRetry(attempts) == attempts < RetryLimit

-----------------------------------------------------------------------------
CONSTANTS
    Sessions,      \* rows of lab_sessions, all of one student and one lab
    Students,      \* request handlers serving the student
    Cycles,        \* runs of the automation cycle
    ResetLimit,    \* resets allowed to a session
    MaxCalls       \* bound: calls served, automation rows included

ASSUME LabSessionAssumption ==
    /\ IsFiniteSet(Sessions)
    /\ Students \cap Cycles = {}
    /\ ResetLimit \in Nat
    /\ MaxCalls \in Nat

VARIABLES
    state,         \* [Sessions -> LabState \cup {"none"}]: lifecycle_state
    resource,      \* [Sessions -> Resource]: what the provider holds
    reference,     \* sessions in lab_session_provider_references
    resets,        \* [Sessions -> 0..ResetLimit]: reset_count
    cleanup,       \* [Sessions -> CleanupOp]: the open cleanup operation
    open,          \* open operations of the other kinds
    destroyTried,  \* sessions whose resource the provider was asked to destroy
    work,          \* [Workers -> what the handler is at]
    calls          \* calls served so far

rows == <<state, reference, resets, cleanup, open>>
vars == <<rows, resource, destroyTried, work, calls>>

Workers == Students \cup Cycles

Resource == {"none", "up", "gone"}

CleanupOp == [stage : {"none", "pending", "running", "failed"},
              attempts : 0..RetryLimit, due : BOOLEAN]
NoOp == [stage |-> "none", attempts |-> 0, due |-> FALSE]

Idle == [step |-> "idle"]

Job ==
    {Idle}
    \cup [step : {"queue", "claim", "provision", "save", "ready", "fail", "start", "activate",
                  "expire", "closeExpire", "schedule", "escalate"}, session : Sessions]
    \cup [step : {"insert"}, session : Sessions, free : BOOLEAN]
    \cup [step : {"clean", "destroy", "destroyed", "spoiled", "close", "openCleanup",
                  "reschedule"},
          session : Sessions, kind : {"end", "cleanup", "recover"}]
    \cup [step : {"drop", "claimEnd", "claimExpired"}, session : Sessions, seen : LabState]
    \cup [step : {"reset", "recreate", "count", "restore"}, session : Sessions,
          count : 0..ResetLimit]

TypeOK ==
    /\ state \in [Sessions -> LabState \cup {"none"}]
    /\ resource \in [Sessions -> Resource]
    /\ reference \subseteq Sessions
    /\ resets \in [Sessions -> 0..ResetLimit]
    /\ cleanup \in [Sessions -> CleanupOp]
    /\ open \subseteq Sessions \X {"expire", "recover"}
    /\ destroyTried \subseteq Sessions
    /\ work \in [Workers -> Job]
    /\ calls \in 0..MaxCalls

Init ==
    /\ state = [s \in Sessions |-> "none"]
    /\ resource = [s \in Sessions |-> "none"]
    /\ reference = {}
    /\ resets = [s \in Sessions |-> 0]
    /\ cleanup = [s \in Sessions |-> NoOp]
    /\ open = {}
    /\ destroyTried = {}
    /\ work = [w \in Workers |-> Idle]
    /\ calls = 0

-----------------------------------------------------------------------------
At(w, step) == work[w].step = step
Session(w) == work[w].session
Continue(w, job) == work' = [work EXCEPT ![w] = job]
GoTo(w, step) == Continue(w, [work[w] EXCEPT !.step = step])
Finish(w) == Continue(w, Idle)
Begin(w, job) ==
    /\ work[w] = Idle /\ calls < MaxCalls
    /\ calls' = calls + 1
    /\ Continue(w, job)

\* lab_sessions_one_live_definition_per_user_idx
MayEnter(s, to) ==
    to \in LiveStates => \A t \in Sessions \ {s} : state[t] \notin LiveStates

Set(s, to) == state' = [state EXCEPT ![s] = to]

KeepRest == UNCHANGED <<resource, reference, resets, cleanup, open, destroyTried>>
KeepRows == UNCHANGED <<rows, destroyTried>>
KeepAll == KeepRows /\ UNCHANGED resource

\* transition() of lab-sessions.ts: compare and set along an allowed pair, or an error.
Transition(s, from, to, won, lost) ==
    /\ IF state[s] = from /\ Allowed(from, to) /\ MayEnter(s, to)
       THEN Set(s, to) /\ won
       ELSE UNCHANGED state /\ lost
    /\ KeepRest

\* An UPDATE by id alone: whatever the state has become.
Overwrite(s, to, won, lost) ==
    /\ IF MayEnter(s, to)
       THEN Set(s, to) /\ won
       ELSE UNCHANGED state /\ lost
    /\ KeepRest

-----------------------------------------------------------------------------
(* requestLabSession and drainQueuedLabSessions                            *)

\* The student has no live session of this lab; a provider is free or may be later.
Request(w, s, free) ==
    /\ w \in Students
    /\ \A t \in Sessions : state[t] \notin LiveStates
    /\ state[s] = "none" /\ ~ \E v \in Workers : At(v, "insert") /\ Session(v) = s
    /\ Begin(w, [step |-> "insert", session |-> s, free |-> free])
    /\ KeepAll

Insert(w) ==
    /\ At(w, "insert")
    /\ Overwrite(Session(w), "requested",
           Continue(w, [step |-> IF work[w].free THEN "claim" ELSE "queue",
                        session |-> Session(w)]),
           Finish(w))

Queue(w) ==
    /\ At(w, "queue")
    /\ Transition(Session(w), "requested", "queued", Finish(w), Finish(w))

\* The cycle reads a queued session; its lab is no longer offered or no provider
\* will do (fail), or one is free (claim).
Drain(w, s, step) ==
    /\ w \in Cycles
    /\ state[s] = "queued"
    /\ Begin(w, [step |-> step, session |-> s])
    /\ KeepAll

\* Mutant: the claim does not check that it changed a row.
ClaimAnyway(w) ==
    /\ At(w, "claim")
    /\ Transition(Session(w), IF w \in Cycles THEN "queued" ELSE "requested", "provisioning",
                  GoTo(w, "provision"), GoTo(w, "provision"))

Claim(w) ==
    /\ At(w, "claim")
    /\ Transition(Session(w), IF w \in Cycles THEN "queued" ELSE "requested", "provisioning",
                  GoTo(w, "provision"), Finish(w))

Provision(w) ==
    /\ At(w, "provision")
    /\ resource' = [resource EXCEPT ![Session(w)] = "up"]
    /\ GoTo(w, "save")
    /\ KeepRows

SaveReference(w) ==
    /\ At(w, "save")
    /\ reference' = reference \cup {Session(w)}
    /\ GoTo(w, "ready")
    /\ UNCHANGED <<state, resource, resets, cleanup, open, destroyTried>>

\* Mutant: the session is made ready whatever became of it meanwhile.
ReadyAnyway(w) ==
    /\ At(w, "ready")
    /\ Overwrite(Session(w), "ready", Finish(w), GoTo(w, "fail"))

\* No row is a conflict to a request, and is ignored by the cycle.
MarkReady(w) ==
    /\ At(w, "ready")
    /\ Transition(Session(w), "provisioning", "ready", Finish(w),
                  IF w \in Cycles THEN Finish(w) ELSE GoTo(w, "fail"))

MarkFailed(w) ==
    /\ At(w, "fail")
    /\ IF w \in Cycles
       THEN Overwrite(Session(w), "provisioning_failed", Finish(w), Finish(w))
       ELSE Transition(Session(w), "provisioning", "provisioning_failed", Finish(w), Finish(w))

-----------------------------------------------------------------------------
(* startLabSession and resetLabSession                                     *)

Start(w, s) ==
    /\ w \in Students
    /\ state[s] = "ready" /\ s \in reference
    /\ Begin(w, [step |-> "start", session |-> s])
    /\ KeepAll

StartResource(w) ==
    /\ At(w, "start")
    /\ IF resource[Session(w)] = "up" THEN GoTo(w, "activate") ELSE Finish(w)
    /\ KeepAll

Activate(w) ==
    /\ At(w, "activate")
    /\ Transition(Session(w), "ready", "active", Finish(w), Finish(w))

Reset(w, s) ==
    /\ w \in Students
    /\ state[s] \in {"ready", "active", "degraded"} /\ s \in reference
    /\ resets[s] < ResetLimit
    /\ Begin(w, [step |-> "reset", session |-> s, count |-> resets[s]])
    /\ KeepAll

\* A container is removed and then created again under its name.
RemoveResource(w) ==
    /\ At(w, "reset")
    /\ IF resource[Session(w)] = "up"
       THEN resource' = [resource EXCEPT ![Session(w)] = "gone"] /\ GoTo(w, "recreate")
       ELSE UNCHANGED resource /\ Finish(w)
    /\ KeepRows

RecreateResource(w) ==
    /\ At(w, "recreate")
    /\ resource' = [resource EXCEPT ![Session(w)] = "up"]
    /\ GoTo(w, "count")
    /\ KeepRows

CountReset(w) ==
    /\ At(w, "count")
    /\ resets' = [resets EXCEPT ![Session(w)] = work[w].count + 1]
    /\ GoTo(w, "restore")
    /\ UNCHANGED <<state, resource, reference, cleanup, open, destroyTried>>

Restore(w) ==
    /\ At(w, "restore")
    /\ Overwrite(Session(w), "ready", Finish(w), Finish(w))

-----------------------------------------------------------------------------
(* endLabSession                                                           *)

End(w, s) ==
    /\ w \in Students
    /\ state[s] \notin {"none", "terminated", "cleaning"}
    /\ \/ /\ s \notin reference
          /\ state[s] \in {"requested", "queued", "provisioning_failed", "recovery_required",
                           "expired"}
          /\ Begin(w, [step |-> "drop", session |-> s, seen |-> state[s]])
       \/ /\ s \in reference
          /\ Begin(w, [step |-> "claimEnd", session |-> s, seen |-> state[s]])
    /\ KeepAll

Drop(w) ==
    /\ At(w, "drop")
    /\ Transition(Session(w), work[w].seen, "terminated", Finish(w), Finish(w))

ClaimEnd(w) ==
    /\ At(w, "claimEnd")
    /\ Transition(Session(w), work[w].seen, "cleaning",
           Continue(w, [step |-> "destroy", session |-> Session(w), kind |-> "end"]), Finish(w))

Destroy(w) ==
    /\ At(w, "destroy")
    /\ destroyTried' = destroyTried \cup {Session(w)}
    /\ \/ resource' = [resource EXCEPT ![Session(w)] = "gone"] /\ GoTo(w, "destroyed")
       \/ UNCHANGED resource /\ GoTo(w, "spoiled")
    /\ UNCHANGED rows

MarkTerminated(w) ==
    /\ At(w, "destroyed")
    /\ IF work[w].kind = "end"
       THEN Transition(Session(w), "cleaning", "terminated", Finish(w), GoTo(w, "spoiled"))
       ELSE Overwrite(Session(w), "terminated", GoTo(w, "close"), GoTo(w, "spoiled"))

\* A cleanup that failed leaves its operation scheduled, a refused write leaves it running.
MarkSpoiled(w) ==
    /\ At(w, "spoiled")
    /\ IF work[w].kind = "end"
       THEN Transition(Session(w), "cleaning", "cleanup_failed", Finish(w), Finish(w))
       ELSE Overwrite(Session(w),
                      IF CanRetry(1) THEN "cleanup_failed" ELSE "recovery_required",
                      GoTo(w, "reschedule"), Finish(w))

\* The failed operation is due for the cycle while it may be retried.
Reschedule(w) ==
    /\ At(w, "reschedule")
    /\ cleanup' = [cleanup EXCEPT ![Session(w)].stage = "failed",
                                  ![Session(w)].due = CanRetry(1)]
    /\ Finish(w)
    /\ UNCHANGED <<state, resource, reference, resets, open, destroyTried>>

-----------------------------------------------------------------------------
(* lab-operations.ts: expireLabSession, cleanupLabSessionResources,        *)
(* recoverLabSession                                                       *)

OpenExpire(w, s) ==
    /\ w \in Students
    /\ state[s] # "none" /\ <<s, "expire">> \notin open
    /\ open' = open \cup {<<s, "expire">>}
    /\ Begin(w, [step |-> "expire", session |-> s])
    /\ UNCHANGED <<state, resource, reference, resets, cleanup, destroyTried>>

Expire(w) ==
    /\ At(w, "expire")
    /\ Overwrite(Session(w), "expired", GoTo(w, "closeExpire"), Finish(w))

CloseExpire(w) ==
    /\ At(w, "closeExpire")
    /\ open' = open \ {<<Session(w), "expire">>}
    /\ Finish(w)
    /\ UNCHANGED <<state, resource, reference, resets, cleanup, destroyTried>>

\* recoverLabSession opens its own operation and then cleans up.
OpenRecover(w, s) ==
    /\ w \in Students
    /\ state[s] \in {"cleanup_failed", "recovery_required", "degraded"}
    /\ <<s, "recover">> \notin open
    /\ open' = open \cup {<<s, "recover">>}
    /\ Begin(w, [step |-> "openCleanup", session |-> s, kind |-> "recover"])
    /\ UNCHANGED <<state, resource, reference, resets, cleanup, destroyTried>>

Cleanup(w, s) ==
    /\ w \in Students
    /\ state[s] # "none"
    /\ Begin(w, [step |-> "openCleanup", session |-> s, kind |-> "cleanup"])
    /\ KeepAll

\* Refused while a cleanup operation is open; a terminated session's stays pending.
OpenCleanup(w) ==
    LET s == Session(w) IN
    /\ At(w, "openCleanup")
    /\ IF cleanup[s] # NoOp
       THEN UNCHANGED cleanup /\ Finish(w)
       ELSE IF state[s] = "terminated"
       THEN /\ cleanup' = [cleanup EXCEPT ![s] = [NoOp EXCEPT !.stage = "pending"]]
            /\ Finish(w)
       ELSE /\ cleanup' = [cleanup EXCEPT ![s] = [stage |-> "running", attempts |-> 1,
                                                  due |-> FALSE]]
            /\ GoTo(w, "clean")
    /\ UNCHANGED <<state, resource, reference, resets, open, destroyTried>>

\* Without a reference there is nothing to destroy.
Clean(w) ==
    /\ At(w, "clean")
    /\ Overwrite(Session(w), "cleaning",
           GoTo(w, IF Session(w) \in reference THEN "destroy" ELSE "destroyed"), Finish(w))

CloseCleanup(w) ==
    LET s == Session(w) IN
    /\ At(w, "close")
    /\ cleanup' = [cleanup EXCEPT ![s] = NoOp]
    /\ open' = IF work[w].kind = "recover" THEN open \ {<<s, "recover">>} ELSE open
    /\ Finish(w)
    /\ UNCHANGED <<state, resource, reference, resets, destroyTried>>

-----------------------------------------------------------------------------
(* lab-automation.ts: expireDueLabSessions; processDueLabOperations        *)

FindExpired(w, s) ==
    /\ w \in Cycles
    /\ state[s] \in {"queued", "provisioning", "ready", "active", "validating", "completed",
                     "degraded"}
    /\ Begin(w, [step |-> "claimExpired", session |-> s, seen |-> state[s]])
    /\ KeepAll

\* Compare and set, without the table of allowed pairs.
ClaimExpired(w) ==
    LET s == Session(w) IN
    /\ At(w, "claimExpired")
    /\ IF state[s] = work[w].seen
       THEN Set(s, "expired") /\ Continue(w, [step |-> "schedule", session |-> s])
       ELSE UNCHANGED state /\ Finish(w)
    /\ KeepRest

\* Unless a cleanup operation is open already.
Schedule(w) ==
    LET s == Session(w) IN
    /\ At(w, "schedule")
    /\ cleanup' = [cleanup EXCEPT ![s] =
           IF @ = NoOp THEN [stage |-> "pending", attempts |-> 0, due |-> TRUE] ELSE @]
    /\ Finish(w)
    /\ UNCHANGED <<state, resource, reference, resets, open, destroyTried>>

\* One row of processDueLabOperations: an attempt is counted, the provider not asked.
CountAttempt(w, s) ==
    LET attempts == cleanup[s].attempts + 1 IN
    /\ w \in Cycles
    /\ cleanup[s].due
    /\ cleanup' = [cleanup EXCEPT ![s].attempts = attempts, ![s].due = CanRetry(attempts)]
    /\ IF CanRetry(attempts)
       THEN work[w] = Idle /\ UNCHANGED <<work, calls>>
       ELSE Begin(w, [step |-> "escalate", session |-> s])
    /\ UNCHANGED <<state, resource, reference, resets, open, destroyTried>>

Escalate(w) ==
    /\ At(w, "escalate")
    /\ Overwrite(Session(w), "recovery_required", Finish(w), Finish(w))

-----------------------------------------------------------------------------
\* A round trip fails: caught while provisioning and destroying, else the
\* handler answers with the error and leaves what it has done.
LoseRoundTrip(w) ==
    /\ work[w] # Idle
    /\ GoTo(w, CASE work[w].step \in {"provision", "save", "ready"} -> "fail"
                 [] work[w].step = "destroyed" -> "spoiled"
                 [] OTHER -> work[w].step)
    /\ work' # work
    /\ KeepAll

\* The process stops, or an uncaught error ends the handler.
Crash(w) ==
    /\ work[w] # Idle
    /\ Finish(w)
    /\ KeepAll

\* The Mock provider keeps its sessions in memory, a container may be removed.
LoseResource(s) ==
    /\ resource[s] = "up"
    /\ resource' = [resource EXCEPT ![s] = "gone"]
    /\ UNCHANGED work
    /\ KeepRows

StudentStep(w, s) ==
    \/ \E free \in BOOLEAN : Request(w, s, free)
    \/ Start(w, s) \/ Reset(w, s) \/ End(w, s)
    \/ OpenExpire(w, s) \/ OpenRecover(w, s) \/ Cleanup(w, s)

CycleStep(w, s) ==
    \/ \E step \in {"claim", "fail"} : Drain(w, s, step)
    \/ FindExpired(w, s) \/ CountAttempt(w, s)

Proceed(w) ==
    \/ Insert(w) \/ Queue(w) \/ Claim(w) \/ Provision(w) \/ SaveReference(w)
    \/ MarkReady(w) \/ MarkFailed(w) \/ StartResource(w) \/ Activate(w)
    \/ RemoveResource(w) \/ RecreateResource(w) \/ CountReset(w) \/ Restore(w)
    \/ Drop(w) \/ ClaimEnd(w) \/ Destroy(w) \/ MarkTerminated(w) \/ MarkSpoiled(w) \/ Reschedule(w)
    \/ Expire(w) \/ CloseExpire(w) \/ OpenCleanup(w) \/ Clean(w) \/ CloseCleanup(w)
    \/ ClaimExpired(w) \/ Schedule(w) \/ Escalate(w)
    \/ LoseRoundTrip(w) \/ Crash(w)

Next ==
    \/ \E w \in Workers :
        \/ \E s \in Sessions : StudentStep(w, s) \/ CycleStep(w, s)
        \/ Proceed(w) /\ UNCHANGED calls
    \/ \E s \in Sessions : LoseResource(s) /\ UNCHANGED calls

Spec == Init /\ [][Next]_vars

-----------------------------------------------------------------------------
\* The student never has two live sessions of the lab, though handlers that
\* read another state write live states without looking.
OneLive ==
    \A s, t \in Sessions :
        state[s] \in LiveStates /\ state[t] \in LiveStates => s = t

\* A session is offered to its student only after the provider confirmed its
\* resource and the reference to it was stored.
ProviderConfirmed ==
    \A s \in Sessions :
        state[s] \in {"ready", "active"} => s \in reference /\ resource[s] # "none"

\* At most one handler provisions a session, and none a session that has been
\* provisioned: a second resource would be referenced by nobody.
ProvisionedOnce ==
    \A w \in Workers : At(w, "provision") =>
        /\ resource[Session(w)] = "none"
        /\ \A v \in Workers : At(v, "provision") /\ Session(v) = Session(w) => v = w

\* A session that expired or ended while it was being provisioned is not made
\* ready by the handler that provisioned it.
NotRevived ==
    [][\A s \in Sessions : state'[s] = "ready" /\ state[s] # "ready" =>
        \/ state[s] = "provisioning"
        \/ \E w \in Students : At(w, "restore") /\ Session(w) = s]_vars

\* The cycle hands a session over to operators only after its resource was
\* asked to be destroyed.
EscalatedAfterAttempt ==
    \A s \in Sessions :
        state[s] = "recovery_required" /\ s \in reference => s \in destroyTried
=============================================================================

---------------------------- MODULE ProviderRollout ----------------------------
(***************************************************************************)
(* The control plane of the container provider: canary runs that make it   *)
(* eligible, operators that activate, suspend and disable it, the triggers *)
(* that judge both, and the requests and automation cycles of one API      *)
(* instance that choose a provider for a NEW session from a short-lived    *)
(* copy of the registry.  The mock provider's row never changes and always *)
(* allows, so `row` is the container's.                                    *)
(*                                                                         *)
(* Time advances in ticks of a second; a query of the registry is answered *)
(* within Latency of them, everything else may take as long as it likes.   *)
(***************************************************************************)
EXTENDS Naturals, FiniteSets

CONSTANTS
    Users, Bucket,       \* Bucket[u]: the user's fixed bucket in 0..99
    Operators, Canaries, \* operators and canary runs, each a process of its own
    Requests, UserOf,    \* requests for a new session, one user's each
    Policies,            \* what operators ask for: [mode, percentage, allowed]
    ContainerFirst,      \* do the rows rank the container before the mock?
    MaximumSessions,     \* how many containers the runtime is configured for
    TTL,                 \* how long the copy of the registry is used
    Latency,             \* environment: how long a registry query takes at most
    MaxTime, MaxActs     \* bounds: ticks, and operations of operators

ASSUME RolloutAssumption ==
    /\ Bucket \in [Users -> 0..99]
    /\ UserOf \in [Requests -> Users]
    /\ ContainerFirst \in BOOLEAN
    /\ MaximumSessions \in Nat /\ TTL \in Nat \ {0} /\ Latency \in Nat
    /\ MaxTime \in Nat /\ MaxActs \in Nat
    /\ Policies \subseteq [mode : {"off", "allowlist", "percentage", "all"},
                           percentage : 0..100, allowed : SUBSET Users]

VARIABLES
    time,
    row,          \* the container's row of lab_provider_registry
    acting,       \* what an operator's activation has judged and will write
    acts,         \* how many operations operators have begun
    canary,       \* where each canary run is
    containers,   \* the canary runs and requests whose container is running
    cache,        \* this instance's copy of the registry
    picking,      \* where each request for a session is
    earned,       \* history: did a canary pass since the provider was last off?
    lastAllowed   \* history: when the row last allowed each user

control == <<row, acting, acts, earned>>
runtime == <<canary, containers>>
selection == <<cache, picking>>
rolloutVars == <<time, control, runtime, selection, lastAllowed>>

NoRow == [state |-> "missing"]
NoCopy == [at |-> 0, row |-> NoRow, held |-> FALSE]
NoPolicy == [mode |-> "none"]

-----------------------------------------------------------------------------
(* The policy as it is interpreted for one user.                           *)

Allows(record, u) ==
    /\ record # NoRow
    /\ record.enabled
    /\ record.state = "enabled"
    /\ \/ record.mode = "all"
       \/ record.mode = "allowlist" /\ u \in record.allowed
       \/ record.mode = "percentage" /\ Bucket[u] < record.percentage

-----------------------------------------------------------------------------
(* The registry's trigger: what an update of the row may do.               *)

Off(record) ==
    [record EXCEPT !.enabled = FALSE, !.mode = "off", !.percentage = 0, !.allowed = {}]

(* Mutant: enablement is judged by the evidence alone. *)
RefusesWithoutEvidence(new) ==
    /\ new.state = "enabled" /\ row.state # "enabled"
    /\ \/ ~row.canaryPassed
       \/ new.mode = "off"

Refuses(new) ==
    /\ new.state = "enabled" /\ row.state # "enabled"
    /\ \/ row.state # "canary_eligible"
       \/ ~row.canaryPassed
       \/ new.mode = "off"
       \/ new.mode = "allowlist" /\ new.allowed = {}
       \/ new.mode = "percentage" /\ new.percentage < 1

UpdateRow(new) ==
    row' = IF Refuses(new) THEN row
           ELSE IF new.state \in {"disabled", "suspended"} THEN Off(new) ELSE new

-----------------------------------------------------------------------------
(* Operators.                                                              *)

(* activateContainerProvider: the row is read and judged ...               *)
ActivateRead(o, policy) ==
    /\ acting[o] = NoPolicy
    /\ acts < MaxActs
    /\ row.state \in {"canary_eligible", "enabled"}
    /\ row.canaryPassed
    /\ policy.mode = "allowlist" => policy.allowed # {}
    /\ policy.mode = "percentage" => policy.percentage > 0
    /\ acting' = [acting EXCEPT ![o] =
          [mode       |-> policy.mode,
           percentage |-> CASE policy.mode = "percentage" -> policy.percentage
                            [] policy.mode = "all" -> 100
                            [] OTHER -> 0,
           allowed    |-> IF policy.mode = "allowlist" THEN policy.allowed ELSE {}]]
    /\ acts' = acts + 1
    /\ UNCHANGED <<time, row, earned, runtime, selection>>

(* ... and the row updated by its id alone, whatever it says by now.       *)
ActivateWrite(o) ==
    /\ acting[o] # NoPolicy
    /\ UpdateRow([row EXCEPT !.enabled = TRUE, !.state = "enabled",
                             !.mode = acting[o].mode, !.percentage = acting[o].percentage,
                             !.allowed = acting[o].allowed])
    /\ acting' = [acting EXCEPT ![o] = NoPolicy]
    /\ UNCHANGED <<time, acts, earned, runtime, selection>>

TurnOff(o, state) ==
    /\ acting[o] = NoPolicy
    /\ acts < MaxActs
    /\ UpdateRow(Off([row EXCEPT !.state = state]))
    /\ acts' = acts + 1
    /\ earned' = FALSE
    /\ UNCHANGED <<time, acting, runtime, selection>>

SuspendContainerProvider(o) == TurnOff(o, "suspended")
DisableContainerProvider(o) == TurnOff(o, "disabled")

(* The command is interrupted between its read and its write.              *)
OperatorCutOff(o) ==
    /\ acting[o] # NoPolicy
    /\ acting' = [acting EXCEPT ![o] = NoPolicy]
    /\ UNCHANGED <<time, row, acts, earned, runtime, selection>>

-----------------------------------------------------------------------------
(* The runtime's containers, canary runs and sessions alike.               *)

HasCapacity == Cardinality(containers) < MaximumSessions

-----------------------------------------------------------------------------
(* A canary run: configuration, health and capacity first, then a          *)
(* container is created, probed and destroyed, and the result stored.      *)

Canary(c, from, to) ==
    /\ canary[c] = from
    /\ canary' = [canary EXCEPT ![c] = to]
    /\ UNCHANGED <<time, acting, acts, selection>>

CanaryBegin(c) ==
    /\ \/ HasCapacity /\ Canary(c, "idle", "provision")
       \/ Canary(c, "idle", "failed")
    /\ UNCHANGED <<row, earned, containers>>

CanaryProvision(c) ==
    \/ /\ HasCapacity
       /\ Canary(c, "provision", "probe")
       /\ containers' = containers \cup {c}
       /\ UNCHANGED <<row, earned>>
    \/ /\ Canary(c, "provision", "failed")
       /\ UNCHANGED <<row, earned, containers>>

(* Isolation, start, validation and reset.                                 *)
CanaryProbe(c) ==
    /\ Canary(c, "probe", "destroy") \/ Canary(c, "probe", "cleanup")
    /\ UNCHANGED <<row, earned, containers>>

CanaryDestroy(c) ==
    \/ /\ Canary(c, "destroy", "passed")
       /\ containers' = containers \ {c}
       /\ UNCHANGED <<row, earned>>
    \/ /\ Canary(c, "destroy", "cleanup")
       /\ UNCHANGED <<row, earned, containers>>

(* The clean-up of a failed run is attempted once and never reported.      *)
CanaryCleanup(c) ==
    /\ Canary(c, "cleanup", "failed")
    /\ containers' \in {containers, containers \ {c}}
    /\ UNCHANGED <<row, earned>>

(* persistCanaryResult, with the trigger on the stored result.  A failed   *)
(* run, and one that is not stored, changes nothing of the registry.       *)
PersistPass(c) ==
    /\ Canary(c, "passed", "stored")
    /\ UpdateRow([row EXCEPT
          !.state = IF row.state = "disabled" THEN "canary_eligible" ELSE @,
          !.canaryPassed = TRUE])
    /\ earned' = (earned \/ row.state # "suspended")
    /\ UNCHANGED containers

(* Killed, or an exception nobody catches: a container may be left.        *)
CanaryCutOff(c) ==
    /\ canary[c] \in {"provision", "probe", "destroy", "passed"}
    /\ Canary(c, canary[c], "lost")
    /\ UNCHANGED <<row, earned, containers>>

-----------------------------------------------------------------------------
(* loadRegistryRecords: the copy while it is young, else a query.  Every   *)
(* query replaces the copy when its answer is there, stamped with that     *)
(* moment; one that fails leaves a copy without records.                   *)

Pick(s, next) ==
    /\ picking' = [picking EXCEPT ![s] = next]
    /\ UNCHANGED <<time, control, runtime>>

(* The mock's record is read first, the container's second.                *)
Use(s, record) ==
    Pick(s, IF picking[s].left = 2 THEN [at |-> "read", left |-> 1]
            ELSE [at |-> "decide", record |-> record, readAt |-> time])

BeginChoice(s) ==
    /\ picking[s].at = "idle"
    /\ Pick(s, [at |-> "read", left |-> 2])
    /\ UNCHANGED cache

Young == cache.held /\ time - cache.at < TTL

ReadCopy(s) ==
    /\ picking[s].at = "read"
    /\ Young
    /\ Use(s, cache.row)
    /\ UNCHANGED cache

AskRegistry(s) ==
    /\ picking[s].at = "read"
    /\ ~Young
    /\ Pick(s, [at |-> "asked", left |-> picking[s].left, since |-> time])
    /\ UNCHANGED cache

RegistryAnswers(s) ==
    /\ picking[s].at = "asked"
    /\ \E answer \in {row, NoRow} :
          Pick(s, [at |-> "answered", left |-> picking[s].left, since |-> picking[s].since,
                   answer |-> answer])
    /\ UNCHANGED cache

(* Mutant: after a failed query the old copy is served on. *)
LoadOrKeep(s) ==
    /\ picking[s].at = "answered"
    /\ LET record == IF picking[s].answer = NoRow /\ cache.held THEN cache.row
                     ELSE picking[s].answer
       IN  /\ cache' = [held |-> TRUE, at |-> time, row |-> record]
           /\ Use(s, record)

LoadRegistryRecords(s) ==
    /\ picking[s].at = "answered"
    /\ cache' = [held |-> TRUE, at |-> time, row |-> picking[s].answer]
    /\ Use(s, picking[s].answer)

-----------------------------------------------------------------------------
(* evaluateCandidates: the first candidate in the rows' order that passes  *)
(* the control plane and every probe.  A probe says yes, not now or never. *)

Candidates == IF ContainerFirst THEN <<"container", "mock">> ELSE <<"mock", "container">>

Probe(s, provider) ==
    IF provider = "mock" THEN {"fits", "later", "never"}
    ELSE IF ~Allows(picking[s].record, UserOf[s]) THEN {"never"}
    ELSE {"later", "never"} \cup (IF HasCapacity THEN {"fits"} ELSE {})

ChooseLabProvider(s) ==
    /\ picking[s].at = "decide"
    /\ \E first \in Probe(s, Candidates[1]), second \in Probe(s, Candidates[2]) :
          LET chosen(i) == [at |-> "chosen", provider |-> Candidates[i],
                            readAt |-> picking[s].readAt]
          IN  Pick(s, CASE first = "fits" -> chosen(1)
                        [] first # "fits" /\ second = "fits" -> chosen(2)
                        [] "fits" \notin {first, second} ->
                              IF "later" \in {first, second} THEN [at |-> "queued"]
                              ELSE [at |-> "refused"])
    /\ UNCHANGED cache

(* An automation cycle chooses again for a queued session.                 *)
RetryQueued(s) ==
    /\ picking[s].at = "queued"
    /\ Pick(s, [at |-> "read", left |-> 2])
    /\ UNCHANGED cache

(* provision counts the containers once more, and creates its own later.   *)
ProvisionChecks(s) ==
    /\ picking[s].at = "chosen"
    /\ Pick(s, CASE picking[s].provider = "mock" -> [at |-> "placed", provider |-> "mock"]
                 [] picking[s].provider = "container" /\ HasCapacity ->
                       [picking[s] EXCEPT !.at = "create"]
                 [] picking[s].provider = "container" /\ ~HasCapacity -> [at |-> "refused"])
    /\ UNCHANGED cache

ProvisionCreates(s) ==
    /\ picking[s].at = "create"
    /\ \/ /\ containers' = containers \cup {s}
          /\ picking' = [picking EXCEPT ![s] = [at |-> "placed", provider |-> "container"]]
       \/ /\ picking' = [picking EXCEPT ![s] = [at |-> "refused"]]
          /\ UNCHANGED containers
    /\ UNCHANGED <<time, control, canary, cache>>

(* A session ends on the provider it was placed on, whatever the row says. *)
EndSession(s) ==
    /\ picking[s].at = "placed"
    /\ picking' = [picking EXCEPT ![s] = [at |-> "ended"]]
    /\ containers' = containers \ {s}
    /\ UNCHANGED <<time, control, canary, cache>>

-----------------------------------------------------------------------------
Tick ==
    /\ time < MaxTime
    /\ \A s \in Requests :
          picking[s].at \in {"asked", "answered"} => time < picking[s].since + Latency
    /\ time' = time + 1
    /\ UNCHANGED <<control, runtime, selection>>

RolloutInit ==
    /\ time = 0
    /\ row = Off([state |-> "disabled", enabled |-> FALSE, mode |-> "off", percentage |-> 0,
                  allowed |-> {}, canaryPassed |-> FALSE])
    /\ acting = [o \in Operators |-> NoPolicy]
    /\ acts = 0
    /\ canary = [c \in Canaries |-> "idle"]
    /\ containers = {}
    /\ cache = NoCopy
    /\ picking = [s \in Requests |-> [at |-> "idle"]]
    /\ earned = FALSE
    /\ lastAllowed = [u \in Users |-> 0]

Operate(o) ==
    \/ \E policy \in Policies : ActivateRead(o, policy)
    \/ ActivateWrite(o)
    \/ SuspendContainerProvider(o)
    \/ DisableContainerProvider(o)
    \/ OperatorCutOff(o)

RunContainerProviderCanary(c) ==
    \/ CanaryBegin(c)
    \/ CanaryProvision(c)
    \/ CanaryProbe(c)
    \/ CanaryDestroy(c)
    \/ CanaryCleanup(c)
    \/ PersistPass(c)
    \/ CanaryCutOff(c)

Serve(s) ==
    \/ BeginChoice(s)
    \/ ReadCopy(s)
    \/ AskRegistry(s)
    \/ RegistryAnswers(s)
    \/ LoadRegistryRecords(s)
    \/ ChooseLabProvider(s)
    \/ RetryQueued(s)
    \/ ProvisionChecks(s)
    \/ ProvisionCreates(s)
    \/ EndSession(s)

(* The history of who was allowed follows every step. *)
RolloutNext ==
    /\ \/ \E o \in Operators : Operate(o)
       \/ \E c \in Canaries : RunContainerProviderCanary(c)
       \/ \E s \in Requests : Serve(s)
       \/ Tick
    /\ lastAllowed' = [u \in Users |-> IF Allows(row', u) THEN time' ELSE lastAllowed[u]]

RolloutSpec == RolloutInit /\ [][RolloutNext]_rolloutVars

-----------------------------------------------------------------------------
(* Properties.                                                             *)

RolloutTypeOK ==
    /\ time \in 0..MaxTime
    /\ row.state \in {"disabled", "canary_eligible", "enabled", "suspended"}
    /\ row.mode \in {"off", "allowlist", "percentage", "all"}
    /\ row.percentage \in 0..100
    /\ row.allowed \subseteq Users
    /\ acts \in 0..MaxActs
    /\ containers \subseteq Canaries \cup Requests
    /\ earned \in BOOLEAN

(* The provider is enabled only on a canary that passed after it was last  *)
(* disabled or suspended: an activation judged before that and written     *)
(* after it does not bring the provider back.                              *)
EnabledIsEarned == row.state = "enabled" => earned

(* Suspension takes hold: whoever is given a container was allowed one, by *)
(* the registry, no longer ago than the copy may be used and a query may   *)
(* take, whichever queries overlap or fail.                                *)
FreshAuthorization ==
    \A s \in Requests :
        (picking[s].at = "chosen" /\ picking[s].provider = "container") =>
            picking[s].readAt < lastAllowed[UserOf[s]] + TTL + Latency

(* The runtime never holds more containers than it is configured for.  The *)
(* count and the creation are two steps, so this does not hold.            *)
CapacityKept == Cardinality(containers) <= MaximumSessions
=============================================================================

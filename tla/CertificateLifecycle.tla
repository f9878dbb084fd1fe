------------------------ MODULE CertificateLifecycle ------------------------
(***************************************************************************)
(* Correction of issued certificates (applyCertificateCorrection of        *)
(* services/api/src/certificate-correction.ts, certificate_apply_correction *)
(* of migration 20260813001000 and certificate_record_lifecycle_event of   *)
(* migration 20260813000900).                                              *)
(*                                                                         *)
(* A request is one transaction.  It locks the certificate (FOR UPDATE)    *)
(* before it reads anything, and a supersession then also has to lock the  *)
(* replacement (the foreign key's KEY SHARE) while it holds the first      *)
(* lock, so that two supersessions can wait for each other.  The rows a    *)
(* transaction inserts show when it commits.  The audit event is written   *)
(* after that, by a service process that may be gone by then.              *)
(***************************************************************************)
EXTENDS CertificateRules, Naturals, Sequences, Relation

CONSTANTS
    Certificates, NoCertificate,
    Keys, NoKey,    \* idempotency keys; NoKey: the caller sent none
    Owner,          \* [Certificates -> student]
    Expiring,       \* certificates issued with an expiry date
    Admins,         \* founder_admin requests that may be in flight together
    Inputs,         \* corrections administrators may send
    MaxHistory      \* bound: no new request for a history this long

CorrectionInput ==
    [certificate : Certificates, action : CertificateCorrectionAction,
     target : Certificates \cup {NoCertificate}, key : Keys \cup {NoKey}]

ASSUME CertificateLifecycleAssumption ==
    /\ NoCertificate \notin Certificates
    /\ NoKey \notin Keys
    /\ Expiring \subseteq Certificates
    /\ Inputs \subseteq CorrectionInput
    /\ MaxHistory \in Nat

VARIABLES
    lifecycle,      \* [Certificates -> Seq(Event)]: certificate_lifecycle_events
    decisions,      \* [Certificates -> Seq(Decision)]: certificate_correction_events
    lapsed,         \* certificates whose pinned expiry date has passed
    audit,          \* what certificate.correction.applied events have said
    req             \* [Admins -> Request]: where each request stands

rows == <<lifecycle, decisions>>
vars == <<rows, lapsed, audit, req>>

Event == [seq : Nat, prev : CertificateLifecycleStatus, new : CertificateLifecycleStatus]

\* event is the lifecycle_event_id, given by the event's sequence number.
Decision ==
    [seq : Nat, action : CertificateCorrectionAction, event : Nat,
     prev : CertificateLifecycleStatus, new : CertificateLifecycleStatus,
     target : Certificates \cup {NoCertificate}, key : Keys \cup {NoKey}]

\* An audit event points at the correction it is about.
AuditEvent == [certificate : Certificates, action : CertificateCorrectionAction, correction : Nat]

Idle == [step |-> "idle"]

\* What a transaction read under its lock: how long the history was, and the
\* recorded status.
Open(step) ==
    [step : step, input : Inputs, seen : Nat, status : CertificateLifecycleStatus]

Outcome == {"applied", "conflict", "unavailable"}

Request ==
         {Idle}
    \cup [step : {"lock"}, input : Inputs]
    \cup Open({"share", "commit"})
    \cup [step : {"audit"}, input : Inputs, correction : Nat]
    \cup [step : {"answered"}, input : Inputs, outcome : Outcome]

TypeOK ==
    /\ lifecycle \in [Certificates -> Seq(Event)]
    /\ decisions \in [Certificates -> Seq(Decision)]
    /\ lapsed \subseteq Expiring
    /\ audit \subseteq AuditEvent
    /\ req \in [Admins -> Request]

-----------------------------------------------------------------------------
Init ==
    /\ lifecycle = [c \in Certificates |-> <<>>]
    /\ decisions = [c \in Certificates |-> <<>>]
    /\ lapsed = {}
    /\ audit = {}
    /\ req = [a \in Admins |-> Idle]

At(a, step) == req[a].step = step

Become(a, request) ==
    /\ req' = [req EXCEPT ![a] = request]
    /\ UNCHANGED <<rows, lapsed, audit>>

Answer(a, outcome) ==
    Become(a, [step |-> "answered", input |-> req[a].input, outcome |-> outcome])

\* certificates begin active at issuance
StatusAt(history, i) == IF i = 0 THEN "active" ELSE history[i].new

RecordedStatus(c) == StatusAt(lifecycle[c], Len(lifecycle[c]))

\* resolveEffectiveCertificateStatus: sequenceValid
Replays(history) ==
    \A i \in DOMAIN history :
        /\ history[i].seq = i
        /\ history[i].prev = StatusAt(history, i - 1)
        /\ <<history[i].prev, history[i].new>> \in Edges

\* resolveEffectiveCertificateStatus: status, for a history that replays
EffectiveStatus(c) ==
    IF RecordedStatus(c) = "active" /\ c \in lapsed THEN "expired" ELSE RecordedStatus(c)

\* validateCertificateCorrectionReplacement
WellFormed(input) ==
    /\ input.action = "supersede" <=> input.target # NoCertificate
    /\ input.target # input.certificate

Receive(a, input) ==
    /\ req[a] = Idle
    /\ WellFormed(input)
    /\ Len(lifecycle[input.certificate]) < MaxHistory
    /\ Become(a, [step |-> "lock", input |-> input])

\* Row locks are held from the statement that takes them to the commit.
LocksForUpdate(b, c) == req[b].step \in {"share", "commit"} /\ req[b].input.certificate = c

LocksKeyShare(b, c) == At(b, "commit") /\ req[b].input.target = c

\* The correction a key stands for, if there is one.
Under(c, key) == {i \in DOMAIN decisions[c] : key # NoKey /\ decisions[c][i].key = key}

Foreign(input) ==
    input.target # NoCertificate /\ Owner[input.target] # Owner[input.certificate]

\* What the transaction does once it has the certificate to itself: the key is
\* looked up, the lifecycle trigger judges the edge, the correction trigger the
\* owner of the replacement.
Judge(a) ==
    LET input == req[a].input
        c     == input.certificate
        permitted == <<RecordedStatus(c), TargetStatus(input.action)>> \in Edges
    IN  \/ \E i \in Under(c, input.key) :
              Become(a, [step |-> "audit", input |-> input, correction |-> i])
        \/ /\ Under(c, input.key) = {} /\ ~permitted
           /\ Answer(a, "conflict")
        \/ /\ Under(c, input.key) = {} /\ permitted /\ Foreign(input)
           /\ Answer(a, "unavailable")
        \/ /\ Under(c, input.key) = {} /\ permitted /\ ~Foreign(input)
           /\ Become(a, [step |-> IF input.target = NoCertificate THEN "commit" ELSE "share",
                         input |-> input, seen |-> Len(lifecycle[c]),
                         status |-> RecordedStatus(c)])

\* Mutant: the certificate is read without FOR UPDATE.
ReadCertificate(a) == At(a, "lock") /\ Judge(a)

LockCertificate(a) ==
    /\ At(a, "lock")
    /\ \A b \in Admins \ {a} :
          /\ ~LocksForUpdate(b, req[a].input.certificate)
          /\ ~LocksKeyShare(b, req[a].input.certificate)
    /\ Judge(a)

\* The foreign key check of the correction row on its replacement.
ShareReplacement(a) ==
    /\ At(a, "share")
    /\ \A b \in Admins \ {a} : ~LocksForUpdate(b, req[a].input.target)
    /\ Become(a, [req[a] EXCEPT !.step = "commit"])

\* Transactions that hold a lock and wait for another one.
WaitsFor(a, b) == a # b /\ At(a, "share") /\ LocksForUpdate(b, req[a].input.target)

InCircle(a) ==
    TransitiveClosure([b, d \in Admins |-> WaitsFor(b, d)], Admins)[a, a]

\* Mutant: locks are waited for without end.
AbortNobody(a) == FALSE

\* The database finds the circle and aborts one of its transactions.
AbortDeadlocked(a) ==
    /\ At(a, "share")
    /\ InCircle(a)
    /\ Answer(a, "unavailable")

NewEvent(a) ==
    [seq |-> req[a].seen + 1, prev |-> req[a].status,
     new |-> TargetStatus(req[a].input.action)]

NewDecision(a) ==
    LET input == req[a].input
    IN  [seq |-> Len(decisions[input.certificate]) + 1, action |-> input.action,
         event |-> NewEvent(a).seq, prev |-> NewEvent(a).prev, new |-> NewEvent(a).new,
         target |-> input.target, key |-> input.key]

\* Mutant: the workflow row is left to a later transaction.
CommitEventOnly(a) ==
    LET c == req[a].input.certificate
    IN  /\ At(a, "commit")
        /\ lifecycle' = [lifecycle EXCEPT ![c] = Append(@, NewEvent(a))]
        /\ req' = [req EXCEPT ![a] = Idle]
        /\ UNCHANGED <<decisions, lapsed, audit>>

Commit(a) ==
    LET c == req[a].input.certificate
    IN  /\ At(a, "commit")
        /\ lifecycle' = [lifecycle EXCEPT ![c] = Append(@, NewEvent(a))]
        /\ decisions' = [decisions EXCEPT ![c] = Append(@, NewDecision(a))]
        /\ req' = [req EXCEPT ![a] = [step |-> "audit", input |-> req[a].input,
                                      correction |-> NewDecision(a).seq]]
        /\ UNCHANGED <<lapsed, audit>>

\* The audit event names the action that was asked for.
WriteAudit(a) ==
    LET input == req[a].input
    IN  /\ At(a, "audit")
        /\ audit' = audit \cup {[certificate |-> input.certificate, action |-> input.action,
                                 correction |-> req[a].correction]}
        /\ req' = [req EXCEPT ![a] = [step |-> "answered", input |-> input,
                                      outcome |-> "applied"]]
        /\ UNCHANGED <<rows, lapsed>>

Respond(a) == At(a, "answered") /\ Become(a, Idle)

\* The connection or the service process is lost: an open transaction is
\* rolled back, a committed one stays.
Lose(a) ==
    /\ req[a].step \in {"lock", "share", "commit", "audit"}
    /\ Become(a, Idle)

\* Time passes a pinned expiry date; nothing is recorded.
Lapse(c) ==
    /\ c \in Expiring \ lapsed
    /\ lapsed' = lapsed \cup {c}
    /\ UNCHANGED <<rows, audit, req>>

Serve(a) == LockCertificate(a) \/ ShareReplacement(a) \/ AbortDeadlocked(a)
                \/ Commit(a) \/ WriteAudit(a)

Next ==
    \/ \E a \in Admins :
          \/ \E input \in Inputs : Receive(a, input)
          \/ LockCertificate(a) \/ ShareReplacement(a) \/ AbortDeadlocked(a)
          \/ Commit(a) \/ WriteAudit(a)
          \/ Respond(a) \/ Lose(a)
    \/ \E c \in Certificates : Lapse(c)

Spec == Init /\ [][Next]_vars

\* The database serves the requests it has, and hands a row lock to those who
\* queue for it in turn.
Fairness ==
    \A a \in Admins :
        /\ SF_vars(LockCertificate(a)) /\ SF_vars(ShareReplacement(a))
        /\ WF_vars(Serve(a))

FairSpec == Spec /\ Fairness
-----------------------------------------------------------------------------
\* Both histories are coherent and tell the same story: every lifecycle event
\* continues the one before it along an approved edge, and it was driven by
\* exactly one correction, which recorded the very transition it caused.
HistoriesAgree ==
    \A c \in Certificates :
        /\ Replays(lifecycle[c])
        /\ Len(decisions[c]) = Len(lifecycle[c])
        /\ \A i \in DOMAIN decisions[c] :
              /\ decisions[c][i].event = i
              /\ decisions[c][i].prev = lifecycle[c][i].prev
              /\ decisions[c][i].new = lifecycle[c][i].new
              /\ lifecycle[c][i].new = TargetStatus(decisions[c][i].action)

\* The unique constraints on the sequence numbers and keys are backstops that
\* are never reached: what a transaction read before its last wait for a lock
\* is still so when it inserts.
ConstraintsNeverHit ==
    \A a \in Admins :
        req[a].step \in {"share", "commit"} =>
            LET input == req[a].input
            IN  /\ req[a].seen = Len(lifecycle[input.certificate])
                /\ Under(input.certificate, input.key) = {}

\* A key is applied once per certificate, however its request is retried.
OneDecisionPerKey ==
    \A c \in Certificates : \A i, j \in DOMAIN decisions[c] :
        decisions[c][i].key = decisions[c][j].key /\ decisions[c][i].key # NoKey => i = j

\* Once a reader has been shown a corrected or superseded certificate, no
\* later correction and no passing of time shows it as anything else.
FinalStatusStays ==
    [][\A c \in Certificates :
          EffectiveStatus(c) \in {"superseded", "corrected"} =>
              EffectiveStatus(c)' = EffectiveStatus(c)]_vars

\* An audit event names the action of the correction it points at.
AuditNamesTheAction ==
    \A x \in audit : decisions[x.certificate][x.correction].action = x.action

\* Every correction request ends: locks are never waited for forever, not
\* even by two supersessions that name each other's certificate.
RequestsEnd ==
    \A a \in Admins :
        req[a].step \in {"lock", "share", "commit", "audit"} ~>
            req[a].step \in {"idle", "answered"}

DecidedKeys(history) == {history[i].key : i \in DOMAIN history} \ {NoKey}

\* The transactions implement the indivisible decisions of CertificateStatus.
Abs == INSTANCE CertificateStatus
         WITH status <- [c \in Certificates |-> RecordedStatus(c)],
              spent  <- [c \in Certificates |-> DecidedKeys(decisions[c])]

ImplementsStatus == Abs!StatusSpec
=============================================================================

--------------------- MODULE CertificateLifecycleProofs ---------------------
(***************************************************************************)
(* Theorems about CertificateLifecycle and the readers CertificateReading  *)
(* adds to it, for every set of certificates, owners, requests, keys and   *)
(* views and every bound on the histories.                                 *)
(***************************************************************************)
EXTENDS CertificateReading, TLAPS

\* The steps at which a request holds its certificate FOR UPDATE.
Held == {"share", "commit"}

\* Nobody else holds the certificate.
LocksExclude ==
    \A a, b \in Admins :
        a # b /\ req[a].step \in Held /\ req[b].step \in Held =>
            req[a].input.certificate # req[b].input.certificate

\* What a request read of a certificate's histories is so.
Current(request, h, d) ==
    /\ request.seen = Len(h)
    /\ request.status = StatusAt(h, Len(h))
    /\ <<request.status, TargetStatus(request.input.action)>> \in Edges
    /\ request.input.key # NoKey => \A i \in DOMAIN d : d[i].key # request.input.key

\* What a request read under its lock is still so.
HeldIsCurrent ==
    \A a \in Admins :
        req[a].step \in Held =>
            Current(req[a], lifecycle[req[a].input.certificate],
                    decisions[req[a].input.certificate])

\* The two histories of one certificate tell the same story.
Agree(h, d) ==
    /\ Replays(h)
    /\ Len(d) = Len(h)
    /\ \A i \in DOMAIN d :
          /\ d[i].event = i
          /\ d[i].prev = h[i].prev
          /\ d[i].new = h[i].new
          /\ h[i].new = TargetStatus(d[i].action)

Inv == TypeOK /\ LocksExclude /\ HeldIsCurrent /\ HistoriesAgree /\ OneDecisionPerKey

-----------------------------------------------------------------------------
LEMMA InputParts ==
    ASSUME NEW input \in Inputs
    PROVE  /\ input.certificate \in Certificates
           /\ input.action \in CertificateCorrectionAction
           /\ input.target \in Certificates \cup {NoCertificate}
           /\ input.key \in Keys \cup {NoKey}
BY CertificateLifecycleAssumption DEF CorrectionInput

LEMMA TargetStatusType ==
    ASSUME NEW action \in CertificateCorrectionAction
    PROVE  TargetStatus(action) \in CertificateLifecycleStatus
BY DEF TargetStatus, CertificateCorrectionAction, CertificateLifecycleStatus

LEMMA StatusAtType ==
    ASSUME NEW h \in Seq(Event), NEW i \in 0 .. Len(h)
    PROVE  StatusAt(h, i) \in CertificateLifecycleStatus
<1>1. CASE i = 0
  BY <1>1 DEF StatusAt, CertificateLifecycleStatus
<1>2. CASE i # 0
  <2>1. h[i] \in Event
    BY <1>2
  <2> QED
    BY <1>2, <2>1 DEF StatusAt, Event
<1> QED
  BY <1>1, <1>2

\* A request that waits for something carries an input.
LEMMA RequestParts ==
    ASSUME TypeOK, NEW a \in Admins,
           req[a].step \in {"lock", "share", "commit", "audit"}
    PROVE  req[a].input \in Inputs
BY DEF TypeOK, Request, Idle, Open

\* A request that holds its certificate carries what it read.
LEMMA HeldRequest ==
    ASSUME TypeOK, NEW a \in Admins, req[a].step \in Held
    PROVE  req[a] \in Open(Held)
BY DEF TypeOK, Request, Idle, Open, Held

LEMMA BecomeType ==
    ASSUME TypeOK, NEW a \in Admins, NEW request \in Request, Become(a, request)
    PROVE  TypeOK'
BY DEF TypeOK, Become, rows

LEMMA AnswerType ==
    ASSUME TypeOK, NEW a \in Admins, req[a].input \in Inputs,
           NEW outcome \in Outcome, Answer(a, outcome)
    PROVE  TypeOK'
<1>1. [step |-> "answered", input |-> req[a].input, outcome |-> outcome] \in Request
  BY DEF Request
<1> QED
  BY <1>1, BecomeType DEF Answer

\* What a transaction that got its lock goes on with.
LEMMA Granted ==
    ASSUME TypeOK, NEW a \in Admins, LockCertificate(a)
    PROVE  LET input == req[a].input
               c     == input.certificate
           IN  \/ \E i \in Nat :
                     Become(a, [step |-> "audit", input |-> input, correction |-> i])
               \/ \E outcome \in Outcome : Answer(a, outcome)
               \/ /\ \A b \in Admins \ {a} : ~LocksForUpdate(b, c)
                  /\ <<RecordedStatus(c), TargetStatus(input.action)>> \in Edges
                  /\ Under(c, input.key) = {}
                  /\ \E step \in Held :
                        Become(a, [step |-> step, input |-> input,
                                   seen |-> Len(lifecycle[c]),
                                   status |-> RecordedStatus(c)])
<1> DEFINE input == req[a].input
           c     == input.certificate
<1>1. input \in Inputs /\ c \in Certificates
  BY RequestParts, InputParts DEF LockCertificate, At
<1>2. Under(c, input.key) \subseteq Nat
  BY <1>1 DEF Under, TypeOK
<1> QED
  BY <1>1, <1>2 DEF LockCertificate, Judge, Outcome, Held

\* What a commit adds.
LEMMA CommitFacts ==
    ASSUME TypeOK, NEW a \in Admins, Commit(a)
    PROVE  /\ req[a] \in Open(Held)
           /\ req[a].input \in Inputs
           /\ req[a].input.certificate \in Certificates
           /\ NewEvent(a) \in Event
           /\ NewEvent(a).seq = req[a].seen + 1
           /\ NewEvent(a).prev = req[a].status
           /\ NewEvent(a).new = TargetStatus(req[a].input.action)
           /\ NewDecision(a) \in Decision
           /\ NewDecision(a).event = req[a].seen + 1
           /\ NewDecision(a).prev = req[a].status
           /\ NewDecision(a).new = TargetStatus(req[a].input.action)
           /\ NewDecision(a).action = req[a].input.action
           /\ NewDecision(a).key = req[a].input.key
<1>1. req[a] \in Open(Held)
  BY HeldRequest DEF Commit, At, Held
<1>2. /\ req[a].input \in Inputs
      /\ req[a].seen \in Nat
      /\ req[a].status \in CertificateLifecycleStatus
  BY <1>1 DEF Open
<1>3. /\ req[a].input.certificate \in Certificates
      /\ req[a].input.action \in CertificateCorrectionAction
      /\ req[a].input.target \in Certificates \cup {NoCertificate}
      /\ req[a].input.key \in Keys \cup {NoKey}
  BY <1>2, InputParts
<1>4. TargetStatus(req[a].input.action) \in CertificateLifecycleStatus
  BY <1>3, TargetStatusType
<1>5. Len(decisions[req[a].input.certificate]) \in Nat
  BY <1>3 DEF TypeOK
<1> QED
  BY <1>1, <1>2, <1>3, <1>4, <1>5 DEF NewEvent, NewDecision, Event, Decision

-----------------------------------------------------------------------------
LEMMA TypeInit == Init => TypeOK
BY DEF Init, TypeOK, Request

LEMMA TypeNext == TypeOK /\ [Next]_vars => TypeOK'
<1> SUFFICES ASSUME TypeOK, [Next]_vars PROVE TypeOK'
  OBVIOUS
<1>1. ASSUME NEW a \in Admins, NEW input \in Inputs, Receive(a, input)
      PROVE  TypeOK'
  BY <1>1, BecomeType DEF Receive, Request
<1>2. ASSUME NEW a \in Admins, LockCertificate(a)
      PROVE  TypeOK'
  <2> DEFINE c == req[a].input.certificate
  <2>1. req[a].input \in Inputs /\ c \in Certificates
    BY <1>2, RequestParts, InputParts DEF LockCertificate, At
  <2>2. lifecycle[c] \in Seq(Event)
    BY <2>1 DEF TypeOK
  <2>3. Len(lifecycle[c]) \in Nat /\ RecordedStatus(c) \in CertificateLifecycleStatus
    BY <2>2, StatusAtType DEF RecordedStatus
  <2>4. ASSUME NEW i \in Nat,
               Become(a, [step |-> "audit", input |-> req[a].input, correction |-> i])
        PROVE  TypeOK'
    BY <2>1, <2>4, BecomeType DEF Request
  <2>5. ASSUME NEW step \in Held,
               Become(a, [step |-> step, input |-> req[a].input,
                          seen |-> Len(lifecycle[c]), status |-> RecordedStatus(c)])
        PROVE  TypeOK'
    BY <2>1, <2>3, <2>5, BecomeType DEF Request, Open, Held
  <2>6. ASSUME NEW outcome \in Outcome, Answer(a, outcome)
        PROVE  TypeOK'
    BY <2>1, <2>6, AnswerType
  <2> QED
    BY <1>2, <2>4, <2>5, <2>6, Granted
<1>3. ASSUME NEW a \in Admins, ShareReplacement(a)
      PROVE  TypeOK'
  <2>1. req[a] \in Open(Held)
    BY <1>3, HeldRequest DEF ShareReplacement, At, Held
  <2>2. [req[a] EXCEPT !.step = "commit"] \in Request
    BY <2>1 DEF Open, Request, Held
  <2> QED
    BY <1>3, <2>2, BecomeType DEF ShareReplacement
<1>4. ASSUME NEW a \in Admins, AbortDeadlocked(a)
      PROVE  TypeOK'
  BY <1>4, RequestParts, AnswerType DEF AbortDeadlocked, At, Outcome
<1>5. ASSUME NEW a \in Admins, Commit(a)
      PROVE  TypeOK'
  <2>1. NewDecision(a).seq \in Nat
    BY <1>5, CommitFacts DEF Decision
  <2>2. [step |-> "audit", input |-> req[a].input,
         correction |-> NewDecision(a).seq] \in Request
    BY <1>5, <2>1, CommitFacts DEF Request
  <2>3. req' \in [Admins -> Request]
    BY <1>5, <2>2 DEF Commit, TypeOK
  <2> DEFINE c == req[a].input.certificate
             event == NewEvent(a)
             decision == NewDecision(a)
  <2>4. c \in Certificates /\ event \in Event /\ decision \in Decision
    BY <1>5, CommitFacts
  <2>5. /\ lifecycle' = [lifecycle EXCEPT ![c] = Append(@, event)]
        /\ decisions' = [decisions EXCEPT ![c] = Append(@, decision)]
        /\ UNCHANGED <<lapsed, audit>>
    BY <1>5 DEF Commit
  <2> HIDE DEF c, event, decision
  <2>6. lifecycle' \in [Certificates -> Seq(Event)]
    BY <2>4, <2>5 DEF TypeOK
  <2>7. decisions' \in [Certificates -> Seq(Decision)]
    BY <2>4, <2>5 DEF TypeOK
  <2> QED
    BY <2>3, <2>5, <2>6, <2>7 DEF TypeOK
<1>6. ASSUME NEW a \in Admins, WriteAudit(a)
      PROVE  TypeOK'
  <2>1. /\ req[a].input \in Inputs
        /\ req[a].correction \in Nat
    BY <1>6 DEF WriteAudit, At, TypeOK, Request, Idle, Open
  <2>2. [certificate |-> req[a].input.certificate, action |-> req[a].input.action,
         correction |-> req[a].correction] \in AuditEvent
    BY <2>1, InputParts DEF AuditEvent
  <2>3. [step |-> "answered", input |-> req[a].input, outcome |-> "applied"] \in Request
    BY <2>1 DEF Request, Outcome
  <2> QED
    BY <1>6, <2>2, <2>3 DEF WriteAudit, TypeOK, rows
<1>7. ASSUME NEW a \in Admins, Respond(a) \/ Lose(a)
      PROVE  TypeOK'
  BY <1>7, BecomeType DEF Respond, Lose, Request
<1>8. ASSUME NEW c \in Certificates, Lapse(c)
      PROVE  TypeOK'
  BY <1>8 DEF Lapse, TypeOK, rows
<1>9. CASE UNCHANGED vars
  BY <1>9 DEF vars, rows, TypeOK
<1> QED
  BY <1>1, <1>2, <1>3, <1>4, <1>5, <1>6, <1>7, <1>8, <1>9 DEF Next

\* The type invariant of certificate corrections.
THEOREM TypeCorrect == Spec => []TypeOK
BY TypeInit, TypeNext, PTL DEF Spec

-----------------------------------------------------------------------------
\* Steps that neither write a history nor give anybody a certificate.
Quiet ==
    /\ UNCHANGED rows
    /\ \A b \in Admins :
          req'[b].step \in Held =>
              /\ req[b].step \in Held
              /\ req'[b].input = req[b].input
              /\ req'[b].seen = req[b].seen
              /\ req'[b].status = req[b].status

LEMMA QuietKeeps ==
    ASSUME Inv, Quiet
    PROVE  LocksExclude' /\ HeldIsCurrent' /\ HistoriesAgree' /\ OneDecisionPerKey'
<1>1. LocksExclude'
  BY DEF Inv, Quiet, LocksExclude
<1>2. HeldIsCurrent'
  <2>1. ASSUME NEW b \in Admins, req'[b].step \in Held
        PROVE  Current(req'[b], lifecycle'[req'[b].input.certificate],
                       decisions'[req'[b].input.certificate])
    <3>1. /\ req[b].step \in Held
          /\ req'[b].input = req[b].input
          /\ req'[b].seen = req[b].seen
          /\ req'[b].status = req[b].status
      BY <2>1 DEF Quiet
    <3>2. lifecycle' = lifecycle /\ decisions' = decisions
      BY DEF Quiet, rows
    <3>3. Current(req[b], lifecycle[req[b].input.certificate],
                  decisions[req[b].input.certificate])
      BY <3>1 DEF Inv, HeldIsCurrent
    <3> QED
      BY <3>1, <3>2, <3>3 DEF Current
  <2> QED
    BY <2>1 DEF HeldIsCurrent
<1>3. HistoriesAgree' /\ OneDecisionPerKey'
  BY DEF Inv, Quiet, HistoriesAgree, OneDecisionPerKey, rows
<1> QED
  BY <1>1, <1>2, <1>3

\* Moving on to a step at which nothing is held.
LEMMA BecomeQuiet ==
    ASSUME TypeOK, NEW a \in Admins, NEW request, request.step \notin Held,
           Become(a, request)
    PROVE  Quiet
BY DEF TypeOK, Become, Quiet

LEMMA AnswerQuiet ==
    ASSUME TypeOK, NEW a \in Admins, NEW outcome, Answer(a, outcome)
    PROVE  Quiet
BY BecomeQuiet DEF Answer, Held

\* Getting the lock and everything read under it.
LEMMA LockKeeps ==
    ASSUME Inv, NEW a \in Admins, LockCertificate(a)
    PROVE  LocksExclude' /\ HeldIsCurrent' /\ HistoriesAgree' /\ OneDecisionPerKey'
<1> DEFINE input == req[a].input
           c     == input.certificate
<1>1. ASSUME NEW i \in Nat,
             Become(a, [step |-> "audit", input |-> input, correction |-> i])
      PROVE  Quiet
  BY <1>1, BecomeQuiet DEF Inv, Held
<1>2. ASSUME NEW outcome \in Outcome, Answer(a, outcome)
      PROVE  Quiet
  BY <1>2, AnswerQuiet DEF Inv
<1>3. ASSUME NEW step \in Held,
             \A b \in Admins \ {a} : ~LocksForUpdate(b, c),
             <<RecordedStatus(c), TargetStatus(input.action)>> \in Edges,
             Under(c, input.key) = {},
             Become(a, [step |-> step, input |-> input, seen |-> Len(lifecycle[c]),
                        status |-> RecordedStatus(c)])
      PROVE  LocksExclude' /\ HeldIsCurrent' /\ HistoriesAgree' /\ OneDecisionPerKey'
  <2>1. /\ UNCHANGED rows
        /\ \A b \in Admins \ {a} : req'[b] = req[b]
        /\ req'[a].input = input
        /\ req'[a].seen = Len(lifecycle[c])
        /\ req'[a].status = RecordedStatus(c)
    BY <1>3 DEF Become, Inv, TypeOK
  <2>2. \A b \in Admins \ {a} : req[b].step \in Held => req[b].input.certificate # c
    BY <1>3 DEF LocksForUpdate, Held
  <2>3. LocksExclude'
    BY <2>1, <2>2 DEF Inv, LocksExclude
  <2>4. HeldIsCurrent'
    <3>1. \A b \in Admins \ {a} :
            req'[b].step \in Held =>
              Current(req'[b], lifecycle'[req'[b].input.certificate],
                      decisions'[req'[b].input.certificate])
      BY <2>1 DEF Inv, HeldIsCurrent, rows
    <3>2. Current(req'[a], lifecycle'[c], decisions'[c])
      BY <1>3, <2>1 DEF Current, RecordedStatus, Under, rows
    <3> QED
      BY <2>1, <3>1, <3>2 DEF HeldIsCurrent
  <2>5. HistoriesAgree' /\ OneDecisionPerKey'
    BY <2>1 DEF Inv, HistoriesAgree, OneDecisionPerKey, rows
  <2> QED
    BY <2>3, <2>4, <2>5
<1> QED
  BY <1>1, <1>2, <1>3, Granted, QuietKeeps DEF Inv

-----------------------------------------------------------------------------
\* An event that continues a history extends it.
LEMMA AppendReplays ==
    ASSUME NEW h \in Seq(Event), NEW event \in Event, Replays(h),
           event.seq = Len(h) + 1,
           event.prev = StatusAt(h, Len(h)),
           <<event.prev, event.new>> \in Edges
    PROVE  Replays(Append(h, event))
<1> DEFINE g == Append(h, event)
<1>1. /\ DOMAIN g = 1 .. Len(h) + 1
      /\ DOMAIN h = 1 .. Len(h)
      /\ \A i \in 1 .. Len(h) : g[i] = h[i]
      /\ g[Len(h) + 1] = event
      /\ Len(h) \in Nat
  OBVIOUS
<1> HIDE DEF g
<1>2. \A i \in 0 .. Len(h) : StatusAt(g, i) = StatusAt(h, i)
  BY <1>1 DEF StatusAt
<1>3. SUFFICES ASSUME NEW i \in 1 .. Len(h) + 1
               PROVE  /\ g[i].seq = i
                      /\ g[i].prev = StatusAt(g, i - 1)
                      /\ <<g[i].prev, g[i].new>> \in Edges
  BY <1>1 DEF Replays, g
<1>4. CASE i \in 1 .. Len(h)
  <2>1. i - 1 \in 0 .. Len(h) /\ g[i] = h[i] /\ i \in DOMAIN h
    BY <1>1, <1>4
  <2> QED
    BY <1>2, <2>1 DEF Replays
<1>5. CASE i = Len(h) + 1
  <2>1. i - 1 = Len(h) /\ g[i] = event /\ Len(h) \in 0 .. Len(h)
    BY <1>1, <1>5
  <2> QED
    BY <1>2, <1>5, <2>1
<1> QED
  BY <1>1, <1>4, <1>5

\* Appending to both histories what one correction caused keeps them agreed.
LEMMA AppendAgrees ==
    ASSUME NEW h \in Seq(Event), NEW event \in Event, NEW d \in Seq(Decision),
           NEW decision \in Decision, Agree(h, d),
           Replays(Append(h, event)),
           decision.event = Len(h) + 1, decision.prev = event.prev,
           decision.new = event.new, event.new = TargetStatus(decision.action)
    PROVE  Agree(Append(h, event), Append(d, decision))
<1> DEFINE g == Append(h, event)
           k == Append(d, decision)
<1>1. /\ Len(g) = Len(h) + 1 /\ Len(k) = Len(d) + 1
      /\ DOMAIN k = 1 .. Len(d) + 1
      /\ DOMAIN d = 1 .. Len(d)
      /\ \A i \in 1 .. Len(h) : g[i] = h[i]
      /\ \A i \in 1 .. Len(d) : k[i] = d[i]
      /\ g[Len(h) + 1] = event /\ k[Len(d) + 1] = decision
      /\ Len(h) \in Nat /\ Len(d) \in Nat
  OBVIOUS
<1>2. Len(d) = Len(h)
  BY DEF Agree
<1> HIDE DEF g, k
<1>3. SUFFICES ASSUME NEW i \in 1 .. Len(d) + 1
               PROVE  /\ k[i].event = i
                      /\ k[i].prev = g[i].prev
                      /\ k[i].new = g[i].new
                      /\ g[i].new = TargetStatus(k[i].action)
  BY <1>1, <1>2 DEF Agree, g, k
<1>4. CASE i \in 1 .. Len(d)
  BY <1>1, <1>2, <1>4 DEF Agree
<1>5. CASE i = Len(d) + 1
  BY <1>1, <1>2, <1>5
<1> QED
  BY <1>1, <1>4, <1>5

\* What a commit writes, and what stands there when it does: the certificate
\* is still as the transaction read it.
LEMMA CommitIsCurrent ==
    ASSUME Inv, NEW a \in Admins, Commit(a)
    PROVE  LET input == req[a].input
               c     == input.certificate
           IN  /\ lifecycle' = [lifecycle EXCEPT ![c] = Append(@, NewEvent(a))]
               /\ decisions' = [decisions EXCEPT ![c] = Append(@, NewDecision(a))]
               /\ req[a].seen = Len(lifecycle[c])
               /\ req[a].status = RecordedStatus(c)
               /\ <<RecordedStatus(c), TargetStatus(input.action)>> \in Edges
               /\ Under(c, input.key) = {}
BY DEF Inv, HeldIsCurrent, Current, RecordedStatus, Under, Commit, At, Held

\* The requests a commit leaves as they are hold other certificates.
LEMMA OthersHoldOthers ==
    ASSUME Inv, NEW a \in Admins, Commit(a), NEW b \in Admins, req'[b].step \in Held
    PROVE  /\ b # a
           /\ req'[b] = req[b]
           /\ req[b].input.certificate \in Certificates
           /\ req[b].input.certificate # req[a].input.certificate
<1>1. b # a
  BY DEF Commit, Held, Inv, TypeOK
<1>2. req'[b] = req[b]
  BY <1>1 DEF Commit, Inv, TypeOK
<1>3. req[b].input.certificate \in Certificates
  BY <1>2, RequestParts, InputParts DEF Inv, Held
<1>4. req[a].step \in Held
  BY DEF Commit, At, Held
<1> QED
  BY <1>1, <1>2, <1>3, <1>4 DEF Inv, LocksExclude

LEMMA CommitKeeps ==
    ASSUME Inv, NEW a \in Admins, Commit(a)
    PROVE  LocksExclude' /\ HeldIsCurrent' /\ HistoriesAgree' /\ OneDecisionPerKey'
<1> DEFINE key == req[a].input.key
           c   == req[a].input.certificate
           h   == lifecycle[c]
           d   == decisions[c]
           event == NewEvent(a)
           decision == NewDecision(a)
<1>1. /\ c \in Certificates
      /\ event \in Event
      /\ decision \in Decision
      /\ event.seq = Len(h) + 1
      /\ event.prev = StatusAt(h, Len(h))
      /\ <<event.prev, event.new>> \in Edges
      /\ decision.event = Len(h) + 1
      /\ decision.prev = event.prev
      /\ decision.new = event.new
      /\ event.new = TargetStatus(decision.action)
      /\ decision.key = key
  BY CommitFacts, CommitIsCurrent DEF Inv, RecordedStatus
<1>2. /\ lifecycle' = [lifecycle EXCEPT ![c] = Append(@, event)]
      /\ decisions' = [decisions EXCEPT ![c] = Append(@, decision)]
      /\ \A i \in DOMAIN d : key # NoKey => d[i].key # key
  BY CommitIsCurrent DEF Under
<1>3. /\ lifecycle \in [Certificates -> Seq(Event)]
      /\ decisions \in [Certificates -> Seq(Decision)]
      /\ h \in Seq(Event)
      /\ d \in Seq(Decision)
  BY <1>1 DEF Inv, TypeOK
<1>4. ASSUME NEW b \in Admins, req'[b].step \in Held
      PROVE  /\ b # a /\ req'[b] = req[b]
             /\ req[b].input.certificate \in Certificates
             /\ req[b].input.certificate # c
  BY <1>4, OthersHoldOthers
<1>5. LocksExclude'
  BY <1>4 DEF Inv, LocksExclude
<1>6. Agree(h, d)
  BY <1>1 DEF Inv, HistoriesAgree, Agree
<1>7. \A i, j \in DOMAIN d : d[i].key = d[j].key /\ d[i].key # NoKey => i = j
  BY <1>1 DEF Inv, OneDecisionPerKey
<1> HIDE DEF key, c, h, d, event, decision
<1>8. \A x \in Certificates :
        /\ lifecycle'[x] = IF x = c THEN Append(h, event) ELSE lifecycle[x]
        /\ decisions'[x] = IF x = c THEN Append(d, decision) ELSE decisions[x]
  BY <1>2, <1>3 DEF h, d
<1>9. HeldIsCurrent'
  <2>1. ASSUME NEW b \in Admins, req'[b].step \in Held
        PROVE  Current(req'[b], lifecycle'[req'[b].input.certificate],
                       decisions'[req'[b].input.certificate])
    <3> DEFINE x == req[b].input.certificate
    <3>1. req'[b] = req[b] /\ lifecycle'[x] = lifecycle[x] /\ decisions'[x] = decisions[x]
      BY <1>4, <1>8, <2>1
    <3> QED
      BY <2>1, <3>1 DEF Inv, HeldIsCurrent
  <2> QED
    BY <2>1 DEF HeldIsCurrent
<1>10. HistoriesAgree'
  <2>1. Agree(Append(h, event), Append(d, decision))
    <3>1. Replays(h)
      BY <1>6 DEF Agree
    <3>2. Replays(Append(h, event))
      BY <1>1, <1>3, <3>1, AppendReplays
    <3> QED
      BY <1>1, <1>3, <1>6, <3>2, AppendAgrees
  <2>2. \A x \in Certificates : Agree(lifecycle[x], decisions[x])
    BY DEF Inv, HistoriesAgree, Agree
  <2>3. \A x \in Certificates : Agree(lifecycle'[x], decisions'[x])
    BY <1>8, <2>1, <2>2
  <2> QED
    BY <2>3 DEF HistoriesAgree, Agree
<1>11. OneDecisionPerKey'
  <2> DEFINE k == Append(d, decision)
  <2>1. /\ DOMAIN k = DOMAIN d \cup {Len(d) + 1}
        /\ \A i \in DOMAIN d : k[i] = d[i]
        /\ k[Len(d) + 1] = decision
    BY <1>3
  <2> HIDE DEF k
  <2>2. \A i, j \in DOMAIN k : k[i].key = k[j].key /\ k[i].key # NoKey => i = j
    <3>1. \A i \in DOMAIN d : key # NoKey => d[i].key # key
      BY <1>2 DEF d
    <3> QED
      BY <1>1, <1>7, <2>1, <3>1
  <2>3. \A x \in Certificates : \A i, j \in DOMAIN decisions'[x] :
          decisions'[x][i].key = decisions'[x][j].key /\ decisions'[x][i].key # NoKey
            => i = j
    <3>1. TAKE x \in Certificates
    <3>2. CASE x = c
      <4>1. decisions'[x] = k
        BY <1>8, <3>2 DEF k
      <4> QED
        BY <2>2, <4>1
    <3>3. CASE x # c
      <4>1. decisions'[x] = decisions[x]
        BY <1>8, <3>3
      <4>2. \A i, j \in DOMAIN decisions[x] :
               decisions[x][i].key = decisions[x][j].key /\ decisions[x][i].key # NoKey
                 => i = j
        BY Zenon DEF Inv, OneDecisionPerKey
      <4> QED
        BY <4>1, <4>2
    <3> QED
      BY <3>2, <3>3
  <2> QED
    BY <2>3 DEF OneDecisionPerKey
<1> QED
  BY <1>5, <1>9, <1>10, <1>11

-----------------------------------------------------------------------------
LEMMA InvInit == Init => Inv
<1> SUFFICES ASSUME Init PROVE Inv
  OBVIOUS
<1>1. \A a \in Admins : req[a].step \notin Held
  BY DEF Init, Idle, Held
<1>2. \A c \in Certificates : lifecycle[c] = <<>> /\ decisions[c] = <<>>
  BY DEF Init
<1> QED
  BY <1>1, <1>2, TypeInit DEF Inv, LocksExclude, HeldIsCurrent, HistoriesAgree, Replays,
     OneDecisionPerKey

LEMMA InvNext == Inv /\ [Next]_vars => Inv'
<1> SUFFICES ASSUME Inv, [Next]_vars
             PROVE  LocksExclude' /\ HeldIsCurrent' /\ HistoriesAgree' /\ OneDecisionPerKey'
  BY TypeNext DEF Inv
<1>1. TypeOK
  BY DEF Inv
<1>2. ASSUME NEW a \in Admins, NEW input \in Inputs, Receive(a, input)
      PROVE  Quiet
  BY <1>1, <1>2, BecomeQuiet DEF Receive, Held
<1>3. ASSUME NEW a \in Admins, ShareReplacement(a)
      PROVE  Quiet
  <2>1. req[a] \in Open(Held)
    BY <1>1, <1>3, HeldRequest DEF ShareReplacement, At, Held
  <2>2. /\ UNCHANGED rows
        /\ req[a].step \in Held
        /\ req' = [req EXCEPT ![a] = [req[a] EXCEPT !.step = "commit"]]
    BY <1>3 DEF ShareReplacement, Become, At, Held
  <2>3. /\ req'[a].input = req[a].input
        /\ req'[a].seen = req[a].seen
        /\ req'[a].status = req[a].status
    BY <1>1, <2>1, <2>2 DEF TypeOK, Open
  <2>4. \A b \in Admins \ {a} : req'[b] = req[b]
    BY <1>1, <2>2 DEF TypeOK
  <2> QED
    BY <2>2, <2>3, <2>4 DEF Quiet
<1>4. ASSUME NEW a \in Admins, AbortDeadlocked(a)
      PROVE  Quiet
  BY <1>1, <1>4, AnswerQuiet DEF AbortDeadlocked
<1>5. ASSUME NEW a \in Admins, WriteAudit(a)
      PROVE  Quiet
  BY <1>1, <1>5 DEF WriteAudit, TypeOK, Quiet, Held
<1>6. ASSUME NEW a \in Admins, Respond(a) \/ Lose(a)
      PROVE  Quiet
  BY <1>1, <1>6, BecomeQuiet DEF Respond, Lose, Idle, Held
<1>7. ASSUME NEW c \in Certificates, Lapse(c)
      PROVE  Quiet
  BY <1>7 DEF Lapse, Quiet
<1>8. ASSUME UNCHANGED vars
      PROVE  Quiet
  BY <1>8 DEF vars, Quiet, rows
<1> QED
  BY <1>2, <1>3, <1>4, <1>5, <1>6, <1>7, <1>8, QuietKeeps, LockKeeps, CommitKeeps DEF Next

LEMMA Invariance == Spec => []Inv
BY InvInit, InvNext, PTL DEF Spec

\* What a transaction read before its last wait for a lock still holds when it
\* inserts, so that neither unique constraint is ever what stops it.
THEOREM LockedReadsStay == Spec => []ConstraintsNeverHit
<1>1. Inv => ConstraintsNeverHit
  BY DEF Inv, HeldIsCurrent, Current, Under, ConstraintsNeverHit, Held
<1> QED
  BY <1>1, Invariance, PTL

\* The two histories of a certificate replay and tell the same story.
THEOREM AlwaysAgree == Spec => []HistoriesAgree
BY Invariance, PTL DEF Inv

\* A key is applied to a certificate at most once.
THEOREM DecidesOnce == Spec => []OneDecisionPerKey
BY Invariance, PTL DEF Inv

-----------------------------------------------------------------------------
LEMMA InitRefines == Init => Abs!StatusInit
<1> SUFFICES ASSUME Init PROVE Abs!StatusInit
  OBVIOUS
<1>1. \A c \in Certificates : RecordedStatus(c) = "active"
  BY DEF Init, RecordedStatus, StatusAt
<1>2. \A c \in Certificates : DecidedKeys(decisions[c]) = {}
  BY DEF Init, DecidedKeys
<1> QED
  BY <1>1, <1>2 DEF Abs!StatusInit

LEMMA AppendEffects ==
    ASSUME NEW h \in Seq(Event), NEW event \in Event,
           NEW d \in Seq(Decision), NEW decision \in Decision
    PROVE  /\ StatusAt(Append(h, event), Len(Append(h, event))) = event.new
           /\ DecidedKeys(Append(d, decision)) = DecidedKeys(d) \cup ({decision.key} \ {NoKey})
<1>1. StatusAt(Append(h, event), Len(Append(h, event))) = event.new
  BY DEF StatusAt
<1> DEFINE k == Append(d, decision)
<1>2. /\ DOMAIN k = DOMAIN d \cup {Len(d) + 1}
      /\ \A i \in DOMAIN d : k[i] = d[i]
      /\ k[Len(d) + 1] = decision
  OBVIOUS
<1> HIDE DEF k
<1>3. \A x : x \in {k[i].key : i \in DOMAIN k}
              <=> x \in {d[i].key : i \in DOMAIN d} \/ x = decision.key
  BY <1>2
<1>4. DecidedKeys(k) = DecidedKeys(d) \cup ({decision.key} \ {NoKey})
  BY <1>3 DEF DecidedKeys
<1> QED
  BY <1>1, <1>4 DEF k

\* A commit is one decision of CertificateStatus.
LEMMA CommitRefines ==
    ASSUME Inv, NEW a \in Admins, Commit(a)
    PROVE  Abs!Decide(req[a].input.certificate, req[a].input.action, req[a].input.key)
<1> DEFINE key == req[a].input.key
           action == req[a].input.action
           c   == req[a].input.certificate
           h   == lifecycle[c]
           d   == decisions[c]
           event == NewEvent(a)
           decision == NewDecision(a)
<1>1. /\ c \in Certificates
      /\ event \in Event
      /\ decision \in Decision
      /\ event.new = TargetStatus(action)
      /\ decision.key = key
  BY CommitFacts DEF Inv
<1>2. /\ lifecycle' = [lifecycle EXCEPT ![c] = Append(@, event)]
      /\ decisions' = [decisions EXCEPT ![c] = Append(@, decision)]
      /\ <<RecordedStatus(c), TargetStatus(action)>> \in Edges
      /\ Under(c, key) = {}
  BY CommitIsCurrent
<1>3. /\ lifecycle \in [Certificates -> Seq(Event)]
      /\ decisions \in [Certificates -> Seq(Decision)]
      /\ h \in Seq(Event)
      /\ d \in Seq(Decision)
  BY <1>1 DEF Inv, TypeOK
<1>4. key \notin DecidedKeys(decisions[c])
  BY <1>2 DEF Under, DecidedKeys
<1> HIDE DEF key, action, c, h, d, event, decision
<1>5. \A x \in Certificates :
        /\ lifecycle'[x] = IF x = c THEN Append(h, event) ELSE lifecycle[x]
        /\ decisions'[x] = IF x = c THEN Append(d, decision) ELSE decisions[x]
  BY <1>2, <1>3 DEF h, d
<1>6. /\ StatusAt(Append(h, event), Len(Append(h, event))) = TargetStatus(action)
      /\ DecidedKeys(Append(d, decision)) = DecidedKeys(d) \cup ({key} \ {NoKey})
  BY <1>1, <1>3, AppendEffects
<1>7. \A x \in Certificates :
        RecordedStatus(x)' = IF x = c THEN TargetStatus(action) ELSE RecordedStatus(x)
  BY <1>5, <1>6 DEF RecordedStatus
<1>8. \A x \in Certificates :
        DecidedKeys(decisions'[x])
          = IF x = c THEN DecidedKeys(d) \cup ({key} \ {NoKey}) ELSE DecidedKeys(decisions[x])
  BY <1>5, <1>6
<1>9. [x \in Certificates |-> RecordedStatus(x)']
        = [[x \in Certificates |-> RecordedStatus(x)] EXCEPT ![c] = TargetStatus(action)]
  BY <1>1, <1>7
<1>10. [x \in Certificates |-> DecidedKeys(decisions'[x])]
         = [[x \in Certificates |-> DecidedKeys(decisions[x])]
              EXCEPT ![c] = @ \cup ({key} \ {NoKey})]
  BY <1>1, <1>8 DEF d
<1>11. <<[x \in Certificates |-> RecordedStatus(x)][c], TargetStatus(action)>> \in Edges
  BY <1>1, <1>2
<1>12. key \notin [x \in Certificates |-> DecidedKeys(decisions[x])][c]
  BY <1>1, <1>4
<1>13. Abs!TargetStatus(action) = TargetStatus(action) /\ Abs!Edges = Edges
  BY DEF Abs!TargetStatus, TargetStatus, Abs!Edges, Edges
<1>14. Abs!Decide(c, action, key)
  BY <1>9, <1>10, <1>11, <1>12, <1>13 DEF Abs!Decide
<1> QED
  BY <1>14 DEF c, action, key

LEMMA StepRefines == Inv /\ [Next]_vars => [Abs!StatusNext]_(Abs!statusVars)
<1> SUFFICES ASSUME Inv, [Next]_vars PROVE [Abs!StatusNext]_(Abs!statusVars)
  OBVIOUS
<1>1. ASSUME NEW a \in Admins, Commit(a)
      PROVE  Abs!StatusNext
  <2>1. /\ req[a].input.certificate \in Certificates
        /\ req[a].input.action \in Abs!CertificateCorrectionAction
        /\ req[a].input.key \in Keys \cup {NoKey}
    BY <1>1, CommitFacts, InputParts
       DEF Inv, Abs!CertificateCorrectionAction, CertificateCorrectionAction
  <2>2. Abs!Decide(req[a].input.certificate, req[a].input.action, req[a].input.key)
    BY <1>1, CommitRefines
  <2> QED
    BY Zenon, <2>1, <2>2 DEF Abs!StatusNext
<1>2. CASE UNCHANGED rows
  BY <1>2 DEF Abs!statusVars, RecordedStatus, rows
<1> QED
  BY <1>1, <1>2 DEF Next, vars, Receive, LockCertificate, Judge, ShareReplacement,
     AbortDeadlocked, WriteAudit, Respond, Lose, Lapse, Become, Answer

\* Transactions that wait for one another, are aborted, lost and retried
\* implement indivisible decisions about a certificate's status.
THEOREM Implements == Spec => ImplementsStatus
<1>1. Spec => Abs!StatusSpec
  BY InitRefines, StepRefines, Invariance, PTL DEF Spec, Abs!StatusSpec
<1> QED
  BY <1>1 DEF ImplementsStatus

-----------------------------------------------------------------------------
\* Readers only look on: whatever holds of every correction holds under them.
LEMMA ReadersLookOn == ReadingSpec => Spec
<1>1. ReadingInit => Init
  BY DEF ReadingInit
<1>2. ReadingNext => World \/ UNCHANGED vars
  <2>1. ASSUME NEW v \in Views, NEW i \in Loads(v),
               \/ ReadCertificates(v, i) \/ ReadEvents(v, i) \/ Resolve(v, i)
               \/ QueryFails(v, i)
        PROVE  UNCHANGED vars
    BY Zenon, <2>1 DEF ReadCertificates, ReadEvents, Resolve, QueryFails, AnswersWith, Goes,
       ViewBecomes
  <2>2. ASSUME NEW v \in Views, NEW i \in Loads(v), Arrive(v, i) \/ NetworkFails(v, i)
        PROVE  UNCHANGED vars
    BY Zenon, <2>2 DEF Arrive, NetworkFails, ViewBecomes
  <2>3. ASSUME \/ \E v \in Views : AbortSettles(v)
               \/ \E f \in Filters : SetFilters(f)
               \/ Reopen \/ RequestExport
        PROVE  UNCHANGED vars
    BY Zenon, <2>3 DEF AbortSettles, SetFilters, Reopen, RequestExport, ViewBecomes
  <2> QED
    BY Zenon, <2>1, <2>2, <2>3 DEF ReadingNext
<1>3. [ReadingNext]_allVars => [Next]_vars
  BY <1>2 DEF World, allVars
<1> QED
  BY <1>1, <1>3, PTL DEF ReadingSpec, Spec

\* What a reading may say of a certificate's status.
ToldOf(load, c, status) ==
    CASE status = "active"  -> "active" \in load.had[c] /\ c \notin load.late
      [] status = "expired" -> "active" \in load.had[c] /\ c \in lapsed
      [] OTHER -> status \in load.had[c]

\* What a reading knows was so at a moment of its request, at every step of it;
\* nothing that is recorded ever says "expired".
Truthful(load) ==
    /\ \A c \in Certificates :
          RecordedStatus(c) \in load.had[c] /\ "expired" \notin load.had[c]
    /\ load.late \subseteq load.clock
    /\ load.clock \subseteq lapsed
    /\ DOMAIN load.read \subseteq Certificates
    /\ \A c \in DOMAIN load.read : load.read[c] \in load.had[c] \cup {Unreadable}
    /\ load.step = "answered" => load.answer \in CertificateAnswer
    /\ load.step = "answered" /\ load.answer.outcome = "answered" =>
          \A c \in DOMAIN load.answer.status : ToldOf(load, c, load.answer.status[c])

\* A request and its answer are about the filters the view shows.
ForFilters(load) ==
    /\ load.filters = filters
    /\ load.step = "answered" => load.answer.filters = filters

\* A view has at most one request that may still answer.
Sound(v, w) ==
    /\ \/ w.loads = <<>>
       \/ \E load \in Reading :
             /\ w.loads = <<load>>
             /\ Truthful(load)
             /\ v \in open \cap Filtered => ForFilters(load)
    /\ v \in open \cap Filtered /\ w.loads = <<>> /\ ~w.failed => w.shown.filters = filters

ReadInv == Inv /\ ReadingTypeOK /\ \A v \in Views : Sound(v, view[v])

-----------------------------------------------------------------------------
LEMMA NoLoads == <<>> \in Read /\ DOMAIN <<>> = {}
<1>1. <<>> \in [{} -> CertificateLifecycleStatus \cup {Unreadable}]
  OBVIOUS
<1> QED
  BY <1>1 DEF Read

LEMMA OnlyOneRemoved == ASSUME NEW x PROVE RemoveAt(<<x>>, 1) = <<>>
BY DEF RemoveAt

LEMMA NoLoadIsASequence == <<>> \in Seq(Reading) /\ Len(<<>>) = 0
OBVIOUS

LEMMA OneLoadIsASequence ==
    ASSUME NEW load \in Reading
    PROVE  /\ <<load>> \in Seq(Reading)
           /\ <<load>> # <<>>
           /\ DOMAIN <<load>> = {1}
           /\ <<load>>[1] = load
           /\ Len(<<load>>) = 1
OBVIOUS

\* Every status is recorded but "expired": no correction drives a certificate
\* there.
LEMMA ExpiryIsNotDecided ==
    ASSUME NEW h \in Seq(Event), NEW d \in Seq(Decision), Agree(h, d)
    PROVE  StatusAt(h, Len(h)) \in CertificateLifecycleStatus \ {"expired"}
<1>1. CASE Len(h) = 0
  BY <1>1 DEF StatusAt, CertificateLifecycleStatus
<1>2. CASE Len(h) # 0
  <2>1. Len(h) \in DOMAIN d /\ d[Len(h)] \in Decision
    BY <1>2 DEF Agree
  <2>2. d[Len(h)].action \in CertificateCorrectionAction
    BY <2>1 DEF Decision
  <2>3. h[Len(h)].new = TargetStatus(d[Len(h)].action)
    BY <2>1 DEF Agree
  <2> QED
    BY <1>2, <2>2, <2>3
       DEF StatusAt, TargetStatus, CertificateCorrectionAction, CertificateLifecycleStatus
<1> QED
  BY <1>1, <1>2

LEMMA ExpiryIsNotRecorded ==
    ASSUME Inv, NEW c \in Certificates
    PROVE  RecordedStatus(c) \in CertificateLifecycleStatus \ {"expired"}
<1>1. /\ lifecycle[c] \in Seq(Event) /\ decisions[c] \in Seq(Decision)
      /\ Agree(lifecycle[c], decisions[c])
  BY DEF Inv, TypeOK, HistoriesAgree, Agree
<1> QED
  BY <1>1, ExpiryIsNotDecided DEF RecordedStatus

\* A request that leaves its view knows nothing yet.
LEMMA BegunIsTrue ==
    ASSUME Inv, NEW f \in Filters
    PROVE  /\ Begun(f) \in Reading
           /\ Truthful(Begun(f))
           /\ Begun(f).filters = f
           /\ Begun(f).step = "certificates"
<1>1. lapsed \subseteq Certificates
  BY CertificateLifecycleAssumption DEF Inv, TypeOK
<1>2. [c \in Certificates |-> {RecordedStatus(c)}]
        \in [Certificates -> SUBSET CertificateLifecycleStatus]
  BY ExpiryIsNotRecorded
<1>3. Begun(f) \in Reading
  BY <1>1, <1>2, NoLoads DEF Begun, Reading
<1>4. Truthful(Begun(f))
  BY ExpiryIsNotRecorded, NoLoads DEF Begun, Truthful
<1> QED
  BY <1>3, <1>4 DEF Begun

LEMMA LoadFacts ==
    ASSUME ReadInv, NEW v \in Views, NEW i \in Loads(v)
    PROVE  /\ i = 1
           /\ view[v].loads = <<view[v].loads[i]>>
           /\ view[v].loads[i] \in Reading
           /\ Truthful(view[v].loads[i])
           /\ v \in open \cap Filtered => ForFilters(view[v].loads[i])
<1>1. view[v].loads # <<>>
  BY DEF Loads
<1>2. PICK load \in Reading :
        /\ view[v].loads = <<load>>
        /\ Truthful(load)
        /\ v \in open \cap Filtered => ForFilters(load)
  BY <1>1 DEF ReadInv, Sound
<1>3. i = 1 /\ view[v].loads[i] = load
  BY <1>2, OneLoadIsASequence DEF Loads
<1> QED
  BY <1>2, <1>3

LEMMA TruthStays ==
    ASSUME UNCHANGED vars, NEW load \in Reading, Truthful(load)
    PROVE  Truthful(load)'
BY DEF Truthful, ToldOf, RecordedStatus, vars, rows

\* One view goes on, and nothing else changes.
LEMMA ViewKeeps ==
    ASSUME ReadInv, NEW v \in Views, NEW w \in ViewOf(Reading, CertificateAnswer),
           Sound(v, w), ViewBecomes(v, w)
    PROVE  ReadInv'
<1>1. /\ UNCHANGED <<vars, open, filters>>
      /\ view' = [view EXCEPT ![v] = w]
      /\ view \in [Views -> ViewOf(Reading, CertificateAnswer)]
  BY DEF ViewBecomes, ReadInv, ReadingTypeOK
<1>2. Inv'
  BY <1>1, InvNext DEF ReadInv
<1>3. ReadingTypeOK'
  BY <1>1, <1>2 DEF ReadInv, ReadingTypeOK, Inv
<1>4. ASSUME NEW x \in Views PROVE Sound(x, view[x])'
  <2>1. Sound(x, view'[x])
    BY <1>1 DEF ReadInv
  <2>2. \A load \in Reading : Truthful(load) => Truthful(load)'
    BY <1>1, TruthStays
  <2> QED
    BY <1>1, <2>1, <2>2 DEF Sound, ForFilters
<1> QED
  BY <1>2, <1>3, <1>4 DEF ReadInv

LEMMA GoesKeeps ==
    ASSUME ReadInv, NEW v \in Views, NEW i \in Loads(v), NEW load \in Reading,
           Truthful(load), v \in open \cap Filtered => ForFilters(load),
           Goes(v, i, load)
    PROVE  ReadInv'
<1> DEFINE w == [view[v] EXCEPT !.loads[i] = load]
<1>1. view[v] \in ViewOf(Reading, CertificateAnswer)
  BY DEF ReadInv, ReadingTypeOK
<1>2. i = 1 /\ view[v].loads = <<view[v].loads[i]>> /\ view[v].loads[i] \in Reading
  BY LoadFacts
<1>3. [view[v].loads EXCEPT ![i] = load] = <<load>>
  BY <1>2
<1>4. /\ w = [view[v] EXCEPT !.loads = <<load>>]
  BY <1>1, <1>3 DEF ViewOf
<1>5. w \in ViewOf(Reading, CertificateAnswer) /\ w.loads = <<load>>
  BY <1>1, <1>4, OneLoadIsASequence DEF ViewOf
<1>6. Sound(v, w)
  BY <1>5, OneLoadIsASequence DEF Sound
<1> QED
  BY <1>5, <1>6, ViewKeeps DEF Goes

LEMMA AnswersKeep ==
    ASSUME ReadInv, NEW v \in Views, NEW i \in Loads(v), NEW answer \in CertificateAnswer,
           answer.filters = view[v].loads[i].filters,
           answer.outcome = "answered" =>
              \A c \in DOMAIN answer.status :
                  ToldOf(view[v].loads[i], c, answer.status[c]),
           AnswersWith(v, i, answer)
    PROVE  ReadInv'
<1> DEFINE load == view[v].loads[i]
           said == [load EXCEPT !.step = "answered", !.answer = answer]
<1>1. /\ load \in Reading
      /\ Truthful(load)
      /\ v \in open \cap Filtered => ForFilters(load)
  BY LoadFacts
<1>2. Goes(v, i, said)
  BY DEF AnswersWith
<1> HIDE DEF load
<1>3. /\ said \in Reading
      /\ said.step = "answered" /\ said.answer = answer
      /\ \A field \in {"filters", "read", "clock", "had", "late"} : said[field] = load[field]
  BY <1>1 DEF Reading
<1>4. Truthful(said)
  BY <1>1, <1>3 DEF Truthful, ToldOf, load
<1>5. v \in open \cap Filtered => ForFilters(said)
  BY <1>1, <1>3 DEF ForFilters, load
<1> HIDE DEF said
<1> QED
  BY <1>2, <1>3, <1>4, <1>5, GoesKeeps

-----------------------------------------------------------------------------
LEMMA ReadInvInit == ReadingInit => ReadInv
<1> SUFFICES ASSUME ReadingInit PROVE ReadInv
  OBVIOUS
<1>1. Init /\ open \in Mounts /\ filters = NoFilter /\ filters \in Filters
  BY CertificateReadingAssumption DEF ReadingInit
<1>2. Inv
  BY <1>1, InvInit
<1> DEFINE load == Begun(NoFilter)
           fresh == Reloaded(Unused, load)
<1>3. /\ load \in Reading
      /\ Truthful(load)
      /\ ForFilters(load)
  BY <1>1, <1>2, BegunIsTrue DEF ForFilters
<1> HIDE DEF load
<1>4. fresh = [loads |-> <<load>>, aborted |-> 0, loading |-> TRUE, failed |-> FALSE,
               shown |-> Nothing]
  <2>1. fresh = [Unused EXCEPT !.loads = <<load>>, !.aborted = 0,
                               !.loading = TRUE, !.failed = FALSE]
    BY NoLoadIsASequence DEF Reloaded, Unused
  <2> QED
    BY <2>1 DEF Unused
<1>5. fresh \in ViewOf(Reading, CertificateAnswer) /\ fresh.loads = <<load>>
  BY <1>3, <1>4, OneLoadIsASequence DEF ViewOf
<1>6. Unused \in ViewOf(Reading, CertificateAnswer) /\ Unused.loads = <<>>
  BY DEF Unused, ViewOf
<1> HIDE DEF fresh
<1>7. view = [v \in Views |-> IF v \in open \ {"export"} THEN fresh ELSE Unused]
  BY DEF ReadingInit, fresh, load
<1>8. ReadingTypeOK
  BY <1>1, <1>2, <1>5, <1>6, <1>7 DEF ReadingTypeOK, Inv
<1>9. ASSUME NEW v \in Views PROVE Sound(v, view[v])
  <2>1. CASE v \in open \ {"export"}
    BY <1>3, <1>5, <1>7, <2>1, OneLoadIsASequence DEF Sound
  <2>2. CASE v \notin open \ {"export"}
    BY <1>6, <1>7, <2>2 DEF Sound, Filtered
  <2> QED
    BY <2>1, <2>2
<1> QED
  BY <1>2, <1>8, <1>9 DEF ReadInv

\* What a reading answers with is true of its request, whichever clock it took.
LEMMA AnswerIsTrue ==
    ASSUME NEW v \in Views, NEW load \in Reading, Truthful(load),
           NEW clock \in SUBSET lapsed, load.late \subseteq clock
    PROVE  LET answer == AnswerOf(v, load, clock)
           IN  /\ answer \in CertificateAnswer
               /\ answer.filters = load.filters
               /\ answer.outcome = "answered" =>
                     \A c \in DOMAIN answer.status : ToldOf(load, c, answer.status[c])
<1> DEFINE told  == [c \in DOMAIN load.read |-> StatusTold(c, load.read[c], clock)]
           known == {c \in DOMAIN told : told[c] # Unreadable}
           shown == {c \in known : LetThrough(load.filters, told[c])}
           status == [c \in shown |-> told[c]]
<1>1. /\ DOMAIN load.read \subseteq Certificates
      /\ \A c \in DOMAIN load.read :
            load.read[c] \in CertificateLifecycleStatus \cup {Unreadable}
      /\ load.filters \in Filters
  BY DEF Reading, Read
<1>2. \A c \in DOMAIN load.read :
         told[c] \in CertificateLifecycleStatus \cup {Unreadable}
  BY <1>1 DEF StatusTold, CertificateLifecycleStatus
<1>3. /\ known \subseteq Certificates /\ known \subseteq DOMAIN load.read
      /\ shown \subseteq known
      /\ DOMAIN told = DOMAIN load.read
  BY <1>1
<1>4. ASSUME NEW c \in known PROVE ToldOf(load, c, told[c])
  <2>1. /\ c \in DOMAIN load.read
        /\ c \in Certificates
        /\ told[c] = StatusTold(c, load.read[c], clock)
        /\ told[c] # Unreadable
    BY <1>3
  <2>2. load.read[c] \in load.had[c] /\ load.read[c] # "expired"
    BY <2>1 DEF Truthful, StatusTold, Unreadable
  <2> HIDE DEF told, known
  <2> QED
    BY <2>1, <2>2 DEF StatusTold, ToldOf, Unreadable
<1> HIDE DEF told, known
<1>5. status \in Read
  <2>1. status \in [shown -> CertificateLifecycleStatus \cup {Unreadable}]
    BY <1>2, <1>3
  <2> QED
    BY <1>3, <2>1 DEF Read
<1>6. ASSUME NEW c \in DOMAIN status PROVE ToldOf(load, c, status[c])
  BY <1>3, <1>4
<1> HIDE DEF shown, status
<1>7. CASE v = "verification" /\ known # DOMAIN told
  <2>1. AnswerOf(v, load, clock) = [outcome |-> "unavailable", filters |-> load.filters]
    BY <1>7 DEF AnswerOf, told, known
  <2> QED
    BY <1>1, <2>1 DEF CertificateAnswer
<1>8. CASE ~(v = "verification" /\ known # DOMAIN told)
  <2>1. AnswerOf(v, load, clock)
          = [outcome |-> "answered", filters |-> load.filters,
             status |-> status, unresolved |-> DOMAIN told \ known]
    BY <1>8 DEF AnswerOf, told, known, shown, status
  <2>2. DOMAIN told \ known \in SUBSET Certificates
    BY <1>1, <1>3
  <2> QED
    BY <1>1, <1>5, <1>6, <2>1, <2>2 DEF CertificateAnswer, AnswerAbout
<1> QED
  BY <1>7, <1>8

LEMMA ReadCertificatesKeeps ==
    ASSUME ReadInv, NEW v \in Views, NEW i \in Loads(v), ReadCertificates(v, i)
    PROVE  ReadInv'
<1> DEFINE load == view[v].loads[i]
           on == [load EXCEPT !.step = "events"]
<1>1. /\ load \in Reading
      /\ Truthful(load)
      /\ v \in open \cap Filtered => ForFilters(load)
  BY LoadFacts
<1>2. CASE Goes(v, i, on)
  <2> HIDE DEF load
  <2>1. /\ on \in Reading
        /\ on.step = "events"
        /\ \A field \in {"filters", "read", "clock", "had", "late"} : on[field] = load[field]
    BY <1>1 DEF Reading
  <2>2. Truthful(on) /\ (v \in open \cap Filtered => ForFilters(on))
    BY <1>1, <2>1 DEF Truthful, ToldOf, ForFilters
  <2> HIDE DEF on
  <2> QED
    BY <1>2, <2>1, <2>2, GoesKeeps
<1>3. load.filters \in Filters
  BY <1>1 DEF Reading
<1>4. ASSUME AnswersWith(v, i, [outcome |-> "not_found", filters |-> load.filters])
      PROVE  ReadInv'
  <2>1. [outcome |-> "not_found", filters |-> load.filters] \in CertificateAnswer
    BY <1>3 DEF CertificateAnswer
  <2> QED
    BY <1>4, <2>1, AnswersKeep
<1>5. ASSUME AnswersWith(v, i, [outcome |-> "answered", filters |-> load.filters,
                                status |-> <<>>, unresolved |-> {}])
      PROVE  ReadInv'
  <2>1. [outcome |-> "answered", filters |-> load.filters, status |-> <<>>, unresolved |-> {}]
           \in CertificateAnswer
    BY <1>3, NoLoads DEF CertificateAnswer, AnswerAbout
  <2> QED
    BY <1>5, <2>1, NoLoads, AnswersKeep
<1> QED
  BY <1>2, <1>4, <1>5 DEF ReadCertificates

LEMMA ReadEventsKeeps ==
    ASSUME ReadInv, NEW v \in Views, NEW i \in Loads(v), ReadEvents(v, i)
    PROVE  ReadInv'
<1> DEFINE load == view[v].loads[i]
           read == [c \in Asked(v) |-> StatusRead(c)]
           on == [load EXCEPT !.step = "details", !.read = read]
<1>1. /\ load \in Reading
      /\ Truthful(load)
      /\ v \in open \cap Filtered => ForFilters(load)
  BY LoadFacts
<1>2. Asked(v) \subseteq Certificates
  BY CertificateReadingAssumption DEF Asked
<1>3. \A c \in Asked(v) : /\ RecordedStatus(c) \in CertificateLifecycleStatus
                          /\ RecordedStatus(c) \in load.had[c]
  BY <1>1, <1>2, ExpiryIsNotRecorded DEF ReadInv, Truthful
<1>4. read \in Read /\ DOMAIN read = Asked(v)
  BY <1>2, <1>3 DEF Read, StatusRead
<1>5. \A c \in DOMAIN read : read[c] \in load.had[c] \cup {Unreadable}
  BY <1>3 DEF StatusRead
<1>6. Goes(v, i, on)
  BY DEF ReadEvents
<1> HIDE DEF load, read
<1>7. /\ on \in Reading
      /\ on.step = "details" /\ on.read = read
      /\ \A field \in {"filters", "clock", "had", "late"} : on[field] = load[field]
  BY <1>1, <1>4 DEF Reading
<1>8. Truthful(on) /\ (v \in open \cap Filtered => ForFilters(on))
  BY <1>1, <1>2, <1>4, <1>5, <1>7 DEF Truthful, ToldOf, ForFilters
<1> HIDE DEF on
<1> QED
  BY <1>6, <1>7, <1>8, GoesKeeps

LEMMA ResolveKeeps ==
    ASSUME ReadInv, NEW v \in Views, NEW i \in Loads(v), Resolve(v, i)
    PROVE  ReadInv'
<1> DEFINE load == view[v].loads[i]
           clock == IF v = "verification" THEN load.clock ELSE lapsed
           answer == AnswerOf(v, load, clock)
           on == [load EXCEPT !.step = "answered", !.clock = clock, !.answer = answer]
<1>1. /\ load \in Reading
      /\ Truthful(load)
      /\ v \in open \cap Filtered => ForFilters(load)
  BY LoadFacts
<1>2. clock \in SUBSET lapsed /\ load.late \subseteq clock
  BY <1>1 DEF Truthful
<1>3. lapsed \subseteq Certificates
  BY CertificateLifecycleAssumption DEF ReadInv, Inv, TypeOK
<1>4. Goes(v, i, on)
  BY DEF Resolve
<1> HIDE DEF load, clock
<1>5. /\ answer \in CertificateAnswer
      /\ answer.filters = load.filters
      /\ answer.outcome = "answered" =>
            \A c \in DOMAIN answer.status : ToldOf(load, c, answer.status[c])
  BY <1>1, <1>2, AnswerIsTrue
<1> HIDE DEF answer
<1>6. /\ on \in Reading
      /\ on.step = "answered" /\ on.clock = clock /\ on.answer = answer
      /\ \A field \in {"filters", "read", "had", "late"} : on[field] = load[field]
  BY <1>1, <1>2, <1>3, <1>5 DEF Reading
<1>7. Truthful(on) /\ (v \in open \cap Filtered => ForFilters(on))
  BY <1>1, <1>2, <1>5, <1>6 DEF Truthful, ToldOf, ForFilters
<1> HIDE DEF on
<1> QED
  BY <1>4, <1>6, <1>7, GoesKeeps

LEMMA QueryFailsKeeps ==
    ASSUME ReadInv, NEW v \in Views, NEW i \in Loads(v), QueryFails(v, i)
    PROVE  ReadInv'
<1> DEFINE answer == [outcome |-> IF v = "verification" THEN "unavailable" ELSE "error",
                      filters |-> view[v].loads[i].filters]
<1>1. view[v].loads[i].filters \in Filters
  BY LoadFacts DEF Reading
<1>2. answer \in CertificateAnswer /\ answer.outcome # "answered"
  BY <1>1 DEF CertificateAnswer
<1> QED
  BY <1>2, AnswersKeep DEF QueryFails

\* The one request of a view reaches it, with an answer or an error.
LEMMA EndsKeep ==
    ASSUME ReadInv, NEW v \in Views, NEW w \in ViewOf(Reading, CertificateAnswer),
           w.loads = <<>>,
           v \in open \cap Filtered /\ ~w.failed => w.shown.filters = filters,
           ViewBecomes(v, w)
    PROVE  ReadInv'
<1>1. Sound(v, w)
  BY DEF Sound
<1> QED
  BY <1>1, ViewKeeps

LEMMA FailedKeeps ==
    ASSUME ReadInv, NEW v \in Views, NEW i \in Loads(v),
           ViewBecomes(v, FailedLoad(view[v], i))
    PROVE  ReadInv'
<1> DEFINE w == FailedLoad(view[v], i)
<1>1. view[v] \in ViewOf(Reading, CertificateAnswer)
  BY DEF ReadInv, ReadingTypeOK
<1>2. RemoveAt(view[v].loads, i) = <<>>
  BY LoadFacts, OnlyOneRemoved
<1>3. w = [view[v] EXCEPT !.loads = <<>>, !.loading = FALSE, !.failed = TRUE]
  BY <1>2 DEF FailedLoad
<1>4. w \in ViewOf(Reading, CertificateAnswer) /\ w.loads = <<>> /\ w.failed
  BY <1>1, <1>3, NoLoadIsASequence DEF ViewOf
<1> HIDE DEF w
<1> QED
  BY <1>4, EndsKeep DEF w

LEMMA LandedKeeps ==
    ASSUME ReadInv, NEW v \in Views, NEW i \in Loads(v), NEW answer \in CertificateAnswer,
           v \in open \cap Filtered => answer.filters = filters,
           ViewBecomes(v, Landed(view[v], i, answer))
    PROVE  ReadInv'
<1> DEFINE w == Landed(view[v], i, answer)
<1>1. view[v] \in ViewOf(Reading, CertificateAnswer)
  BY DEF ReadInv, ReadingTypeOK
<1>2. RemoveAt(view[v].loads, i) = <<>>
  BY LoadFacts, OnlyOneRemoved
<1>3. w = [view[v] EXCEPT !.loads = <<>>, !.loading = FALSE, !.shown = answer]
  BY <1>2 DEF Landed
<1>4. w \in ViewOf(Reading, CertificateAnswer) /\ w.loads = <<>> /\ w.shown = answer
  BY <1>1, <1>3, NoLoadIsASequence DEF ViewOf
<1> HIDE DEF w
<1> QED
  BY <1>4, EndsKeep DEF w

LEMMA ArriveKeeps ==
    ASSUME ReadInv, NEW v \in Views, NEW i \in Loads(v),
           Arrive(v, i) \/ NetworkFails(v, i)
    PROVE  ReadInv'
<1> DEFINE answer == view[v].loads[i].answer
           lost == [outcome |-> "unavailable", filters |-> NoFilter]
<1>1. CASE Arrive(v, i) /\ answer.outcome # "error"
  <2>1. answer \in CertificateAnswer
    BY <1>1, LoadFacts DEF Arrive, Truthful
  <2>2. v \in open \cap Filtered => answer.filters = filters
    BY <1>1, LoadFacts DEF Arrive, ForFilters
  <2> QED
    BY <1>1, <2>1, <2>2, LandedKeeps DEF Arrive
<1>2. CASE NetworkFails(v, i) /\ v = "verification"
  <2>1. lost \in CertificateAnswer
    BY CertificateReadingAssumption DEF CertificateAnswer
  <2> QED
    BY <1>2, <2>1, LandedKeeps DEF NetworkFails, Filtered
<1> QED
  BY <1>1, <1>2, FailedKeeps DEF Arrive, NetworkFails

LEMMA SettlesKeeps ==
    ASSUME ReadInv, NEW v \in Views, AbortSettles(v)
    PROVE  ReadInv'
<1> DEFINE w == Settled(view[v])
<1>1. view[v] \in ViewOf(Reading, CertificateAnswer) /\ view[v].aborted - 1 \in Nat
  BY DEF ReadInv, ReadingTypeOK, ViewOf, AbortSettles
<1>2. /\ w \in ViewOf(Reading, CertificateAnswer)
      /\ w.loads = view[v].loads /\ w.failed = view[v].failed /\ w.shown = view[v].shown
  BY <1>1 DEF Settled, ViewOf
<1>3. ViewBecomes(v, w)
  BY DEF AbortSettles
<1> HIDE DEF w
<1>4. Sound(v, w)
  BY <1>2 DEF ReadInv, Sound
<1> QED
  BY <1>2, <1>3, <1>4, ViewKeeps

\* A view that sends a new request, for the filters it is to show.
LEMMA ReloadedFacts ==
    ASSUME NEW x \in ViewOf(Reading, CertificateAnswer), NEW load \in Reading
    PROVE  /\ Reloaded(x, load) \in ViewOf(Reading, CertificateAnswer)
           /\ Reloaded(x, load).loads = <<load>>
<1>1. x.aborted + Len(x.loads) \in Nat
  BY DEF ViewOf
<1>2. Reloaded(x, load) = [x EXCEPT !.loads = <<load>>, !.aborted = x.aborted + Len(x.loads),
                                    !.loading = TRUE, !.failed = FALSE]
  BY DEF Reloaded, ViewOf
<1>3. <<load>> \in Seq(Reading)
  BY OneLoadIsASequence
<1> QED
  BY <1>1, <1>2, <1>3 DEF ViewOf

LEMMA SetFiltersKeeps ==
    ASSUME ReadInv, NEW f \in Filters, SetFilters(f)
    PROVE  ReadInv'
<1>1. PICK load \in Reading :
        load = Begun(f) /\ Truthful(load) /\ load.filters = f /\ load.step = "certificates"
  BY BegunIsTrue DEF ReadInv
<1>2. /\ UNCHANGED <<vars, open>> /\ filters' = f
      /\ view' = [v \in Views |-> IF v \in open \cap Filtered THEN Reloaded(view[v], load)
                                  ELSE view[v]]
      /\ view \in [Views -> ViewOf(Reading, CertificateAnswer)]
  BY <1>1 DEF SetFilters, ReadInv, ReadingTypeOK
<1>3. Inv'
  BY <1>2, InvNext DEF ReadInv
<1>4. ReadingTypeOK'
  BY <1>1, <1>2, <1>3, ReloadedFacts DEF ReadInv, ReadingTypeOK, Inv
<1>5. Truthful(load)' /\ ForFilters(load)'
  BY <1>1, <1>2 DEF Truthful, ToldOf, ForFilters, RecordedStatus, vars, rows
<1>6. ASSUME NEW v \in Views PROVE Sound(v, view[v])'
  <2>1. CASE v \in open \cap Filtered
    <3>1. view'[v].loads = <<load>>
      BY <1>1, <1>2, <2>1, ReloadedFacts
    <3> QED
      BY <1>1, <1>5, <3>1, OneLoadIsASequence DEF Sound
  <2>2. CASE v \notin open \cap Filtered
    <3>1. view'[v] = view[v] /\ Sound(v, view[v])
      BY <1>2, <2>2 DEF ReadInv
    <3> QED
      BY <1>2, <2>2, <3>1
         DEF Sound, Truthful, ToldOf, RecordedStatus, vars, rows
  <2> QED
    BY <2>1, <2>2
<1> QED
  BY <1>3, <1>4, <1>6 DEF ReadInv

\* The views that do not follow the filters leave with the filters there are.
LEMMA OthersReload ==
    ASSUME ReadInv, Reopen \/ RequestExport
    PROVE  ReadInv'
<1>1. \A f \in Filters : Begun(f) \in Reading /\ Truthful(Begun(f))
  BY BegunIsTrue DEF ReadInv
<1>2. NoFilter \in Filters /\ filters \in Filters
  BY CertificateReadingAssumption DEF ReadInv, ReadingTypeOK
<1>3. /\ Unused \in ViewOf(Reading, CertificateAnswer)
      /\ view["export"] \in ViewOf(Reading, CertificateAnswer)
  BY NoLoadIsASequence DEF Unused, ViewOf, ReadInv, ReadingTypeOK, Views
<1>4. ASSUME NEW v \in Views \ Filtered, NEW x \in ViewOf(Reading, CertificateAnswer),
             NEW load \in Reading, Truthful(load), ViewBecomes(v, Reloaded(x, load))
      PROVE  ReadInv'
  <2>1. /\ Reloaded(x, load) \in ViewOf(Reading, CertificateAnswer)
        /\ Reloaded(x, load).loads = <<load>>
    BY ReloadedFacts
  <2>2. Sound(v, Reloaded(x, load))
    BY <1>4, <2>1, OneLoadIsASequence DEF Sound
  <2> QED
    BY <1>4, <2>1, <2>2, ViewKeeps
<1>5. "verification" \in Views \ Filtered /\ "export" \in Views \ Filtered
  BY DEF Views, Filtered
<1> QED
  BY <1>1, <1>2, <1>3, <1>4, <1>5 DEF Reopen, RequestExport

\* What corrections and time bring never makes untrue what a reading knows.
LEMMA WitnessedIsTrue ==
    ASSUME Inv, [Next]_vars, NEW load \in Reading, Truthful(load)
    PROVE  \E seen \in Reading :
              /\ seen = Witnessed(load)
              /\ Truthful(seen)'
              /\ \A field \in {"step", "filters", "answer"} : seen[field] = load[field]
<1>1. \A c \in Certificates :
         RecordedStatus(c)' \in CertificateLifecycleStatus \ {"expired"}
  <2>1. TAKE c \in Certificates
  <2>2. /\ lifecycle'[c] \in Seq(Event) /\ decisions'[c] \in Seq(Decision)
        /\ Agree(lifecycle'[c], decisions'[c])
    BY InvNext DEF Inv, TypeOK, HistoriesAgree, Agree
  <2> QED
    BY <2>2, ExpiryIsNotDecided DEF RecordedStatus
<1>2. lapsed \subseteq lapsed'
  BY DEF Next, Receive, LockCertificate, Judge, ShareReplacement, AbortDeadlocked, Commit,
     WriteAudit, Respond, Lose, Lapse, Become, Answer, vars
<1>3. PICK had \in [Certificates -> SUBSET CertificateLifecycleStatus] :
         \A c \in Certificates : had[c] = load.had[c] \cup {RecordedStatus(c)'}
  <2>1. \A c \in Certificates :
           load.had[c] \cup {RecordedStatus(c)'} \in SUBSET CertificateLifecycleStatus
    BY <1>1 DEF Reading
  <2>2. [c \in Certificates |-> load.had[c] \cup {RecordedStatus(c)'}]
           \in [Certificates -> SUBSET CertificateLifecycleStatus]
    BY <2>1
  <2> QED
    BY <2>2
<1>4. PICK seen : seen = [load EXCEPT !.had = had]
  OBVIOUS
<1>5. /\ seen \in Reading
      /\ seen.had = had
      /\ \A field \in {"step", "filters", "read", "clock", "answer", "late"} :
            seen[field] = load[field]
  BY <1>3, <1>4 DEF Reading
<1>6. seen = Witnessed(load)
  <2>1. had = [c \in Certificates |-> load.had[c] \cup {RecordedStatus(c)'}]
    BY <1>3
  <2> QED
    BY <1>4, <2>1 DEF Witnessed, Reading
<1>7. Truthful(seen)'
  <2>1. \A c \in Certificates :
           RecordedStatus(c)' \in seen.had[c] /\ "expired" \notin seen.had[c]
    BY <1>1, <1>3, <1>5 DEF Truthful
  <2>2. /\ seen.late \subseteq seen.clock
        /\ seen.clock \subseteq lapsed'
        /\ DOMAIN seen.read \subseteq Certificates
    BY <1>2, <1>5 DEF Truthful
  <2>3. \A c \in DOMAIN seen.read : seen.read[c] \in seen.had[c] \cup {Unreadable}
    BY <1>3, <1>5 DEF Truthful
  <2>4. ASSUME seen.step = "answered"
        PROVE  seen.answer \in CertificateAnswer
    BY <1>5, <2>4 DEF Truthful
  <2>5. ASSUME seen.step = "answered", seen.answer.outcome = "answered",
               NEW c \in DOMAIN seen.answer.status
        PROVE  ToldOf(seen, c, seen.answer.status[c])'
    <3>1. ToldOf(load, c, load.answer.status[c]) /\ seen.answer = load.answer
      BY <1>5, <2>5 DEF Truthful
    <3>2. c \in Certificates
      BY <1>5, <2>4, <2>5 DEF CertificateAnswer, AnswerAbout, Read
    <3> QED
      BY <1>2, <1>3, <1>5, <3>1, <3>2 DEF ToldOf
  <2> QED
    BY <2>1, <2>2, <2>3, <2>4, <2>5 DEF Truthful
<1> QED
  BY <1>5, <1>6, <1>7

LEMMA WorldKeeps ==
    ASSUME ReadInv, World
    PROVE  ReadInv'
<1>1. /\ Next
      /\ UNCHANGED <<open, filters>>
      /\ view' = [v \in Views |-> [view[v] EXCEPT
                    !.loads = [i \in DOMAIN view[v].loads |-> Witnessed(view[v].loads[i])]]]
      /\ view \in [Views -> ViewOf(Reading, CertificateAnswer)]
  BY DEF World, ReadInv, ReadingTypeOK
<1>2. Inv'
  BY <1>1, InvNext DEF ReadInv
<1>3. ASSUME NEW v \in Views
      PROVE  /\ view'[v] \in ViewOf(Reading, CertificateAnswer)
             /\ Sound(v, view[v])'
  <2> DEFINE loads == [i \in DOMAIN view[v].loads |-> Witnessed(view[v].loads[i])]
  <2>1. /\ view[v] \in ViewOf(Reading, CertificateAnswer)
        /\ view'[v] = [view[v] EXCEPT !.loads = loads]
    BY <1>1
  <2>2. CASE view[v].loads = <<>>
    <3>1. loads = <<>>
      BY <2>2
    <3> HIDE DEF loads
    <3>2. view'[v] = [view[v] EXCEPT !.loads = <<>>]
      BY <2>1, <3>1
    <3>3. view'[v] = view[v]
      BY <2>1, <2>2, <3>2 DEF ViewOf
    <3> QED
      BY <1>1, <2>1, <2>2, <3>3 DEF ReadInv, Sound
  <2>3. CASE view[v].loads # <<>>
    <3>1. PICK load \in Reading :
            /\ view[v].loads = <<load>>
            /\ Truthful(load)
            /\ v \in open \cap Filtered => ForFilters(load)
      BY <2>3 DEF ReadInv, Sound
    <3>2. PICK seen \in Reading :
            /\ seen = Witnessed(load)
            /\ Truthful(seen)'
            /\ \A field \in {"step", "filters", "answer"} : seen[field] = load[field]
      BY <1>1, <3>1, WitnessedIsTrue DEF ReadInv
    <3>3. loads = <<seen>>
      BY <3>1, <3>2
    <3> HIDE DEF loads
    <3>4. view'[v] \in ViewOf(Reading, CertificateAnswer) /\ view'[v].loads = <<seen>>
      BY <2>1, <3>3, OneLoadIsASequence DEF ViewOf
    <3>5. (v \in open \cap Filtered => ForFilters(seen))'
      BY <1>1, <3>1, <3>2 DEF ForFilters
    <3> QED
      BY <3>2, <3>4, <3>5, OneLoadIsASequence DEF Sound
  <2> QED
    BY <2>2, <2>3
<1>4. view' \in [Views -> ViewOf(Reading, CertificateAnswer)]
  <2> DEFINE Next1(v) == [view[v] EXCEPT
                !.loads = [i \in DOMAIN view[v].loads |-> Witnessed(view[v].loads[i])]]
  <2>1. view' = [v \in Views |-> Next1(v)]
    BY <1>1
  <2> HIDE DEF Next1
  <2> QED
    BY <1>3, <2>1
<1> QED
  BY <1>1, <1>2, <1>3, <1>4 DEF ReadInv, ReadingTypeOK, Inv

LEMMA ReadInvNext == ReadInv /\ [ReadingNext]_allVars => ReadInv'
<1> SUFFICES ASSUME ReadInv, [ReadingNext]_allVars PROVE ReadInv'
  OBVIOUS
<1>1. CASE UNCHANGED allVars
  <2>1. Inv'
    BY <1>1, InvNext DEF ReadInv, allVars
  <2>2. ASSUME NEW v \in Views PROVE Sound(v, view[v])'
    BY <1>1 DEF ReadInv, allVars, readerVars, Sound, Truthful, ForFilters, ToldOf,
       RecordedStatus, vars, rows
  <2> QED
    BY <1>1, <2>1, <2>2 DEF ReadInv, ReadingTypeOK, Inv, allVars, readerVars
<1> QED
  BY <1>1, WorldKeeps, ReadCertificatesKeeps, ReadEventsKeeps, ResolveKeeps, QueryFailsKeeps,
     ArriveKeeps, SettlesKeeps, SetFiltersKeeps, OthersReload DEF ReadingNext

LEMMA ReadInvariance == ReadingSpec => []ReadInv
BY ReadInvInit, ReadInvNext, PTL DEF ReadingSpec

\* The type invariant of readings, and of what they leave in the views.
THEOREM ReadingTypeCorrect == ReadingSpec => []ReadingTypeOK
BY ReadInvariance, PTL DEF ReadInv

\* Each status a reading tells was so at a moment of its request, whatever
\* corrections, expiry and its own queries do to each other.
THEOREM AlwaysToldAsItWas == ReadingSpec => []ToldAsItWas
<1>1. ReadInv => ToldAsItWas
  <2> SUFFICES ASSUME ReadInv, NEW v \in Views, NEW i \in Loads(v),
                      view[v].loads[i].step = "answered",
                      view[v].loads[i].answer.outcome = "answered",
                      NEW c \in DOMAIN view[v].loads[i].answer.status
               PROVE  ToldOf(view[v].loads[i], c, view[v].loads[i].answer.status[c])
    BY DEF ToldAsItWas, ToldOf
  <2> QED
    BY LoadFacts DEF Truthful
<1> QED
  BY <1>1, ReadInvariance, PTL

\* What a filtered view shows when nothing is under way is an answer to the
\* filters it shows.
THEOREM FiltersAreAnswered == ReadingSpec => []ShowsItsFilters
<1>1. ReadInv => ShowsItsFilters
  BY DEF ReadInv, Sound, ShowsItsFilters, Filtered, Views
<1> QED
  BY <1>1, ReadInvariance, PTL

\* Reading does not disturb corrections: every theorem about them holds under
\* the readers, that they implement CertificateStatus among them.
THEOREM ImplementsUnderReaders == ReadingSpec => ImplementsStatus
BY ReadersLookOn, Implements
=============================================================================

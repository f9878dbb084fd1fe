------------------------ MODULE CertificateIssuance ------------------------
(***************************************************************************)
(* Issuance of certificates (services/api/src/certificate-issuance.ts,     *)
(* certificate-eligibility.ts, and certificate_issue of migration          *)
(* 20260813000900) while administrators correct Evidence and edit          *)
(* Certificate Definitions.                                                *)
(*                                                                         *)
(* The surroundings are the abstract specifications of the two components: *)
(* a correction is a step of EvidenceTrust, an authoring write is a step   *)
(* of DefinitionRows.  A request is one round trip after another up to     *)
(* certificate_issue, whose transaction is two steps: IssueCheck locks the *)
(* definition row and verifies, IssueInsert writes and commits.  Nothing   *)
(* locks Evidence in between.                                              *)
(***************************************************************************)
EXTENDS EvidenceTrust, DefinitionRows

CONSTANTS
    Students, Requests,
    Owner,             \* [Evidence -> Students]
    Positive,          \* Evidence whose source engine recorded a positive result
    Source,            \* [Evidence -> Policies]: a policy asks for one record of it
    Links,             \* Evidence and competencies that may be linked
    Asks,              \* issuances students may ask for
    Moves,             \* publication state changes administrators make
    Writes,            \* authoring writes that may happen
    Corrections,       \* corrections that may happen, each of a record
    MaxCorrections,    \* bound on the corrections of one record
    NoRequest          \* the definition row is locked by nobody

Subject == [student : Students, definition : Definitions]

ASSUME CertificateIssuanceAssumption ==
    /\ Owner \in [Evidence -> Students]
    /\ Positive \subseteq Evidence
    /\ Source \in [Evidence -> Policies]
    /\ Links \subseteq Evidence \X Competencies
    /\ Asks \subseteq Subject
    /\ Moves \subseteq DefinitionState \X DefinitionState
    /\ Writes \subseteq Definitions \X Patch
    /\ Corrections \subseteq Evidence \X CorrectionAction
    /\ MaxCorrections \in Nat
    /\ Absent \notin Row
    /\ NoRequest \notin Requests

VARIABLES
    links,           \* evidence_competency_links
    certificates,    \* certificates with their snapshots
    lock,            \* [Definitions -> Requests \cup {NoRequest}]: row locks
    audit,           \* certificate.issued audit events, oldest first
    req              \* [Requests -> request]: where each issuance stands

rowVars == <<row, lock>>
evidenceVars == <<trust, review, spent, corrections, links>>
vars == <<evidenceVars, rowVars, certificates, audit, req>>

\* What an issuance has read so far: the definition's issuability, its
\* requirements, the competencies not asked about yet, the Evidence that
\* qualified for each competency, whether relevant Evidence was under review,
\* and the correction counts pinned for the transaction.
Progress ==
    [issuable : BOOLEAN, requires : SUBSET Competencies, policies : SUBSET Policies,
     pending : SUBSET Competencies, found : SUBSET (Evidence \X Competencies),
     disputed : BOOLEAN, pins : [Evidence -> Nat]]

NoProgress ==
    [issuable |-> FALSE, requires |-> {}, policies |-> {}, pending |-> {}, found |-> {},
     disputed |-> FALSE, pins |-> [e \in Evidence |-> 0]]

Certificate ==
    [student : Students, definition : Definitions, competencies : SUBSET Competencies,
     evidence : SUBSET (Evidence \X Competencies)]

Step == {"lookup", "definition", "eligibility", "requirements", "references",
         "pins", "check", "insert", "load"}

Answers == {"alreadyIssued", "issued", "refused"}

Idle == [step |-> "idle"]

Request ==
    {Idle} \cup [step : Step, subject : Subject, progress : Progress]
           \cup [step : {"answered"}, subject : Subject, answer : Answers]

TypeOK ==
    /\ trust \in [Evidence -> EvidenceState] /\ review \in [Evidence -> BOOLEAN]
    /\ corrections \in [Evidence -> Nat]
    /\ row \in [Definitions -> Row \cup {Absent}]
    /\ links \in SUBSET Links
    /\ certificates \in SUBSET Certificate
    /\ lock \in [Definitions -> Requests \cup {NoRequest}]
    /\ audit \in Seq(Subject)
    /\ req \in [Requests -> Request]

-----------------------------------------------------------------------------
Init ==
    /\ AbsInit
    /\ RowsInit
    /\ links = {}
    /\ certificates = {}
    /\ lock = [d \in Definitions |-> NoRequest]
    /\ audit = <<>>
    /\ req = [r \in Requests |-> Idle]

SubjectOf(r) == req[r].subject
Definition(r) == req[r].subject.definition
Read(r) == req[r].progress

Holds(subject) ==
    \E c \in certificates :
        c.student = subject.student /\ c.definition = subject.definition

At(r, step) == req[r].step = step

Answer(r, answer) ==
    /\ req' = [req EXCEPT ![r] =
                 [step |-> "answered", subject |-> SubjectOf(r), answer |-> answer]]
    /\ UNCHANGED <<evidenceVars, rowVars, certificates, audit>>

Advance(r, step, progress) ==
    /\ req' = [req EXCEPT ![r].step = step, ![r].progress = progress]
    /\ UNCHANGED <<evidenceVars, rowVars, certificates, audit>>

\* resolveDefinitionId: a definition that does not exist is not found.
Begin(r, subject) ==
    /\ req[r] = Idle
    /\ Exists(subject.definition)
    /\ req' = [req EXCEPT ![r] =
                 [step |-> "lookup", subject |-> subject, progress |-> NoProgress]]
    /\ UNCHANGED <<evidenceVars, rowVars, certificates, audit>>

FindExisting(r) ==
    /\ At(r, "lookup")
    /\ IF Holds(SubjectOf(r))
       THEN Answer(r, "alreadyIssued")
       ELSE Advance(r, "definition", NoProgress)

\* The definition is read here for the decision, and again for eligibility.
ReadDefinition(r) ==
    LET d == row[Definition(r)]
    IN  /\ At(r, "definition")
        /\ Advance(r, "eligibility", [Read(r) EXCEPT
               !.issuable = d.state = "published" /\ d.successor = NoDefinition])

ReadEligibilityRow(r) ==
    /\ At(r, "eligibility")
    /\ IF row[Definition(r)].state = "published"
       THEN Advance(r, "requirements", Read(r))
       ELSE Answer(r, "refused")

ReadRequirements(r) ==
    LET d == row[Definition(r)]
    IN  /\ At(r, "requirements")
        /\ Advance(r, "references", [Read(r) EXCEPT
               !.requires = d.requires, !.policies = d.policies,
               !.pending = d.requires])

\* Mutant: the links are not filtered by user.
LinkedByAnyone(student, c) == {e \in Evidence : <<e, c>> \in links}

\* getAuthoritativeCompetencyEvidenceReferences for one competency.
Linked(student, c) == {e \in Evidence : <<e, c>> \in links /\ Owner[e] = student}

Qualifies(e) == e \in Positive /\ trust[e] = "active"

ReadReferences(r) ==
    /\ At(r, "references")
    /\ \E c \in Read(r).pending :
          LET linked == Linked(SubjectOf(r).student, c)
          IN  Advance(r, "references", [Read(r) EXCEPT
                  !.pending = @ \ {c},
                  !.found = @ \cup {<<e, c>> : e \in {f \in linked : Qualifies(f)}},
                  !.disputed = @ \/ \E e \in linked : review[e]])

\* evaluateCertificateEligibility and decideCertificateIssuance.
Eligible(progress) ==
    /\ ~progress.disputed
    /\ \A c \in progress.requires : \E e \in Evidence : <<e, c>> \in progress.found
    /\ \A p \in progress.policies :
          \E e \in Evidence, c \in Competencies :
              <<e, c>> \in progress.found /\ Source[e] = p

Decide(r) ==
    /\ At(r, "references")
    /\ Read(r).pending = {}
    /\ IF Read(r).issuable /\ Eligible(Read(r))
       THEN Advance(r, "pins", Read(r))
       ELSE Answer(r, "refused")

\* readEvidencePins: state, integrity and result never change, so the number
\* of corrections is the only observation that can differ later.
ReadPins(r) ==
    /\ At(r, "pins")
    /\ Advance(r, "check", [Read(r) EXCEPT !.pins = corrections])

Relied(progress) == {e \in Evidence : \E c \in Competencies : <<e, c>> \in progress.found}

Drifted(progress) == \E e \in Relied(progress) : corrections[e] # progress.pins[e]

Issuable(d) == row[d].state = "published" /\ row[d].successor = NoDefinition

\* Mutant: the definition is read without FOR UPDATE.
CheckWithoutLock(r) ==
    /\ At(r, "check")
    /\ Issuable(Definition(r)) /\ ~Holds(SubjectOf(r)) /\ ~Drifted(Read(r))
    /\ Advance(r, "insert", Read(r))

\* certificate_issue, steps 1 to 5: the definition is locked and must be
\* issuable now, an existing certificate is returned, and Evidence corrected
\* since it was pinned aborts the transaction.
IssueCheck(r) ==
    LET d == Definition(r)
    IN  /\ At(r, "check")
        /\ lock[d] = NoRequest
        /\ \/ /\ ~Issuable(d) \/ (~Holds(SubjectOf(r)) /\ Drifted(Read(r)))
              /\ Answer(r, "refused")
           \/ /\ Issuable(d) /\ Holds(SubjectOf(r))
              /\ Advance(r, "load", Read(r))
           \/ /\ Issuable(d) /\ ~Holds(SubjectOf(r)) /\ ~Drifted(Read(r))
              /\ lock' = [lock EXCEPT ![d] = r]
              /\ req' = [req EXCEPT ![r].step = "insert"]
              /\ UNCHANGED <<evidenceVars, row, certificates, audit>>

\* certificate_issue, step 7, and the commit that releases the lock.
IssueInsert(r) ==
    /\ At(r, "insert")
    /\ certificates' = certificates \cup
          {[student |-> SubjectOf(r).student, definition |-> Definition(r),
            competencies |-> Read(r).requires, evidence |-> Read(r).found]}
    /\ lock' = [lock EXCEPT ![Definition(r)] = NoRequest]
    /\ req' = [req EXCEPT ![r].step = "load"]
    /\ UNCHANGED <<evidenceVars, row, audit>>

\* loadCertificateById, then the audit event and the answer.
LoadAndAudit(r) ==
    /\ At(r, "load")
    /\ audit' = Append(audit, SubjectOf(r))
    /\ req' = [req EXCEPT ![r] =
                 [step |-> "answered", subject |-> SubjectOf(r), answer |-> "issued"]]
    /\ UNCHANGED <<evidenceVars, rowVars, certificates>>

Respond(r) ==
    /\ At(r, "answered")
    /\ req' = [req EXCEPT ![r] = Idle]
    /\ UNCHANGED <<evidenceVars, rowVars, certificates, audit>>

\* The request is cut off; an open transaction is rolled back.
Lose(r) ==
    /\ req[r].step \in Step
    /\ req' = [req EXCEPT ![r] = Idle]
    /\ lock' = [d \in Definitions |-> IF lock[d] = r THEN NoRequest ELSE lock[d]]
    /\ UNCHANGED <<evidenceVars, row, certificates, audit>>

\* linkEvidenceToCompetency; a link is never removed.
LinkEvidence(e, c) ==
    /\ <<e, c>> \in Links \ links
    /\ links' = links \cup {<<e, c>>}
    /\ UNCHANGED <<trust, review, spent, corrections, rowVars, certificates, audit, req>>

CorrectEvidence(e, action) ==
    /\ corrections[e] < MaxCorrections
    /\ Correct(e, action, NoKey)
    /\ UNCHANGED <<links, rowVars, certificates, audit, req>>

\* An authoring write, as administrators who do not race one another make it;
\* it waits for the row lock like any other UPDATE.
WriteDefinition(d, patch) ==
    /\ lock[d] = NoRequest
    /\ Exists(d)
    /\ Sets(patch, "state") => <<row[d].state, patch.state>> \in Moves
    /\ Sets(patch, "state") /\ patch.state = "published" => row[d].requires # {}
    /\ UpdateRow(d, patch)
    /\ UNCHANGED <<evidenceVars, lock, certificates, audit, req>>

DraftDefinition(d, terms) ==
    /\ CreateRow(d, terms)
    /\ UNCHANGED <<evidenceVars, lock, certificates, audit, req>>

Next ==
    \/ \E r \in Requests :
          \/ \E subject \in Asks : Begin(r, subject)
          \/ FindExisting(r) \/ ReadDefinition(r) \/ ReadEligibilityRow(r)
          \/ ReadRequirements(r) \/ ReadReferences(r) \/ Decide(r) \/ ReadPins(r)
          \/ IssueCheck(r) \/ IssueInsert(r) \/ LoadAndAudit(r)
          \/ Respond(r) \/ Lose(r)
    \/ \E e \in Evidence, c \in Competencies : LinkEvidence(e, c)
    \/ \E correction \in Corrections : CorrectEvidence(correction[1], correction[2])
    \/ \E d \in Definitions, terms \in Terms : DraftDefinition(d, terms)
    \/ \E write \in Writes : WriteDefinition(write[1], write[2])

Spec == Init /\ [][Next]_vars
-----------------------------------------------------------------------------
\* The unique constraint on (user, definition) is a backstop that is never
\* reached: whatever races, nobody is about to insert a second certificate.
ConstraintNeverHit == \A r \in Requests : At(r, "insert") => ~Holds(SubjectOf(r))

\* When a certificate comes into being its definition is published and not
\* superseded: not when it was read, and not when it was checked, but then.
IssuedWhilePublished ==
    [][\A c \in certificates' \ certificates :
          /\ row[c.definition].state = "published"
          /\ row[c.definition].successor = NoDefinition]_vars

\* Nothing is announced that was not issued: every success answer and every
\* audit event is about a certificate that is there.
AnnouncedIsIssued ==
    /\ \A r \in Requests :
          At(r, "answered") /\ req[r].answer \in {"issued", "alreadyIssued"} =>
              Holds(SubjectOf(r))
    /\ \A i \in DOMAIN audit : Holds(audit[i])

\* As long as no definition is reopened after publication, the competencies a
\* certificate names are the ones its published definition requires, although
\* the definition was read several transactions before the certificate existed.
MeetsDefinition ==
    \A c \in certificates :
        row[c.definition].state = "published" =>
            c.competencies = row[c.definition].requires

\* When a certificate comes into being, it names what the definition requires
\* then, whatever administrators did since the requirements were read.
IssuedAsRequired ==
    [][\A c \in certificates' \ certificates :
          c.competencies = row[c.definition].requires]_vars

\* Every competency a certificate names rests on Evidence of the same student,
\* linked to it and positive in outcome.
RestsOnOwnEvidence ==
    \A c \in certificates : \A k \in c.competencies :
        \E e \in Evidence :
            /\ <<e, k>> \in c.evidence \cap links
            /\ Owner[e] = c.student /\ e \in Positive

\* A certificate is announced to the audit log once.
AuditedOnce ==
    \A i, j \in DOMAIN audit : audit[i] = audit[j] => i = j

Confirmed(r) == At(r, "check") /\ At(r, "insert")'

\* The transaction confirms only Evidence that is trusted at that moment.
ConfirmsTrusted ==
    [][\A r \in Requests : Confirmed(r) =>
          \A e \in Relied(Read(r)) : trust[e] = "active"]_vars
=============================================================================

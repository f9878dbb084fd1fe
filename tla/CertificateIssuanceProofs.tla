--------------------- MODULE CertificateIssuanceProofs ---------------------
(***************************************************************************)
(* Theorems about CertificateIssuance, for every set of students, records, *)
(* definitions and requests, and whatever administrators write meanwhile.  *)
(***************************************************************************)
EXTENDS CertificateIssuance, TLAPS

Working(r) == req[r].step \in Step

\* A transaction that is about to insert holds the row lock of its definition.
LocksHeld == \A r \in Requests : At(r, "insert") => lock[Definition(r)] = r

\* What an issuance works on has been created, and rows are never deleted.
SubjectsExist == \A r \in Requests : Working(r) => Exists(Definition(r))

\* Under the lock nothing changes what IssueCheck saw: the definition is still
\* issuable, and the student still has no certificate of it.
InsertIsDue ==
    \A r \in Requests :
        At(r, "insert") => Issuable(Definition(r)) /\ ~Holds(SubjectOf(r))

\* What qualified while it was read is the student's, positive, and linked.
FoundIsOwn ==
    \A r \in Requests : Working(r) =>
        \A e \in Evidence, c \in Competencies :
            <<e, c>> \in Read(r).found =>
                <<e, c>> \in links /\ Owner[e] = SubjectOf(r).student /\ e \in Positive

\* After the decision every requirement has something that qualified.
RequiredIsFound ==
    \A r \in Requests : req[r].step \in {"pins", "check", "insert"} =>
        \A c \in Read(r).requires : \E e \in Evidence : <<e, c>> \in Read(r).found

Typed == TypeOK /\ SubjectsExist

-----------------------------------------------------------------------------
LEMMA WorkingRequest ==
    ASSUME TypeOK, NEW r \in Requests, Working(r)
    PROVE  /\ req[r] \in [step : Step, subject : Subject, progress : Progress]
           /\ SubjectOf(r) \in Subject
           /\ Read(r) \in Progress
           /\ Definition(r) \in Definitions
           /\ SubjectOf(r).student \in Students
BY DEF TypeOK, Working, Request, Idle, Step, Answers, SubjectOf, Definition, Read, Subject

LEMMA NoProgressType == NoProgress \in Progress
BY DEF NoProgress, Progress

\* The two ways a request moves on by a read alone.
LEMMA AnswerFacts ==
    ASSUME TypeOK, NEW r \in Requests, Working(r), NEW answer \in Answers, Answer(r, answer)
    PROVE  /\ TypeOK'
           /\ req'[r].step = "answered"
           /\ \A p \in Requests \ {r} : req'[p] = req[p]
           /\ UNCHANGED <<evidenceVars, rowVars, certificates, audit>>
<1>1. [step |-> "answered", subject |-> SubjectOf(r), answer |-> answer] \in Request
  BY WorkingRequest DEF Request
<1> QED
  BY <1>1 DEF Answer, TypeOK, evidenceVars, rowVars

LEMMA AdvanceFacts ==
    ASSUME TypeOK, NEW r \in Requests, Working(r), NEW step \in Step, NEW progress \in Progress,
           Advance(r, step, progress)
    PROVE  /\ TypeOK'
           /\ req'[r] = [step |-> step, subject |-> SubjectOf(r), progress |-> progress]
           /\ \A p \in Requests \ {r} : req'[p] = req[p]
           /\ UNCHANGED <<evidenceVars, rowVars, certificates, audit>>
<1>1. req'[r] = [step |-> step, subject |-> SubjectOf(r), progress |-> progress]
  BY WorkingRequest DEF Advance, SubjectOf, TypeOK
<1>2. req' \in [Requests -> Request]
  BY <1>1, WorkingRequest DEF Advance, Request, TypeOK
<1> QED
  BY <1>1, <1>2 DEF Advance, TypeOK, evidenceVars, rowVars

LEMMA RowType ==
    ASSUME Typed, NEW r \in Requests, Working(r)
    PROVE  row[Definition(r)] \in Row
BY WorkingRequest DEF Typed, SubjectsExist, Exists, TypeOK

LEMMA PatchedType ==
    ASSUME NEW old \in Row, NEW patch \in Patch
    PROVE  Patched(old, patch) \in Row
<1>1. CASE patch \in [state : DefinitionState]
  BY <1>1 DEF Patched, Sets, Row
<1>2. CASE patch \in [terms : Terms]
  BY <1>2 DEF Patched, Sets, Row
<1>3. CASE patch \in [requires : SUBSET Competencies]
  BY <1>3 DEF Patched, Sets, Row
<1>4. CASE patch \in [policies : SUBSET Policies]
  BY <1>4 DEF Patched, Sets, Row
<1>5. CASE patch \in [successor : Definitions]
  BY <1>5 DEF Patched, Sets, Row
<1> QED
  BY <1>1, <1>2, <1>3, <1>4, <1>5 DEF Patch

\* Steps that only read: they give up with an answer, or go on with more read.
Reads(r) ==
    \/ FindExisting(r) \/ ReadDefinition(r) \/ ReadEligibilityRow(r)
    \/ ReadRequirements(r) \/ ReadReferences(r) \/ Decide(r) \/ ReadPins(r)

\* What a reading step may have added to what was read before.
Follows(r, progress) ==
    /\ \A e \in Evidence, c \in Competencies :
          <<e, c>> \in progress.found =>
              \/ <<e, c>> \in Read(r).found
              \/ /\ <<e, c>> \in links
                 /\ Owner[e] = SubjectOf(r).student
                 /\ e \in Positive

LEMMA ReadFacts ==
    ASSUME Typed, NEW r \in Requests, Reads(r)
    PROVE  /\ Working(r)
           /\ \/ \E answer \in Answers :
                    Answer(r, answer) /\ (answer = "refused" \/ Holds(SubjectOf(r)))
              \/ \E step \in Step \ {"insert", "load"}, progress \in Progress :
                    /\ Advance(r, step, progress)
                    /\ Follows(r, progress)
                    /\ step \in {"pins", "check"} =>
                          /\ progress.requires = Read(r).requires
                          /\ progress.found = Read(r).found
                          /\ req[r].step = "pins" \/ Eligible(Read(r))
<1>1. Working(r)
  BY DEF Reads, FindExisting, ReadDefinition, ReadEligibilityRow, ReadRequirements,
     ReadReferences, Decide, ReadPins, At, Working, Step
<1>2. TypeOK /\ Read(r) \in Progress /\ row[Definition(r)] \in Row
      /\ SubjectOf(r).student \in Students
  BY <1>1, WorkingRequest, RowType DEF Typed
<1>3. CASE FindExisting(r)
  BY <1>1, <1>3, NoProgressType DEF FindExisting, Answers, Step, Follows, NoProgress
<1>4. CASE ReadDefinition(r)
  <2> DEFINE d == row[Definition(r)]
             progress == [Read(r) EXCEPT
                 !.issuable = d.state = "published" /\ d.successor = NoDefinition]
  <2>1. progress \in Progress /\ progress.found = Read(r).found
    BY <1>2 DEF Progress
  <2>2. Advance(r, "eligibility", progress)
    BY <1>4 DEF ReadDefinition
  <2>3. Follows(r, progress)
    BY <2>1 DEF Follows
  <2> HIDE DEF progress
  <2> QED
    BY <1>1, <2>1, <2>2, <2>3 DEF Step
<1>5. CASE ReadEligibilityRow(r)
  BY <1>1, <1>2, <1>5 DEF ReadEligibilityRow, Answers, Step, Follows
<1>6. CASE ReadRequirements(r)
  <2> DEFINE d == row[Definition(r)]
             progress == [Read(r) EXCEPT
                 !.requires = d.requires, !.policies = d.policies, !.pending = d.requires]
  <2>1. progress \in Progress /\ progress.found = Read(r).found
    BY <1>2 DEF Progress, Row
  <2>2. Advance(r, "references", progress)
    BY <1>6 DEF ReadRequirements
  <2>3. Follows(r, progress)
    BY <2>1 DEF Follows
  <2> HIDE DEF progress
  <2> QED
    BY <1>1, <2>1, <2>2, <2>3 DEF Step
<1>7. CASE ReadReferences(r)
  <2>1. PICK c \in Read(r).pending :
          LET linked == Linked(SubjectOf(r).student, c)
          IN  Advance(r, "references", [Read(r) EXCEPT
                  !.pending = @ \ {c},
                  !.found = @ \cup {<<e, c>> : e \in {f \in linked : Qualifies(f)}},
                  !.disputed = @ \/ \E e \in linked : review[e]])
    BY <1>7 DEF ReadReferences
  <2> DEFINE linked == Linked(SubjectOf(r).student, c)
             more == {<<e, c>> : e \in {f \in linked : Qualifies(f)}}
             progress == [Read(r) EXCEPT
                  !.pending = @ \ {c},
                  !.found = @ \cup more,
                  !.disputed = @ \/ \E e \in linked : review[e]]
  <2>2. \A e \in linked : e \in Evidence /\ <<e, c>> \in links
                            /\ Owner[e] = SubjectOf(r).student
    BY DEF Linked
  <2>3. \A e, k : <<e, k>> \in more =>
            <<e, k>> \in links /\ Owner[e] = SubjectOf(r).student /\ e \in Positive
    BY <2>2 DEF Qualifies
  <2>4. c \in Competencies
    BY <1>2 DEF Progress
  <2>5. more \subseteq Evidence \X Competencies
    BY <2>2, <2>4
  <2>6. progress.found = Read(r).found \cup more
    BY <1>2 DEF Progress
  <2> HIDE DEF more, linked
  <2>7. progress \in Progress
    <3>1. (Read(r).disputed \/ \E e \in linked : review[e]) \in BOOLEAN
      OBVIOUS
    <3> QED
      BY <1>2, <2>5, <3>1 DEF Progress
  <2> HIDE DEF progress
  <2>8. Follows(r, progress)
    BY <2>3, <2>6 DEF Follows
  <2>9. Advance(r, "references", progress)
    BY <2>1 DEF progress, more, linked
  <2> QED
    BY <1>1, <2>7, <2>8, <2>9 DEF Step
<1>8. CASE Decide(r)
  BY <1>1, <1>2, <1>8 DEF Decide, Answers, Step, Follows
<1>9. CASE ReadPins(r)
  <2> DEFINE progress == [Read(r) EXCEPT !.pins = corrections]
  <2>1. /\ progress \in Progress
        /\ progress.found = Read(r).found
        /\ progress.requires = Read(r).requires
    BY <1>2 DEF Progress, TypeOK
  <2>2. Advance(r, "check", progress) /\ req[r].step = "pins"
    BY <1>9 DEF ReadPins, At
  <2> QED
    BY <1>1, <2>1, <2>2 DEF Step, Follows
<1> QED
  BY <1>3, <1>4, <1>5, <1>6, <1>7, <1>8, <1>9 DEF Reads

Acts(r) ==
    \/ \E subject \in Asks : Begin(r, subject)
    \/ Reads(r)
    \/ IssueCheck(r) \/ IssueInsert(r) \/ LoadAndAudit(r)
    \/ Respond(r) \/ Lose(r)

Starts(r) ==
    /\ req'[r].step = "lookup"
    /\ req'[r] \in [step : Step, subject : Subject, progress : Progress]
    /\ Exists(req'[r].subject.definition)
    /\ req'[r].progress.found = {}

Continues(r) ==
    /\ Working(r)
    /\ req'[r] \in [step : Step, subject : Subject, progress : Progress]
    /\ req'[r].subject = req[r].subject
    /\ Follows(r, req'[r].progress)
    /\ req'[r].step \in {"pins", "check", "insert"} =>
          /\ req'[r].progress.requires = Read(r).requires
          /\ req'[r].progress.found = Read(r).found
          /\ req[r].step \in {"pins", "check"} \/ Eligible(Read(r))

\* Whatever a request does, it does to itself, and it works on one subject
\* from the start to the end.
LEMMA RequestFacts ==
    ASSUME Typed, NEW r \in Requests, Acts(r)
    PROVE  /\ \A p \in Requests \ {r} : req'[p] = req[p]
           /\ req' \in [Requests -> Request]
           /\ UNCHANGED <<evidenceVars, row>>
           /\ \/ ~(req'[r].step \in Step)
              \/ Starts(r)
              \/ Continues(r)
<1> USE DEF Typed
<1>1. ASSUME NEW subject \in Asks, Begin(r, subject)
      PROVE  /\ \A p \in Requests \ {r} : req'[p] = req[p]
             /\ req' \in [Requests -> Request]
             /\ UNCHANGED <<evidenceVars, row>>
             /\ Starts(r)
  <2>1. subject \in Subject
    BY CertificateIssuanceAssumption
  <2>2. req'[r] = [step |-> "lookup", subject |-> subject, progress |-> NoProgress]
    BY <1>1 DEF Begin, TypeOK
  <2>3. req'[r] \in [step : Step, subject : Subject, progress : Progress]
    BY <2>1, <2>2, NoProgressType DEF Step
  <2>4. Starts(r)
    BY <1>1, <2>2, <2>3 DEF Starts, Begin, NoProgress
  <2>5. req' \in [Requests -> Request]
    BY <1>1, <2>2, <2>3 DEF Begin, Request, TypeOK
  <2> QED
    BY <1>1, <2>4, <2>5 DEF Begin, TypeOK, rowVars
<1>2. CASE Reads(r)
  <2>1. Working(r)
    BY <1>2, ReadFacts
  <2>2. ASSUME NEW answer \in Answers, Answer(r, answer)
        PROVE  /\ \A p \in Requests \ {r} : req'[p] = req[p]
               /\ req' \in [Requests -> Request]
               /\ UNCHANGED <<evidenceVars, row>>
               /\ ~(req'[r].step \in Step)
    BY <2>1, <2>2, AnswerFacts DEF TypeOK, Step, rowVars
  <2>3. ASSUME NEW step \in Step \ {"insert", "load"}, NEW progress \in Progress,
               Advance(r, step, progress), Follows(r, progress),
               step \in {"pins", "check"} =>
                  /\ progress.requires = Read(r).requires
                  /\ progress.found = Read(r).found
                  /\ req[r].step = "pins" \/ Eligible(Read(r))
        PROVE  /\ \A p \in Requests \ {r} : req'[p] = req[p]
               /\ req' \in [Requests -> Request]
               /\ UNCHANGED <<evidenceVars, row>>
               /\ Continues(r)
    <3>1. /\ TypeOK'
          /\ req'[r] = [step |-> step, subject |-> SubjectOf(r), progress |-> progress]
          /\ \A p \in Requests \ {r} : req'[p] = req[p]
          /\ UNCHANGED <<evidenceVars, rowVars, certificates, audit>>
      BY <2>1, <2>3, AdvanceFacts
    <3>2. SubjectOf(r) \in Subject
      BY <2>1, WorkingRequest
    <3> QED
      BY <2>1, <2>3, <3>1, <3>2 DEF Continues, TypeOK, rowVars, SubjectOf
  <2> QED
    BY <1>2, <2>2, <2>3, ReadFacts
<1>3. ASSUME NEW step \in {"load", "insert"}, IssueCheck(r) \/ IssueInsert(r),
             req' = [req EXCEPT ![r].step = step],
             step = "insert" => req[r].step = "check"
      PROVE  /\ \A p \in Requests \ {r} : req'[p] = req[p]
             /\ req' \in [Requests -> Request]
             /\ Continues(r)
  <2>1. Working(r)
    BY <1>3 DEF IssueCheck, IssueInsert, At, Working, Step
  <2>2. req[r] \in [step : Step, subject : Subject, progress : Progress]
    BY <2>1, WorkingRequest
  <2>3. req'[r] = [step |-> step, subject |-> SubjectOf(r), progress |-> Read(r)]
    BY <1>3, <2>2 DEF TypeOK, SubjectOf, Read
  <2>4. req'[r] \in [step : Step, subject : Subject, progress : Progress]
    BY <2>2, <2>3 DEF Step, SubjectOf, Read
  <2>5. req' \in [Requests -> Request]
    BY <1>3, <2>4 DEF TypeOK, Request
  <2>6. Continues(r)
    BY <1>3, <2>1, <2>3, <2>4 DEF Continues, Follows, SubjectOf, Read
  <2> QED
    BY <1>3, <2>5, <2>6 DEF TypeOK
<1>4. CASE IssueCheck(r)
  <2>1. Working(r) /\ req[r].step = "check"
    BY <1>4 DEF IssueCheck, At, Working, Step
  <2>2. CASE Answer(r, "refused")
    BY <2>1, <2>2, AnswerFacts DEF TypeOK, Step, rowVars, Answers
  <2>3. CASE Advance(r, "load", Read(r))
    <3>1. req' = [req EXCEPT ![r].step = "load"]
      BY <2>1, <2>3, WorkingRequest DEF Advance, Read, TypeOK
    <3> QED
      BY <1>3, <1>4, <2>3, <3>1 DEF Advance, rowVars
  <2>4. CASE req' = [req EXCEPT ![r].step = "insert"] /\ UNCHANGED <<evidenceVars, row>>
    BY <1>3, <1>4, <2>1, <2>4
  <2> QED
    BY <1>4, <2>2, <2>3, <2>4 DEF IssueCheck
<1>5. CASE IssueInsert(r)
  BY <1>3, <1>5 DEF IssueInsert
<1>6. CASE LoadAndAudit(r)
  <2>1. Working(r)
    BY <1>6 DEF LoadAndAudit, At, Working, Step
  <2>2. [step |-> "answered", subject |-> SubjectOf(r), answer |-> "issued"] \in Request
    BY <2>1, WorkingRequest DEF Request, Answers
  <2> QED
    BY <1>6, <2>2 DEF LoadAndAudit, TypeOK, Step, rowVars
<1>7. CASE Respond(r) \/ Lose(r)
  <2>1. req' = [req EXCEPT ![r] = Idle] /\ UNCHANGED <<evidenceVars, row>>
    BY <1>7 DEF Respond, Lose, rowVars
  <2>2. Idle \in Request /\ ~(Idle.step \in Step)
    BY DEF Idle, Request, Step
  <2> QED
    BY <2>1, <2>2 DEF TypeOK
<1>8. CASE \E subject \in Asks : Begin(r, subject)
  BY <1>1, <1>8
<1> QED
  BY <1>2, <1>4, <1>5, <1>6, <1>7, <1>8 DEF Acts

\* What administrators do, and the linking of Evidence.
Surroundings ==
    \/ \E e \in Evidence, c \in Competencies : LinkEvidence(e, c)
    \/ \E correction \in Corrections : CorrectEvidence(correction[1], correction[2])
    \/ \E d \in Definitions, terms \in Terms : DraftDefinition(d, terms)
    \/ \E write \in Writes : WriteDefinition(write[1], write[2])

LEMMA NextIs == Next => Surroundings \/ \E r \in Requests : Acts(r)
BY DEF Next, Surroundings, Acts, Reads

\* A written row was there and is still there; nobody holds its lock.
LEMMA RowFacts ==
    ASSUME Typed, NEW write \in Writes, WriteDefinition(write[1], write[2])
    PROVE  /\ write[1] \in Definitions
           /\ Exists(write[1])
           /\ lock[write[1]] = NoRequest
           /\ \E new \in Row : row' = [row EXCEPT ![write[1]] = new]
           /\ UNCHANGED <<evidenceVars, lock, certificates, audit, req>>
<1>1. write[1] \in Definitions /\ write[2] \in Patch
  BY CertificateIssuanceAssumption
<1>2. row[write[1]] \in Row
  BY <1>1 DEF WriteDefinition, Typed, TypeOK, Exists
<1>3. Patched(row[write[1]], write[2]) \in Row
  BY <1>1, <1>2, PatchedType
<1> QED
  BY <1>1, <1>3 DEF WriteDefinition, UpdateRow

LEMMA DraftFacts ==
    ASSUME NEW d \in Definitions, NEW terms \in Terms, DraftDefinition(d, terms)
    PROVE  /\ ~Exists(d)
           /\ \E new \in Row : row' = [row EXCEPT ![d] = new]
           /\ UNCHANGED <<evidenceVars, lock, certificates, audit, req>>
<1>1. NewDraft(terms) \in Row
  BY DEF NewDraft, Row, DefinitionState
<1> QED
  BY <1>1 DEF DraftDefinition, CreateRow

\* The surroundings touch neither requests nor certificates nor locks, and no
\* row that a request works on disappears.
LEMMA SurroundingsFacts ==
    ASSUME Typed, Surroundings
    PROVE  /\ UNCHANGED <<lock, certificates, audit, req>>
           /\ links \subseteq links'
           /\ \A d \in Definitions : Exists(d) => row'[d] # Absent
           /\ row' \in [Definitions -> Row \cup {Absent}]
           /\ \A d \in Definitions : lock[d] # NoRequest /\ Exists(d) => row'[d] = row[d]
<1>1. ASSUME NEW d \in Definitions, NEW new \in Row, row' = [row EXCEPT ![d] = new],
             Exists(d) => lock[d] = NoRequest
      PROVE  /\ \A f \in Definitions : Exists(f) => row'[f] # Absent
             /\ row' \in [Definitions -> Row \cup {Absent}]
             /\ \A f \in Definitions : lock[f] # NoRequest /\ Exists(f) => row'[f] = row[f]
  <2>1. row \in [Definitions -> Row \cup {Absent}]
    BY DEF Typed, TypeOK
  <2>2. new # Absent
    BY CertificateIssuanceAssumption
  <2>3. \A f \in Definitions : row'[f] = IF f = d THEN new ELSE row[f]
    BY <1>1, <2>1
  <2> QED
    BY <1>1, <2>1, <2>2, <2>3 DEF Exists
<1>2. ASSUME NEW write \in Writes, WriteDefinition(write[1], write[2])
      PROVE  /\ UNCHANGED <<links, lock, certificates, audit, req>>
             /\ \A d \in Definitions : Exists(d) => row'[d] # Absent
             /\ row' \in [Definitions -> Row \cup {Absent}]
             /\ \A d \in Definitions : lock[d] # NoRequest /\ Exists(d) => row'[d] = row[d]
  BY <1>1, <1>2, RowFacts DEF evidenceVars
<1>3. ASSUME NEW d \in Definitions, NEW terms \in Terms, DraftDefinition(d, terms)
      PROVE  /\ UNCHANGED <<links, lock, certificates, audit, req>>
             /\ \A f \in Definitions : Exists(f) => row'[f] # Absent
             /\ row' \in [Definitions -> Row \cup {Absent}]
             /\ \A f \in Definitions : lock[f] # NoRequest /\ Exists(f) => row'[f] = row[f]
  BY <1>1, <1>3, DraftFacts DEF evidenceVars
<1>4. CASE \E e \in Evidence, c \in Competencies : LinkEvidence(e, c)
  BY <1>4 DEF LinkEvidence, Typed, TypeOK, rowVars, Exists
<1>5. CASE \E correction \in Corrections : CorrectEvidence(correction[1], correction[2])
  BY <1>5 DEF CorrectEvidence, Typed, TypeOK, rowVars, Exists
<1>6. CASE \E write \in Writes : WriteDefinition(write[1], write[2])
  BY <1>2, <1>6
<1>7. CASE \E d \in Definitions, terms \in Terms : DraftDefinition(d, terms)
  BY <1>3, <1>7
<1> QED
  BY <1>4, <1>5, <1>6, <1>7 DEF Surroundings

\* What a request's step does to the tables.
LEMMA TableFacts ==
    ASSUME Typed, NEW r \in Requests, Acts(r)
    PROVE  \/ UNCHANGED <<certificates, lock>> /\ req'[r].step # "insert"
           \/ /\ UNCHANGED certificates
              /\ At(r, "check") /\ Issuable(Definition(r)) /\ ~Holds(SubjectOf(r))
              /\ lock[Definition(r)] = NoRequest
              /\ lock' = [lock EXCEPT ![Definition(r)] = r]
              /\ req'[r].step = "insert"
              /\ req'[r].subject = req[r].subject
           \/ /\ At(r, "insert")
              /\ certificates' = certificates \cup
                    {[student |-> SubjectOf(r).student, definition |-> Definition(r),
                      competencies |-> Read(r).requires, evidence |-> Read(r).found]}
              /\ lock' = [lock EXCEPT ![Definition(r)] = NoRequest]
              /\ req'[r].step # "insert"
           \/ /\ UNCHANGED certificates
              /\ lock' = [d \in Definitions |-> IF lock[d] = r THEN NoRequest ELSE lock[d]]
              /\ req'[r].step # "insert"
<1>1. CASE Reads(r)
  <2>1. ASSUME NEW answer \in Answers, Answer(r, answer)
        PROVE  UNCHANGED <<certificates, lock>> /\ req'[r].step # "insert"
    BY <2>1 DEF Answer, rowVars, Typed, TypeOK
  <2>2. ASSUME NEW step \in Step \ {"insert"}, NEW progress \in Progress,
               Advance(r, step, progress)
        PROVE  UNCHANGED <<certificates, lock>> /\ req'[r].step # "insert"
    <3>1. Working(r)
      BY <1>1, ReadFacts
    <3>2. TypeOK /\ step \in Step
      BY <2>2 DEF Typed
    <3>3. /\ req'[r] = [step |-> step, subject |-> SubjectOf(r), progress |-> progress]
          /\ UNCHANGED <<evidenceVars, rowVars, certificates, audit>>
      BY <2>2, <3>1, <3>2, AdvanceFacts
    <3> QED
      BY <2>2, <3>3 DEF rowVars
  <2> QED
    BY <1>1, <2>1, <2>2, ReadFacts
<1>2. CASE IssueCheck(r)
  <2>1. CASE Answer(r, "refused") \/ Advance(r, "load", Read(r))
    <3>1. Working(r)
      BY <1>2 DEF IssueCheck, At, Working, Step
    <3>2. req'[r].step # "insert"
      <4>1. CASE Answer(r, "refused")
        BY <3>1, <4>1, AnswerFacts DEF Typed, Answers
      <4>2. CASE Advance(r, "load", Read(r))
        <5>1. TypeOK /\ Read(r) \in Progress /\ "load" \in Step
          BY <3>1, WorkingRequest DEF Typed, Step
        <5>2. req'[r] = [step |-> "load", subject |-> SubjectOf(r), progress |-> Read(r)]
          BY <3>1, <4>2, <5>1, AdvanceFacts
        <5> QED
          BY <5>2
      <4> QED
        BY <2>1, <4>1, <4>2
    <3> QED
      BY <2>1, <3>2 DEF Answer, Advance, rowVars
  <2>2. CASE /\ Issuable(Definition(r)) /\ ~Holds(SubjectOf(r))
             /\ lock' = [lock EXCEPT ![Definition(r)] = r]
             /\ req' = [req EXCEPT ![r].step = "insert"]
             /\ UNCHANGED certificates
    <3>1. Working(r) /\ At(r, "check") /\ lock[Definition(r)] = NoRequest
      BY <1>2 DEF IssueCheck, At, Working, Step
    <3>2. req'[r].step = "insert" /\ req'[r].subject = req[r].subject
      BY <2>2, <3>1, WorkingRequest DEF Typed, TypeOK
    <3> QED
      BY <2>2, <3>1, <3>2
  <2> QED
    BY <1>2, <2>1, <2>2 DEF IssueCheck
<1>3. CASE IssueInsert(r)
  <2>1. Working(r)
    BY <1>3 DEF IssueInsert, At, Working, Step
  <2>2. req'[r].step = "load"
    BY <1>3, <2>1, WorkingRequest DEF IssueInsert, Typed, TypeOK
  <2> QED
    BY <1>3, <2>2 DEF IssueInsert
<1>4. CASE Lose(r)
  BY <1>4 DEF Lose, Idle, Typed, TypeOK
<1>5. CASE LoadAndAudit(r) \/ Respond(r) \/ \E subject \in Asks : Begin(r, subject)
  BY <1>5 DEF LoadAndAudit, Respond, Begin, rowVars, Idle, Typed, TypeOK
<1> QED
  BY <1>1, <1>2, <1>3, <1>4, <1>5 DEF Acts

-----------------------------------------------------------------------------
LEMMA TypeInit == Init => Typed
BY DEF Init, AbsInit, RowsInit, Typed, TypeOK, SubjectsExist, EvidenceState, Request, Idle,
   Working, Step

LEMMA EvidenceTypeNext ==
    ASSUME Typed, Next
    PROVE  /\ trust' \in [Evidence -> EvidenceState] /\ review' \in [Evidence -> BOOLEAN]
           /\ corrections' \in [Evidence -> Nat]
           /\ links' \in SUBSET Links
<1> USE DEF Typed, TypeOK
<1>1. CASE UNCHANGED evidenceVars
  BY <1>1 DEF evidenceVars
<1>2. ASSUME NEW correction \in Corrections, CorrectEvidence(correction[1], correction[2])
      PROVE  /\ trust' \in [Evidence -> EvidenceState] /\ review' \in [Evidence -> BOOLEAN]
             /\ corrections' \in [Evidence -> Nat]
             /\ links' \in SUBSET Links
  <2> DEFINE e == correction[1]
             action == correction[2]
  <2>1. e \in Evidence /\ action \in CorrectionAction
    BY CertificateIssuanceAssumption
  <2>2. NextState(trust[e], action) \in EvidenceState
    BY <2>1 DEF NextState, EvidenceState, CorrectionAction
  <2>3. NextReview(action) \in BOOLEAN
    BY DEF NextReview
  <2>4. UNCHANGED links
    BY <1>2 DEF CorrectEvidence
  <2> QED
    BY <1>2, <2>1, <2>2, <2>3, <2>4 DEF CorrectEvidence, Correct
<1>3. CASE \E e \in Evidence, c \in Competencies : LinkEvidence(e, c)
  BY <1>3 DEF LinkEvidence
<1>4. CASE \E r \in Requests : Acts(r)
  BY <1>1, <1>4, RequestFacts
<1>5. CASE \E d \in Definitions, terms \in Terms : DraftDefinition(d, terms)
  BY <1>1, <1>5, DraftFacts
<1>6. CASE \E write \in Writes : WriteDefinition(write[1], write[2])
  BY <1>1, <1>6, RowFacts
<1> QED
  BY <1>2, <1>3, <1>4, <1>5, <1>6, NextIs DEF Surroundings

LEMMA AuditType ==
    ASSUME Typed, NEW r \in Requests, Acts(r)
    PROVE  audit' \in Seq(Subject)
<1>1. CASE LoadAndAudit(r)
  <2>1. SubjectOf(r) \in Subject
    BY <1>1, WorkingRequest DEF LoadAndAudit, At, Working, Step, Typed
  <2> QED
    BY <1>1, <2>1 DEF LoadAndAudit, Typed, TypeOK
<1>2. CASE UNCHANGED audit
  BY <1>2 DEF Typed, TypeOK
<1>3. CASE Reads(r)
  BY <1>2, <1>3, ReadFacts DEF Answer, Advance
<1> QED
  BY <1>1, <1>2, <1>3
  DEF Acts, IssueCheck, Answer, Advance, IssueInsert, Respond, Lose, Begin

LEMMA TypeNext == Typed /\ [Next]_vars => Typed'
<1> SUFFICES ASSUME Typed, [Next]_vars PROVE Typed'
  OBVIOUS
<1>1. ASSUME NEW r \in Requests, Acts(r)
      PROVE  Typed'
  <2>1. /\ req' \in [Requests -> Request]
        /\ row' \in [Definitions -> Row \cup {Absent}]
    BY <1>1, RequestFacts DEF Typed, TypeOK
  <2>2. certificates' \in SUBSET Certificate /\ lock' \in [Definitions -> Requests \cup {NoRequest}]
    <3>1. At(r, "insert") =>
            [student |-> SubjectOf(r).student, definition |-> Definition(r),
             competencies |-> Read(r).requires, evidence |-> Read(r).found] \in Certificate
      BY WorkingRequest DEF Typed, At, Working, Step, Progress, Certificate
    <3> QED
      BY <1>1, <3>1, TableFacts DEF Typed, TypeOK
  <2>3. audit' \in Seq(Subject)
    BY <1>1, AuditType
  <2>4. TypeOK'
    BY <1>1, <2>1, <2>2, <2>3, EvidenceTypeNext, NextIs DEF TypeOK, Next, Acts, Reads
  <2>5. SubjectsExist'
    <3> SUFFICES ASSUME NEW p \in Requests, req'[p].step \in Step
                 PROVE  row'[req'[p].subject.definition] # Absent
      BY DEF SubjectsExist, Working, Exists, Definition
    <3>1. row' = row
      BY <1>1, RequestFacts
    <3>2. CASE p # r
      BY <1>1, <3>1, <3>2, RequestFacts DEF Typed, SubjectsExist, Working, Exists, Definition
    <3>3. CASE p = r
      <4>1. CASE Starts(r)
        BY <3>1, <3>3, <4>1 DEF Starts, Exists
      <4>2. CASE Continues(r)
        BY <3>1, <3>3, <4>2 DEF Continues, Typed, SubjectsExist, Exists, Definition
      <4> QED
        BY <1>1, <3>3, <4>1, <4>2, RequestFacts
    <3> QED
      BY <3>2, <3>3
  <2> QED
    BY <2>4, <2>5 DEF Typed
<1>2. CASE Surroundings
  <2>1. TypeOK'
    BY <1>2, SurroundingsFacts, EvidenceTypeNext DEF Surroundings, Next, Typed, TypeOK
  <2>2. SubjectsExist'
    BY <1>2, SurroundingsFacts, WorkingRequest
    DEF Typed, SubjectsExist, Working, Exists, Definition
  <2> QED
    BY <2>1, <2>2 DEF Typed
<1>3. CASE UNCHANGED vars
  BY <1>3 DEF vars, evidenceVars, rowVars, Typed, TypeOK, SubjectsExist, Working, Exists, Definition
<1> QED
  BY <1>1, <1>2, <1>3, NextIs

\* The type invariant of issuance.
THEOREM TypeCorrect == Spec => []TypeOK
<1>1. Typed => TypeOK
  BY DEF Typed
<1> QED
  BY <1>1, TypeInit, TypeNext, PTL DEF Spec

-----------------------------------------------------------------------------
LEMMA LocksNext ==
    Typed /\ LocksHeld /\ [Next]_vars => LocksHeld'
<1> SUFFICES ASSUME Typed, LocksHeld, [Next]_vars, NEW p \in Requests, req'[p].step = "insert"
             PROVE  lock'[req'[p].subject.definition] = p
  BY DEF LocksHeld, At, Definition
<1> USE DEF Typed, LocksHeld, At, Definition
<1>0. p # NoRequest
  BY CertificateIssuanceAssumption
<1>1. ASSUME req'[p] = req[p]
      PROVE  /\ lock[Definition(p)] = p
             /\ req'[p].subject.definition = Definition(p)
             /\ Definition(p) \in Definitions
  BY <1>1, WorkingRequest DEF Working, Step
<1>2. ASSUME NEW r \in Requests, Acts(r), r # p
      PROVE  lock'[req'[p].subject.definition] = p
  <2>1. req'[p] = req[p]
    BY <1>2, RequestFacts
  <2>2. At(r, "check") \/ At(r, "insert") => Definition(r) \in Definitions
    BY WorkingRequest DEF Working, Step
  <2>3. At(r, "insert") => lock[Definition(r)] = r
    OBVIOUS
  <2> QED
    BY <1>0, <1>1, <1>2, <2>1, <2>2, <2>3, TableFacts DEF TypeOK
<1>3. ASSUME Acts(p)
      PROVE  lock'[req'[p].subject.definition] = p
  <2>1. At(p, "check") => Definition(p) \in Definitions
    BY WorkingRequest DEF Working, Step
  <2> QED
    BY <1>3, <2>1, TableFacts DEF TypeOK
<1>4. CASE Surroundings
  BY <1>1, <1>4, SurroundingsFacts
<1>5. CASE UNCHANGED vars
  BY <1>1, <1>5 DEF vars, rowVars
<1> QED
  BY <1>2, <1>3, <1>4, <1>5, NextIs

\* Only a request of the same student and definition, which would have to hold
\* the lock of the same row, could issue the same certificate.
LEMMA DueNext ==
    Typed /\ LocksHeld /\ InsertIsDue /\ [Next]_vars => InsertIsDue'
<1> SUFFICES ASSUME Typed, LocksHeld, InsertIsDue, [Next]_vars,
                    NEW p \in Requests, req'[p].step = "insert"
             PROVE  /\ row'[req'[p].subject.definition].state = "published"
                    /\ row'[req'[p].subject.definition].successor = NoDefinition
                    /\ ~ \E c \in certificates' :
                            /\ c.student = req'[p].subject.student
                            /\ c.definition = req'[p].subject.definition
  BY DEF InsertIsDue, At, Definition, SubjectOf, Issuable, Holds
<1>0. p # NoRequest
  BY CertificateIssuanceAssumption
<1>1. ASSUME req'[p] = req[p]
      PROVE  /\ Issuable(Definition(p)) /\ ~Holds(SubjectOf(p))
             /\ lock[Definition(p)] = p
             /\ Exists(Definition(p))
             /\ Definition(p) \in Definitions
  BY <1>1, WorkingRequest DEF Typed, InsertIsDue, LocksHeld, SubjectsExist, At, Working, Step
<1>2. ASSUME NEW r \in Requests, Acts(r), r # p
      PROVE  /\ row'[req'[p].subject.definition].state = "published"
             /\ row'[req'[p].subject.definition].successor = NoDefinition
             /\ ~ \E c \in certificates' :
                     /\ c.student = req'[p].subject.student
                     /\ c.definition = req'[p].subject.definition
  <2>1. req'[p] = req[p] /\ row' = row
    BY <1>2, RequestFacts
  <2>2. At(r, "insert") => Definition(r) # Definition(p)
    BY <1>1, <1>2, <2>1 DEF LocksHeld
  <2>3. ~ \E c \in certificates' : c.student = SubjectOf(p).student
                                   /\ c.definition = Definition(p)
    <3>1. \A c \in certificates : ~(c.student = SubjectOf(p).student
                                    /\ c.definition = Definition(p))
      BY <1>1, <2>1 DEF Holds, SubjectOf, Definition
    <3>2. certificates' = certificates \/
            (/\ At(r, "insert")
             /\ certificates' = certificates \cup
                    {[student |-> SubjectOf(r).student, definition |-> Definition(r),
                      competencies |-> Read(r).requires, evidence |-> Read(r).found]})
      BY <1>2, TableFacts
    <3> QED
      BY <2>2, <3>1, <3>2
  <2> QED
    BY <1>1, <2>1, <2>3 DEF Issuable, SubjectOf, Definition
<1>3. ASSUME Acts(p)
      PROVE  /\ row'[req'[p].subject.definition].state = "published"
             /\ row'[req'[p].subject.definition].successor = NoDefinition
             /\ ~ \E c \in certificates' :
                     /\ c.student = req'[p].subject.student
                     /\ c.definition = req'[p].subject.definition
  <2>1. /\ UNCHANGED <<certificates, row>>
        /\ Issuable(Definition(p)) /\ ~Holds(SubjectOf(p))
        /\ req'[p].subject = req[p].subject
    BY <1>3, TableFacts, RequestFacts
  <2> QED
    BY <2>1 DEF Issuable, Holds, SubjectOf, Definition
<1>4. CASE Surroundings
  <2>1. req' = req /\ certificates' = certificates
    BY <1>4, SurroundingsFacts
  <2>2. row'[Definition(p)] = row[Definition(p)]
    BY <1>0, <1>1, <1>4, <2>1, SurroundingsFacts
  <2> QED
    BY <1>1, <2>1, <2>2 DEF Issuable, Holds, SubjectOf, Definition
<1>5. CASE UNCHANGED vars
  BY <1>1, <1>5 DEF vars, rowVars, Issuable, Holds, SubjectOf, Definition
<1> QED
  BY <1>2, <1>3, <1>4, <1>5, NextIs

LEMMA LockInit == Init => LocksHeld /\ InsertIsDue
BY DEF Init, LocksHeld, InsertIsDue, At, Idle

LEMMA LockInvariance == Spec => [](Typed /\ LocksHeld /\ InsertIsDue)
BY TypeInit, TypeNext, LockInit, LocksNext, DueNext, PTL DEF Spec

\* The unique constraint on (user, definition) never has to refuse an insert.
THEOREM NeverTwice == Spec => []ConstraintNeverHit
<1>1. InsertIsDue => ConstraintNeverHit
  BY DEF InsertIsDue, ConstraintNeverHit
<1> QED
  BY <1>1, LockInvariance, PTL

\* A certificate comes into being only while its definition is published and
\* not superseded, whatever administrators write in between.
THEOREM PublishedWhenIssued == Spec => IssuedWhilePublished
<1>1. Typed /\ LocksHeld /\ InsertIsDue /\ [Next]_vars =>
        [\A c \in certificates' \ certificates :
            /\ row[c.definition].state = "published"
            /\ row[c.definition].successor = NoDefinition]_vars
  <2> SUFFICES ASSUME Typed, InsertIsDue, [Next]_vars, NEW c \in certificates' \ certificates
               PROVE  /\ row[c.definition].state = "published"
                      /\ row[c.definition].successor = NoDefinition
    OBVIOUS
  <2>1. CASE Surroundings \/ UNCHANGED vars
    BY <2>1, SurroundingsFacts DEF vars
  <2>2. ASSUME NEW r \in Requests, Acts(r)
        PROVE  /\ row[c.definition].state = "published"
               /\ row[c.definition].successor = NoDefinition
    <3>1. At(r, "insert") /\ c.definition = Definition(r)
      BY <2>2, TableFacts
    <3> QED
      BY <3>1 DEF InsertIsDue, Issuable
  <2> QED
    BY <2>1, <2>2, NextIs
<1> QED
  BY <1>1, LockInvariance, PTL DEF Spec, IssuedWhilePublished

-----------------------------------------------------------------------------
\* Links are never removed, so what was found stays linked.
LEMMA LinksStay ==
    ASSUME Typed, [Next]_vars
    PROVE  links \subseteq links'
<1>1. CASE UNCHANGED vars
  BY <1>1 DEF vars, evidenceVars
<1>2. CASE \E r \in Requests : Acts(r)
  BY <1>2, RequestFacts DEF evidenceVars
<1>3. CASE Surroundings
  BY <1>3, SurroundingsFacts
<1> QED
  BY <1>1, <1>2, <1>3, NextIs

LEMMA FoundNext ==
    Typed /\ FoundIsOwn /\ [Next]_vars => FoundIsOwn'
<1> SUFFICES ASSUME Typed, FoundIsOwn, [Next]_vars, NEW p \in Requests, req'[p].step \in Step,
                    NEW e \in Evidence, NEW c \in Competencies,
                    <<e, c>> \in req'[p].progress.found
             PROVE  /\ <<e, c>> \in links'
                    /\ Owner[e] = req'[p].subject.student
                    /\ e \in Positive
  BY DEF FoundIsOwn, Working, Read, SubjectOf
<1>1. ASSUME req'[p] = req[p]
      PROVE  /\ <<e, c>> \in links'
             /\ Owner[e] = req'[p].subject.student
             /\ e \in Positive
  BY <1>1, LinksStay DEF FoundIsOwn, Working, Read, SubjectOf
<1>2. ASSUME NEW r \in Requests, Acts(r), r # p
      PROVE  req'[p] = req[p]
  BY <1>2, RequestFacts
<1>3. ASSUME Acts(p)
      PROVE  /\ <<e, c>> \in links'
             /\ Owner[e] = req'[p].subject.student
             /\ e \in Positive
  <2>1. CASE Starts(p)
    BY <2>1 DEF Starts
  <2>2. CASE Continues(p)
    BY <2>2, LinksStay DEF Continues, Follows, FoundIsOwn, Read, SubjectOf
  <2> QED
    BY <1>3, <2>1, <2>2, RequestFacts
<1>4. CASE Surroundings
  BY <1>1, <1>4, SurroundingsFacts
<1>5. CASE UNCHANGED vars
  BY <1>1, <1>5 DEF vars
<1> QED
  BY <1>1, <1>2, <1>3, <1>4, <1>5, NextIs

LEMMA RequiredNext ==
    Typed /\ RequiredIsFound /\ [Next]_vars => RequiredIsFound'
<1> SUFFICES ASSUME Typed, RequiredIsFound, [Next]_vars, NEW p \in Requests,
                    req'[p].step \in {"pins", "check", "insert"},
                    NEW c \in req'[p].progress.requires
             PROVE  \E e \in Evidence : <<e, c>> \in req'[p].progress.found
  BY DEF RequiredIsFound, Read
<1>1. ASSUME req'[p] = req[p]
      PROVE  \E e \in Evidence : <<e, c>> \in req'[p].progress.found
  BY <1>1 DEF RequiredIsFound, Read
<1>2. ASSUME NEW r \in Requests, Acts(r), r # p
      PROVE  req'[p] = req[p]
  BY <1>2, RequestFacts
<1>3. ASSUME Acts(p)
      PROVE  \E e \in Evidence : <<e, c>> \in req'[p].progress.found
  <2>1. Continues(p)
    BY <1>3, RequestFacts DEF Starts, Step
  <2>2. /\ c \in Read(p).requires
        /\ req'[p].progress.found = Read(p).found
        /\ req[p].step \in {"pins", "check"} \/ Eligible(Read(p))
    BY <2>1 DEF Continues
  <2> QED
    BY <2>2 DEF RequiredIsFound, Eligible
<1>4. CASE Surroundings
  BY <1>1, <1>4, SurroundingsFacts
<1>5. CASE UNCHANGED vars
  BY <1>1, <1>5 DEF vars
<1> QED
  BY <1>1, <1>2, <1>3, <1>4, <1>5, NextIs

LEMMA RestsNext ==
    Typed /\ FoundIsOwn /\ RequiredIsFound /\ RestsOnOwnEvidence /\ [Next]_vars
        => RestsOnOwnEvidence'
<1> SUFFICES ASSUME Typed, FoundIsOwn, RequiredIsFound, RestsOnOwnEvidence, [Next]_vars,
                    NEW c \in certificates', NEW k \in c.competencies
             PROVE  \E e \in Evidence :
                        /\ <<e, k>> \in c.evidence \cap links'
                        /\ Owner[e] = c.student /\ e \in Positive
  BY DEF RestsOnOwnEvidence
<1>1. CASE c \in certificates
  BY <1>1, LinksStay DEF RestsOnOwnEvidence
<1>2. ASSUME c \notin certificates
      PROVE  \E e \in Evidence :
                 /\ <<e, k>> \in c.evidence \cap links'
                 /\ Owner[e] = c.student /\ e \in Positive
  <2>1. PICK r \in Requests : Acts(r)
    BY <1>2, NextIs, SurroundingsFacts DEF vars
  <2>2. /\ At(r, "insert")
        /\ c = [student |-> SubjectOf(r).student, definition |-> Definition(r),
                competencies |-> Read(r).requires, evidence |-> Read(r).found]
    BY <1>2, <2>1, TableFacts
  <2>3. PICK e \in Evidence : <<e, k>> \in Read(r).found
    BY <2>2 DEF RequiredIsFound, At
  <2>4. k \in Competencies
    BY <2>2, WorkingRequest DEF At, Working, Step, Typed, Progress
  <2>5. <<e, k>> \in links /\ Owner[e] = SubjectOf(r).student /\ e \in Positive
    BY <2>2, <2>3, <2>4 DEF FoundIsOwn, At, Working, Step
  <2> QED
    BY <2>2, <2>3, <2>5, LinksStay
<1> QED
  BY <1>1, <1>2

\* Every competency a certificate names rests on positive Evidence of its own
\* student that is linked to the competency.
THEOREM RestsOnEvidence == Spec => []RestsOnOwnEvidence
<1>1. Init => FoundIsOwn /\ RequiredIsFound /\ RestsOnOwnEvidence
  BY DEF Init, FoundIsOwn, RequiredIsFound, RestsOnOwnEvidence, Working, Step, Idle
<1> QED
  BY <1>1, TypeInit, TypeNext, FoundNext, RequiredNext, RestsNext, PTL DEF Spec

-----------------------------------------------------------------------------
\* A request that has passed the insert, or found it done, finds its certificate.
LoadsWhatIsThere == \A r \in Requests : At(r, "load") => Holds(SubjectOf(r))

LEMMA CertificatesStay ==
    ASSUME Typed, [Next]_vars
    PROVE  certificates \subseteq certificates'
<1>1. CASE UNCHANGED vars \/ Surroundings
  BY <1>1, SurroundingsFacts DEF vars
<1>2. CASE \E r \in Requests : Acts(r)
  BY <1>2, TableFacts
<1> QED
  BY <1>1, <1>2, NextIs

\* How a request comes to load, and to an announcement.
LEMMA Announcing ==
    ASSUME Typed, NEW r \in Requests, Acts(r)
    PROVE  /\ req'[r].step = "load" =>
                  /\ req'[r].subject = SubjectOf(r)
                  /\ \E c \in certificates' : /\ c.student = SubjectOf(r).student
                                              /\ c.definition = SubjectOf(r).definition
           /\ req'[r].step = "answered" /\ req'[r].answer \in {"issued", "alreadyIssued"} =>
                  /\ req'[r].subject = SubjectOf(r)
                  /\ At(r, "load") \/ Holds(SubjectOf(r))
           /\ audit' = audit \/ (At(r, "load") /\ audit' = Append(audit, SubjectOf(r)))
<1> DEFINE Loading ==
             req'[r].step = "load" =>
               /\ req'[r].subject = SubjectOf(r)
               /\ \E c \in certificates' : /\ c.student = SubjectOf(r).student
                                           /\ c.definition = SubjectOf(r).definition
           Telling ==
             req'[r].step = "answered" /\ req'[r].answer \in {"issued", "alreadyIssued"} =>
               /\ req'[r].subject = SubjectOf(r)
               /\ At(r, "load") \/ Holds(SubjectOf(r))
           Auditing ==
             audit' = audit \/ (At(r, "load") /\ audit' = Append(audit, SubjectOf(r)))
           Goal == Loading /\ Telling /\ Auditing
<1>1. req \in [Requests -> Request] /\ TypeOK
  BY DEF Typed, TypeOK
<1>2. ASSUME NEW answer \in Answers, Answer(r, answer),
             answer = "refused" \/ Holds(SubjectOf(r))
      PROVE  Goal
  <2>1. req'[r] = [step |-> "answered", subject |-> SubjectOf(r), answer |-> answer]
    BY <1>1, <1>2 DEF Answer
  <2> QED
    BY <1>2, <2>1 DEF Answer
<1>3. ASSUME NEW step \in Step, Working(r), NEW progress \in Progress, Advance(r, step, progress),
             step = "load" => Holds(SubjectOf(r))
      PROVE  Goal
  <2>1. /\ req'[r] = [step |-> step, subject |-> SubjectOf(r), progress |-> progress]
        /\ UNCHANGED <<certificates, audit>>
    BY <1>1, <1>3, AdvanceFacts
  <2> QED
    BY <1>3, <2>1 DEF Holds, Step
<1>4. CASE Reads(r)
  BY <1>2, <1>3, <1>4, ReadFacts
<1>5. CASE IssueCheck(r)
  <2>1. Working(r) /\ Read(r) \in Progress /\ "load" \in Step /\ "refused" \in Answers
    BY <1>1, <1>5, WorkingRequest DEF IssueCheck, At, Working, Step, Answers
  <2>2. CASE req' = [req EXCEPT ![r].step = "insert"] /\ UNCHANGED <<certificates, audit>>
    <3>1. req'[r].step = "insert"
      BY <1>1, <2>1, <2>2, WorkingRequest
    <3> QED
      BY <2>2, <3>1
  <2> QED
    BY <1>2, <1>3, <1>5, <2>1, <2>2 DEF IssueCheck
<1>6. CASE IssueInsert(r)
  <2>1. Working(r)
    BY <1>6 DEF IssueInsert, At, Working, Step
  <2>2. req'[r] = [step |-> "load", subject |-> SubjectOf(r), progress |-> Read(r)]
    BY <1>1, <1>6, <2>1, WorkingRequest DEF IssueInsert, SubjectOf, Read
  <2>3. audit' = audit
        /\ [student |-> SubjectOf(r).student, definition |-> Definition(r),
            competencies |-> Read(r).requires, evidence |-> Read(r).found] \in certificates'
    BY <1>6 DEF IssueInsert
  <2>4. Definition(r) = SubjectOf(r).definition
    BY DEF Definition, SubjectOf
  <2> QED
    BY <2>2, <2>3, <2>4
<1>7. CASE LoadAndAudit(r)
  <2>1. /\ req'[r] = [step |-> "answered", subject |-> SubjectOf(r), answer |-> "issued"]
        /\ At(r, "load") /\ audit' = Append(audit, SubjectOf(r))
    BY <1>1, <1>7 DEF LoadAndAudit
  <2> QED
    BY <2>1
<1>8. CASE Respond(r) \/ Lose(r)
  BY <1>1, <1>8 DEF Respond, Lose, Idle
<1>9. CASE \E subject \in Asks : Begin(r, subject)
  BY <1>1, <1>9 DEF Begin
<1> QED
  BY <1>4, <1>5, <1>6, <1>7, <1>8, <1>9 DEF Acts

LEMMA LoadsNext ==
    Typed /\ LoadsWhatIsThere /\ [Next]_vars => LoadsWhatIsThere'
<1> SUFFICES ASSUME Typed, LoadsWhatIsThere, [Next]_vars,
                    NEW p \in Requests, req'[p].step = "load"
             PROVE  \E c \in certificates' : /\ c.student = req'[p].subject.student
                                             /\ c.definition = req'[p].subject.definition
  BY DEF LoadsWhatIsThere, At, Holds, SubjectOf
<1>1. ASSUME req'[p] = req[p]
      PROVE  \E c \in certificates' : /\ c.student = req'[p].subject.student
                                      /\ c.definition = req'[p].subject.definition
  BY <1>1, CertificatesStay DEF LoadsWhatIsThere, At, Holds, SubjectOf
<1>2. ASSUME NEW r \in Requests, Acts(r), r # p
      PROVE  req'[p] = req[p]
  BY <1>2, RequestFacts
<1>3. ASSUME Acts(p)
      PROVE  \E c \in certificates' : /\ c.student = req'[p].subject.student
                                      /\ c.definition = req'[p].subject.definition
  BY <1>3, Announcing
<1>4. CASE Surroundings \/ UNCHANGED vars
  BY <1>1, <1>4, SurroundingsFacts DEF vars
<1> QED
  BY <1>1, <1>2, <1>3, <1>4, NextIs

LEMMA AnnouncedNext ==
    Typed /\ LoadsWhatIsThere /\ AnnouncedIsIssued /\ [Next]_vars => AnnouncedIsIssued'
<1> SUFFICES ASSUME Typed, LoadsWhatIsThere, AnnouncedIsIssued, [Next]_vars
             PROVE  AnnouncedIsIssued'
  OBVIOUS
<1> DEFINE Issued(subject) == \E c \in certificates' : /\ c.student = subject.student
                                                      /\ c.definition = subject.definition
<1>1. ASSUME NEW subject, Holds(subject)
      PROVE  Issued(subject)
  BY <1>1, CertificatesStay DEF Holds
<1>2. ASSUME NEW p \in Requests, req'[p].step = "answered",
             req'[p].answer \in {"issued", "alreadyIssued"}
      PROVE  Issued(req'[p].subject)
  <2>1. CASE req'[p] = req[p]
    BY <1>1, <1>2, <2>1 DEF AnnouncedIsIssued, At, SubjectOf
  <2>2. CASE \E r \in Requests : Acts(r) /\ r # p
    BY <2>1, <2>2, RequestFacts
  <2>3. CASE Acts(p)
    <3>1. req'[p].subject = SubjectOf(p) /\ Holds(SubjectOf(p))
      BY <1>2, <2>3, Announcing DEF LoadsWhatIsThere
    <3> QED
      BY <1>1, <3>1
  <2>4. CASE Surroundings \/ UNCHANGED vars
    BY <2>1, <2>4, SurroundingsFacts DEF vars
  <2> QED
    BY <2>2, <2>3, <2>4, NextIs
<1>3. ASSUME NEW i \in DOMAIN audit'
      PROVE  Issued(audit'[i])
  <2>1. CASE audit' = audit
    BY <1>1, <1>3, <2>1 DEF AnnouncedIsIssued
  <2>2. ASSUME NEW r \in Requests, At(r, "load"), audit' = Append(audit, SubjectOf(r))
        PROVE  Issued(audit'[i])
    <3>1. audit \in Seq(Subject)
      BY DEF Typed, TypeOK
    <3>2. (i \in DOMAIN audit /\ audit'[i] = audit[i]) \/ audit'[i] = SubjectOf(r)
      BY <1>3, <2>2, <3>1
    <3> QED
      BY <1>1, <2>2, <3>2 DEF AnnouncedIsIssued, LoadsWhatIsThere
  <2>3. CASE Surroundings \/ UNCHANGED vars
    BY <2>1, <2>3, SurroundingsFacts DEF vars
  <2> QED
    BY <2>1, <2>2, <2>3, Announcing, NextIs
<1> QED
  BY <1>2, <1>3 DEF AnnouncedIsIssued, At, Holds, SubjectOf

\* Every success answer and every audit event is about a certificate that is
\* there, although both come after the transaction that wrote it.
THEOREM AnnouncementsAreTrue == Spec => []AnnouncedIsIssued
<1>1. Init => LoadsWhatIsThere /\ AnnouncedIsIssued
  BY DEF Init, LoadsWhatIsThere, AnnouncedIsIssued, At, Idle
<1> QED
  BY <1>1, TypeInit, TypeNext, LoadsNext, AnnouncedNext, PTL DEF Spec

-----------------------------------------------------------------------------
\* Administrators make the transitions the authoring service permits, except
\* that none of them reopens a retired definition.
NothingReopened ==
    \A move \in Moves :
        /\ ValidTransition(move[1], move[2])
        /\ move[1] = "retired" => move[2] = "retired"

Public(d) == row[d].state \in {"published", "retired"}

\* A definition that was once published, and what was read of it.
ReadIsPublic ==
    \A r \in Requests :
        /\ req[r].step \in {"requirements", "references", "pins", "check", "insert"} =>
              Public(Definition(r))
        /\ req[r].step \in {"references", "pins", "check", "insert"} =>
              (row[Definition(r)].state = "published" =>
                  Read(r).requires = row[Definition(r)].requires)

CertifiedIsPublic ==
    \A c \in certificates : Exists(c.definition) /\ Public(c.definition)

\* Once public, a definition leaves publication for good, and until then it
\* requires the same.
LEMMA RowsStayPublic ==
    ASSUME NothingReopened, Typed, [Next]_vars, NEW d \in Definitions, Exists(d)
    PROVE  /\ row'[d] # Absent
           /\ Public(d) =>
                 /\ row'[d].state \in {"published", "retired"}
                 /\ row'[d].state = "published" =>
                       row[d].state = "published" /\ row'[d].requires = row[d].requires
<1>1. CASE row' = row
  BY <1>1 DEF Exists, Public
<1>2. ASSUME NEW write \in Writes, WriteDefinition(write[1], write[2])
      PROVE  /\ row'[d] # Absent
             /\ Public(d) =>
                   /\ row'[d].state \in {"published", "retired"}
                   /\ row'[d].state = "published" =>
                         row[d].state = "published" /\ row'[d].requires = row[d].requires
  <2> DEFINE f == write[1]
             patch == write[2]
  <2>1. f \in Definitions /\ patch \in Patch /\ row[d] \in Row
        /\ row \in [Definitions -> Row \cup {Absent}]
    BY CertificateIssuanceAssumption DEF Typed, TypeOK, Exists
  <2>2. CASE d # f
    <3>1. row'[d] = row[d]
      BY <1>2, <2>1, <2>2 DEF WriteDefinition, UpdateRow
    <3> QED
      BY <3>1 DEF Exists, Public
  <2>3. CASE d = f
    <3>1. row'[d] = Patched(row[d], patch) /\ row'[d] \in Row
      BY <1>2, <2>1, <2>3, PatchedType DEF WriteDefinition, UpdateRow
    <3>2. row'[d] # Absent
      BY <3>1, CertificateIssuanceAssumption
    <3>3. row[d].state = "published" => row'[d].requires = row[d].requires
      BY <1>2, <2>3, <3>1 DEF WriteDefinition, UpdateRow, SameMeaning
    <3>4. CASE Sets(patch, "state")
      <4>1. row'[d].state = patch.state /\ <<row[d].state, patch.state>> \in Moves
        BY <1>2, <2>3, <3>1, <3>4 DEF Patched, WriteDefinition
      <4>2. /\ ValidTransition(row[d].state, patch.state)
            /\ row[d].state = "retired" => patch.state = "retired"
        BY <4>1 DEF NothingReopened
      <4> QED
        BY <3>2, <3>3, <4>1, <4>2 DEF Public, ValidTransition
    <3>5. CASE ~Sets(patch, "state")
      BY <3>1, <3>2, <3>3, <3>5 DEF Patched, Public
    <3> QED
      BY <3>4, <3>5
  <2> QED
    BY <2>2, <2>3
<1>3. ASSUME NEW f \in Definitions, NEW terms \in Terms, DraftDefinition(f, terms)
      PROVE  row'[d] = row[d]
  BY <1>3, DraftFacts DEF Exists, Typed, TypeOK
<1>4. CASE \E f \in Definitions, terms \in Terms : DraftDefinition(f, terms)
  BY <1>3, <1>4 DEF Exists, Public
<1>5. CASE \E write \in Writes : WriteDefinition(write[1], write[2])
  BY <1>2, <1>5
<1>6. CASE UNCHANGED vars \/ \E r \in Requests : Acts(r)
  BY <1>1, <1>6, RequestFacts DEF vars, rowVars
<1>7. CASE \/ \E e \in Evidence, c \in Competencies : LinkEvidence(e, c)
           \/ \E correction \in Corrections : CorrectEvidence(correction[1], correction[2])
  BY <1>1, <1>7 DEF LinkEvidence, CorrectEvidence, rowVars
<1> QED
  BY <1>4, <1>5, <1>6, <1>7, NextIs DEF Surroundings

\* The requirements are read from a row that is public, and are then kept.
LEMMA ReadingStep ==
    ASSUME Typed, NEW r \in Requests, Acts(r)
    PROVE  /\ req'[r].step \in {"requirements", "references", "pins", "check", "insert"} =>
                 /\ req'[r].subject = SubjectOf(r)
                 /\ Working(r)
                 /\ \/ req[r].step \in {"requirements", "references", "pins", "check"}
                    \/ row[Definition(r)].state = "published"
           /\ req'[r].step \in {"references", "pins", "check", "insert"} =>
                 \/ /\ req[r].step \in {"references", "pins", "check"}
                    /\ req'[r].progress.requires = Read(r).requires
                 \/ /\ req[r].step = "requirements"
                    /\ req'[r].progress.requires = row[Definition(r)].requires
<1> DEFINE Keeps ==
             req'[r].step \in {"requirements", "references", "pins", "check", "insert"} =>
                 /\ req'[r].subject = SubjectOf(r)
                 /\ Working(r)
                 /\ \/ req[r].step \in {"requirements", "references", "pins", "check"}
                    \/ row[Definition(r)].state = "published"
           Knows ==
             req'[r].step \in {"references", "pins", "check", "insert"} =>
                 \/ /\ req[r].step \in {"references", "pins", "check"}
                    /\ req'[r].progress.requires = Read(r).requires
                 \/ /\ req[r].step = "requirements"
                    /\ req'[r].progress.requires = row[Definition(r)].requires
<1>1. TypeOK /\ req \in [Requests -> Request]
  BY DEF Typed, TypeOK
<1>2. ASSUME NEW answer, Answer(r, answer)
      PROVE  Keeps /\ Knows
  BY <1>1, <1>2 DEF Answer
<1>3. ASSUME Working(r), NEW step \in Step, NEW progress, Advance(r, step, progress)
      PROVE  req'[r] = [step |-> step, subject |-> SubjectOf(r), progress |-> progress]
  BY <1>1, <1>3, WorkingRequest DEF Advance, SubjectOf
<1>4. At(r, "lookup") \/ At(r, "definition") \/ At(r, "eligibility") \/ At(r, "requirements")
        \/ At(r, "references") \/ At(r, "pins") \/ At(r, "check") \/ At(r, "insert") => Working(r)
  BY DEF At, Working, Step
<1>5. CASE FindExisting(r)
  <2>1. ASSUME Advance(r, "definition", NoProgress)
        PROVE  Keeps /\ Knows
    <3>1. req'[r] = [step |-> "definition", subject |-> SubjectOf(r), progress |-> NoProgress]
      BY <1>3, <1>4, <1>5, <2>1 DEF FindExisting, Step
    <3> QED
      BY <3>1
  <2> QED
    BY <1>2, <1>5, <2>1 DEF FindExisting
<1>6. CASE ReadDefinition(r)
  <2>1. PICK progress : Advance(r, "eligibility", progress)
    BY <1>6 DEF ReadDefinition
  <2>2. req'[r] = [step |-> "eligibility", subject |-> SubjectOf(r), progress |-> progress]
    BY <1>3, <1>4, <1>6, <2>1 DEF ReadDefinition, Step
  <2> QED
    BY <2>2
<1>7. CASE ReadEligibilityRow(r)
  <2>1. Working(r)
    BY <1>4, <1>7 DEF ReadEligibilityRow
  <2>2. CASE row[Definition(r)].state = "published" /\ Advance(r, "requirements", Read(r))
    <3>1. req'[r] = [step |-> "requirements", subject |-> SubjectOf(r), progress |-> Read(r)]
      BY <1>3, <2>1, <2>2 DEF Step
    <3> QED
      BY <2>1, <2>2, <3>1
  <2> QED
    BY <1>2, <1>7, <2>2 DEF ReadEligibilityRow
<1>8. CASE ReadRequirements(r)
  <2> DEFINE d == row[Definition(r)]
             progress == [Read(r) EXCEPT
                 !.requires = d.requires, !.policies = d.policies, !.pending = d.requires]
  <2>1. Working(r) /\ req[r].step = "requirements" /\ Advance(r, "references", progress)
    BY <1>4, <1>8 DEF ReadRequirements, At
  <2>2. progress.requires = d.requires
    BY <2>1, WorkingRequest, <1>1 DEF Progress
  <2> HIDE DEF progress
  <2>3. req'[r] = [step |-> "references", subject |-> SubjectOf(r), progress |-> progress]
    BY <1>3, <2>1 DEF Step
  <2> QED
    BY <2>1, <2>2, <2>3
<1>9. ASSUME NEW step \in {"references", "pins", "check"}, NEW progress, Advance(r, step, progress),
             progress.requires = Read(r).requires,
             req[r].step \in {"references", "pins"}
      PROVE  Keeps /\ Knows
  <2>1. Working(r) /\ step \in Step
    BY <1>9 DEF Working, Step
  <2>2. req'[r] = [step |-> step, subject |-> SubjectOf(r), progress |-> progress]
    BY <1>3, <1>9, <2>1
  <2> QED
    BY <1>9, <2>1, <2>2
<1>10. CASE ReadReferences(r)
  <2>1. req[r].step = "references" /\ Read(r) \in Progress
    BY <1>1, <1>4, <1>10, WorkingRequest DEF ReadReferences, At
  <2>2. \E pending, found, disputed :
            Advance(r, "references", [Read(r) EXCEPT !.pending = pending, !.found = found,
                                                     !.disputed = disputed])
    <3>1. PICK c \in Read(r).pending :
            LET linked == Linked(SubjectOf(r).student, c)
            IN  Advance(r, "references", [Read(r) EXCEPT
                    !.pending = @ \ {c},
                    !.found = @ \cup {<<e, c>> : e \in {f \in linked : Qualifies(f)}},
                    !.disputed = @ \/ \E e \in linked : review[e]])
      BY <1>10 DEF ReadReferences
    <3> QED
      BY <3>1
  <2>3. PICK pending, found, disputed :
            Advance(r, "references", [Read(r) EXCEPT !.pending = pending, !.found = found,
                                                     !.disputed = disputed])
    BY <2>2
  <2> DEFINE progress == [Read(r) EXCEPT !.pending = pending, !.found = found,
                                         !.disputed = disputed]
  <2>4. progress.requires = Read(r).requires
    BY <2>1 DEF Progress
  <2> HIDE DEF progress
  <2>5. Advance(r, "references", progress)
    BY <2>3 DEF progress
  <2> QED
    BY <1>9, <2>1, <2>4, <2>5
<1>11. CASE Decide(r)
  <2>1. req[r].step = "references"
    BY <1>11 DEF Decide, At
  <2> QED
    BY <1>2, <1>9, <1>11, <2>1 DEF Decide
<1>12. CASE ReadPins(r)
  <2> DEFINE progress == [Read(r) EXCEPT !.pins = corrections]
  <2>1. req[r].step = "pins" /\ Read(r) \in Progress
    BY <1>1, <1>4, <1>12, WorkingRequest DEF ReadPins, At
  <2>2. progress.requires = Read(r).requires
    BY <2>1 DEF Progress
  <2>3. Advance(r, "check", progress)
    BY <1>12 DEF ReadPins
  <2> QED
    BY <1>9, <2>1, <2>2, <2>3
<1>13. CASE IssueCheck(r)
  <2>1. Working(r) /\ req[r].step = "check"
    BY <1>4, <1>13 DEF IssueCheck, At
  <2>2. CASE Advance(r, "load", Read(r))
    <3>1. req'[r] = [step |-> "load", subject |-> SubjectOf(r), progress |-> Read(r)]
      BY <1>3, <2>1, <2>2 DEF Step
    <3> QED
      BY <3>1
  <2>3. CASE req' = [req EXCEPT ![r].step = "insert"]
    <3>1. req'[r] = [step |-> "insert", subject |-> SubjectOf(r), progress |-> Read(r)]
      BY <1>1, <2>1, <2>3, WorkingRequest DEF SubjectOf, Read
    <3> QED
      BY <2>1, <3>1
  <2> QED
    BY <1>2, <1>13, <2>2, <2>3 DEF IssueCheck
<1>14. CASE IssueInsert(r)
  <2>1. req'[r].step = "load"
    BY <1>1, <1>4, <1>14, WorkingRequest DEF IssueInsert
  <2> QED
    BY <2>1
<1>15. CASE LoadAndAudit(r) \/ Respond(r) \/ Lose(r) \/ \E subject \in Asks : Begin(r, subject)
  BY <1>1, <1>15 DEF LoadAndAudit, Respond, Lose, Begin, Idle
<1> QED
  BY <1>5, <1>6, <1>7, <1>8, <1>10, <1>11, <1>12, <1>13, <1>14, <1>15 DEF Acts, Reads

LEMMA PublicNext ==
    NothingReopened /\ Typed /\ ReadIsPublic /\ [Next]_vars => ReadIsPublic'
<1> SUFFICES ASSUME NothingReopened, Typed, ReadIsPublic, [Next]_vars, NEW p \in Requests,
                    req'[p].step \in {"requirements", "references", "pins", "check", "insert"}
             PROVE  LET new == row'[req'[p].subject.definition]
                    IN  /\ new.state \in {"published", "retired"}
                        /\ req'[p].step # "requirements" /\ new.state = "published" =>
                               req'[p].progress.requires = new.requires
  BY DEF ReadIsPublic, Public, Definition, Read
<1> DEFINE d == Definition(p)
           new == row'[req'[p].subject.definition]
           Goal == /\ new.state \in {"published", "retired"}
                   /\ req'[p].step # "requirements" /\ new.state = "published" =>
                          req'[p].progress.requires = new.requires
<1>1. ASSUME Working(p), Public(d)
      PROVE  /\ row'[d].state \in {"published", "retired"}
             /\ row'[d].state = "published" =>
                   row[d].state = "published" /\ row'[d].requires = row[d].requires
  <2>1. d \in Definitions /\ Exists(d)
    BY <1>1, WorkingRequest DEF Typed, SubjectsExist
  <2> QED
    BY <1>1, <2>1, RowsStayPublic
<1>2. ASSUME req'[p] = req[p]
      PROVE  Goal
  <2>1. Working(p) /\ Public(d)
    BY <1>2 DEF ReadIsPublic, Working, Step
  <2> QED
    BY <1>1, <1>2, <2>1 DEF ReadIsPublic, Definition, Read
<1>3. ASSUME NEW r \in Requests, Acts(r), r # p
      PROVE  req'[p] = req[p]
  BY <1>3, RequestFacts
<1>4. ASSUME Acts(p)
      PROVE  Goal
  <2>1. /\ req'[p].subject = SubjectOf(p)
        /\ Working(p)
        /\ Public(d)
    BY <1>4, ReadingStep DEF ReadIsPublic, Public
  <2>2. new = row'[d]
    BY <2>1 DEF SubjectOf, Definition
  <2>3. req'[p].step # "requirements" =>
          \/ /\ req[p].step \in {"references", "pins", "check"}
             /\ req'[p].progress.requires = Read(p).requires
          \/ req'[p].progress.requires = row[d].requires
    BY <1>4, ReadingStep
  <2> QED
    BY <1>1, <2>1, <2>2, <2>3 DEF ReadIsPublic
<1>5. CASE Surroundings \/ UNCHANGED vars
  BY <1>2, <1>5, SurroundingsFacts DEF vars
<1> QED
  BY <1>2, <1>3, <1>4, <1>5, NextIs

LEMMA MeetsNext ==
    NothingReopened /\ Typed /\ InsertIsDue /\ ReadIsPublic /\ CertifiedIsPublic /\ MeetsDefinition
        /\ [Next]_vars => CertifiedIsPublic' /\ MeetsDefinition'
<1> SUFFICES ASSUME NothingReopened, Typed, InsertIsDue, ReadIsPublic, CertifiedIsPublic,
                    MeetsDefinition, [Next]_vars, NEW c \in certificates'
             PROVE  /\ row'[c.definition] # Absent
                    /\ row'[c.definition].state \in {"published", "retired"}
                    /\ row'[c.definition].state = "published" =>
                          c.competencies = row'[c.definition].requires
  BY DEF CertifiedIsPublic, MeetsDefinition, Public, Exists
<1> DEFINE d == c.definition
<1>1. CASE c \in certificates
  <2>1. d \in Definitions /\ Exists(d) /\ Public(d)
    BY <1>1 DEF CertifiedIsPublic, Typed, TypeOK, Certificate
  <2> QED
    BY <1>1, <2>1, RowsStayPublic DEF MeetsDefinition
<1>2. CASE c \notin certificates
  <2>1. PICK r \in Requests : Acts(r)
    BY <1>2, NextIs, SurroundingsFacts DEF vars
  <2>2. /\ At(r, "insert") /\ row' = row
        /\ d = Definition(r) /\ c.competencies = Read(r).requires
    BY <1>2, <2>1, TableFacts, RequestFacts
  <2>3. Exists(d)
    BY <2>2 DEF Typed, SubjectsExist, At, Working, Step
  <2> QED
    BY <2>2, <2>3 DEF InsertIsDue, Issuable, ReadIsPublic, At, Exists
<1> QED
  BY <1>1, <1>2

\* Where no definition is reopened after publication, every certificate of a
\* published definition names exactly the competencies the definition
\* requires, although its requirements were read several transactions before
\* the certificate existed, and may have been written to in between.
THEOREM CertificatesMeetDefinitions == NothingReopened => (Spec => []MeetsDefinition)
<1> SUFFICES ASSUME NothingReopened PROVE Spec => []MeetsDefinition
  OBVIOUS
<1>1. Init => ReadIsPublic /\ CertifiedIsPublic /\ MeetsDefinition
  BY DEF Init, ReadIsPublic, CertifiedIsPublic, MeetsDefinition, Idle
<1>2. Typed /\ ReadIsPublic /\ [Next]_vars => ReadIsPublic'
  BY PublicNext
<1>3. Typed /\ InsertIsDue /\ ReadIsPublic /\ CertifiedIsPublic /\ MeetsDefinition
        /\ [Next]_vars => CertifiedIsPublic' /\ MeetsDefinition'
  BY MeetsNext
<1> QED
  BY <1>1, <1>2, <1>3, LockInvariance, PTL DEF Spec
=============================================================================

------------------------ MODULE EvidenceIntakeProofs ------------------------
(***************************************************************************)
(* Theorems about the two sources of EvidenceIntake.  AssessmentAttempt:   *)
(* however submissions, interruptions, retries and crashes interleave,     *)
(* everything derived from an attempt repeats the one result that was      *)
(* stored, and its Evidence is recorded once and linked as EvidenceLedger  *)
(* promises.  LabEvidence: so is that of a validation run, under the one   *)
(* authority frozen for it, however often its mission is published again.  *)
(***************************************************************************)
EXTENDS MCEvidenceIntake, TLAPS, WellFoundedInduction

\* Jobs by the fields they carry.
PlainStep == {"create", "version", "score", "interrupt", "resume", "outcome", "handoff",
              "facts", "skip", "failed"}
ResultStep == {"persist", "grant", "satisfy", "review", "conclude", "build"}
ProofStep == {"find", "insert", "reread", "link", "conflict"}

PlainJob == [step : PlainStep, source : Sources]
ResultJob == [step : ResultStep, source : Sources, result : Results]
ProofJob == [step : ProofStep, source : Sources, proof : Proof, pending : SUBSET Competencies]

AnyJob == {Idle} \cup IntakeJob \cup AttemptJob

\* What an attempt proves.
ProofOf(a) == [result |-> attempts[a], mapping |-> Mapping[a[1]]]

\* The tables repeat the stored result.
ProvenOnly ==
    \A a \in Sources :
        /\ handoffs[a] # "none" => handoffs[a] = attempts[a]
        /\ evidence[a] # NoEvidence =>
              evidence[a] = ProofOf(a) /\ Terminal(a) /\ a[1] \in EvidenceProducing

OutcomesRepeat == \A a \in Sources : outcomes[a] # "none" => outcomes[a] = attempts[a]

\* What a request carries on from the stored result is still the stored result.
Carries(j) ==
    /\ j.step \in {"grant", "satisfy", "review", "conclude"} =>
          j.result = attempts[j.source] /\ j.source[1] \in TestOut
    /\ j.step \in {"grant", "satisfy"} => j.result = "passed"
    /\ j.step = "build" => j.result = attempts[j.source]
    /\ j.step = "skip" => j.source[1] \notin EvidenceProducing
    /\ j.step \in ProofStep =>
          j.proof = ProofOf(j.source) /\ Terminal(j.source) /\ j.source[1] \in EvidenceProducing

\* How far the ingestion of a worker has come: until it links, all of the
\* mapping is pending; then what is not pending is linked.
Ingests(j) ==
    /\ j.step # "conflict"
    /\ j.step \in {"find", "insert", "reread"} => j.pending = j.proof.mapping
    /\ j.step \in {"reread", "link"} => evidence[j.source] # NoEvidence
    /\ j.step = "link" =>
          /\ j.pending \subseteq j.proof.mapping
          /\ \A c \in j.proof.mapping \ j.pending : <<j.source, c>> \in links

JobsAreSound == \A w \in Workers : Carries(work[w]) /\ Ingests(work[w])

Inv == TypeOK /\ ProvenOnly /\ OutcomesRepeat /\ JobsAreSound /\ GrantsAreEarned
        /\ ConsumedIsComplete

-----------------------------------------------------------------------------
LEMMA Jobs ==
    AnyJob = {Idle} \cup PlainJob \cup ResultJob \cup ProofJob
             \cup [step : {"prior"}, version : Versions]
             \cup [step : {"save"}, source : Sources, answer : BOOLEAN]
<1>1. PlainJob = [step : {"create", "version", "score", "interrupt", "resume", "outcome",
                          "handoff", "facts"}, source : Sources]
                 \cup [step : {"skip", "failed"}, source : Sources]
  BY DEF PlainJob, PlainStep
<1> QED
  BY <1>1 DEF AnyJob, IntakeJob, AttemptJob, ResultJob, ResultStep, ProofJob, ProofStep

\* What a job carries follows from its step.
LEMMA JobParts ==
    ASSUME NEW j \in AnyJob
    PROVE  /\ j.step = "idle" <=> j = Idle
           /\ j.step \in PlainStep => j \in PlainJob
           /\ j.step \in ResultStep => j \in ResultJob
           /\ j.step \in ProofStep => j \in ProofJob
           /\ j.step = "prior" => j.version \in Versions
           /\ j.step = "save" => j.source \in Sources /\ j.answer \in BOOLEAN
BY Jobs DEF PlainStep, ResultStep, ProofStep, Idle, PlainJob, ResultJob, ProofJob

LEMMA SourceParts ==
    ASSUME NEW a \in Sources
    PROVE  a[1] \in Versions /\ Mapping[a[1]] \in SUBSET Competencies
BY AssessmentAssumption

-----------------------------------------------------------------------------
\* Every set of natural numbers that is not empty has a least element.
LEMMA LeastOf ==
    ASSUME NEW T \in SUBSET Nat, T # {}
    PROVE  \E m \in T : \A k \in T : m <= k
<1>1. PICK m \in T : \A k \in T : <<k, m>> \notin OpToRel(<, Nat)
  BY NatLessThanWellFounded, WFMin
<1>2. \A k \in T : ~(k < m)
  BY <1>1 DEF OpToRel
<1> QED
  BY <1>2

\* There always is a next attempt number.
LEMMA NextNumberType ==
    ASSUME NEW v \in Versions
    PROVE  NextNumber(v) \in 1 .. MaxNumber + 1
<1> DEFINE taken == Numbers(v, AttemptState \ {"none"})
           T == {n \in Nat : \A m \in taken : m <= n}
           Fits(n) == (\A m \in taken : m < n) /\ (n = 1 \/ n - 1 \in taken)
<1>1. taken \subseteq 1..MaxNumber
  BY DEF Numbers
<1> HIDE DEF taken
<1>2. MaxNumber \in T /\ T \in SUBSET Nat
  BY <1>1, AssessmentAssumption
<1>3. PICK m \in T : \A k \in T : m <= k
  BY <1>2, LeastOf
<1>4. m \in Nat /\ m <= MaxNumber /\ \A k \in taken : k <= m
  BY <1>2, <1>3
<1>5. ASSUME m # 0, m \notin taken
      PROVE  FALSE
  <2>1. \A k \in taken : k <= m - 1
    BY <1>1, <1>4, <1>5, AssessmentAssumption
  <2>2. m - 1 \in T
    BY <1>4, <1>5, <2>1
  <2> QED
    BY <1>3, <1>4, <2>2
<1>6. m + 1 \in 1 .. MaxNumber + 1 /\ Fits(m + 1)
  BY <1>1, <1>4, <1>5, AssessmentAssumption
<1>7. NextNumber(v) = CHOOSE n \in 1..(MaxNumber + 1) : Fits(n)
  BY DEF NextNumber, taken
<1> QED
  <2> HIDE DEF Fits
  <2> QED
    BY <1>6, <1>7

-----------------------------------------------------------------------------
\* A job that may be under way.
Good(j) == j \in AnyJob /\ Carries(j) /\ Ingests(j)

WithProof(s, a, p, pending) == [step |-> s, source |-> a, proof |-> p, pending |-> pending]

LEMMA IdleGood == Good(Idle)
BY Jobs DEF Good, Carries, Ingests, Idle, ProofStep

LEMMA PlainGood ==
    ASSUME NEW a \in Sources, NEW s \in PlainStep,
           s = "skip" => a[1] \notin EvidenceProducing
    PROVE  Good(Job(s, a))
<1> DEFINE j == Job(s, a)
<1>1. j.step = s /\ j.source = a
  BY DEF Job
<1>2. j \in PlainJob
  BY DEF PlainJob, Job
<1>3. j \in AnyJob
  BY <1>2, Jobs
<1> HIDE DEF j
<1>4. Carries(j) /\ Ingests(j)
  BY <1>1 DEF Carries, Ingests, PlainStep, ProofStep
<1> QED
  BY <1>3, <1>4 DEF Good, j

LEMMA ResultGood ==
    ASSUME NEW a \in Sources, NEW s \in ResultStep, NEW r \in Results,
           s # "persist" => r = attempts[a],
           s \notin {"persist", "build"} => a[1] \in TestOut,
           s \in {"grant", "satisfy"} => r = "passed"
    PROVE  Good(JobWith(s, a, r))
<1> DEFINE j == JobWith(s, a, r)
<1>1. j.step = s /\ j.source = a /\ j.result = r
  BY DEF JobWith
<1>2. j \in ResultJob
  BY DEF ResultJob, JobWith
<1>3. j \in AnyJob
  BY <1>2, Jobs
<1> HIDE DEF j
<1>4. Carries(j) /\ Ingests(j)
  BY <1>1 DEF Carries, Ingests, ResultStep, ProofStep
<1> QED
  BY <1>3, <1>4 DEF Good, j

LEMMA ProofGood ==
    ASSUME NEW a \in Sources, NEW s \in ProofStep \ {"conflict"},
           NEW p \in Proof, NEW pending \in SUBSET p.mapping,
           p = ProofOf(a), Terminal(a), a[1] \in EvidenceProducing,
           s \in {"find", "insert", "reread"} => pending = p.mapping,
           s \in {"reread", "link"} => evidence[a] # NoEvidence,
           s = "link" => \A c \in p.mapping \ pending : <<a, c>> \in links
    PROVE  Good(WithProof(s, a, p, pending))
<1> DEFINE j == WithProof(s, a, p, pending)
<1>1. j.step = s /\ j.source = a /\ j.proof = p /\ j.pending = pending
  BY DEF WithProof
<1>2. pending \in SUBSET Competencies
  BY DEF Proof
<1>3. j \in ProofJob
  BY <1>2 DEF ProofJob, WithProof
<1>4. j \in AnyJob
  BY <1>3, Jobs
<1> HIDE DEF j
<1>5. Carries(j) /\ Ingests(j)
  BY <1>1 DEF Carries, Ingests, ProofStep
<1> QED
  BY <1>4, <1>5 DEF Good, j

\* Going on to another step keeps what the job carries.
LEMMA Renamed ==
    ASSUME NEW j, NEW s
    PROVE  /\ j \in PlainJob => [j EXCEPT !.step = s] = Job(s, j.source)
           /\ j \in ResultJob => [j EXCEPT !.step = s] = JobWith(s, j.source, j.result)
           /\ j \in ProofJob =>
                [j EXCEPT !.step = s] = WithProof(s, j.source, j.proof, j.pending)
<1>1. ASSUME j \in PlainJob
      PROVE  [j EXCEPT !.step = s] = Job(s, j.source)
  BY <1>1 DEF PlainJob, Job
<1>2. ASSUME j \in ResultJob
      PROVE  [j EXCEPT !.step = s] = JobWith(s, j.source, j.result)
  BY <1>2 DEF ResultJob, JobWith
<1>3. ASSUME j \in ProofJob
      PROVE  [j EXCEPT !.step = s] = WithProof(s, j.source, j.proof, j.pending)
  BY <1>3 DEF ProofJob, WithProof
<1> QED
  BY <1>1, <1>2, <1>3

-----------------------------------------------------------------------------
(* The tables.                                                              *)

\* What no step takes back.
Grows ==
    /\ \A a \in Sources : Terminal(a) => attempts'[a] = attempts[a]
    /\ \A a \in Sources : evidence[a] # NoEvidence => evidence'[a] = evidence[a]
    /\ links \subseteq links'

\* What a job of a worker relies on is never taken back.
LEMMA GoodStays ==
    ASSUME TypeOK, Grows, NEW j, Good(j)
    PROVE  Carries(j)' /\ Ingests(j)'
<1>1. /\ j.step \in ResultStep => j.source \in Sources /\ j.result \in Results
      /\ j.step \in ProofStep => j.source \in Sources
  BY JobParts DEF Good, ResultJob, ProofJob
<1>2. \A a \in Sources : attempts[a] \in Results => attempts'[a] = attempts[a]
  BY DEF Grows, Terminal
<1>3. /\ j.step \in {"grant", "satisfy", "review", "conclude", "build"} =>
            attempts'[j.source] = attempts[j.source]
      /\ j.step \in ProofStep => attempts'[j.source] = attempts[j.source]
  <2>1. CASE j.step \in {"grant", "satisfy", "review", "conclude", "build"}
    <3>1. j.step \notin ProofStep /\ j.step \in ResultStep
      BY <2>1 DEF ProofStep, ResultStep
    <3> QED
      BY <2>1, <3>1, <1>1, <1>2 DEF Good, Carries
  <2>2. CASE j.step \notin {"grant", "satisfy", "review", "conclude", "build"}
    BY <2>2, <1>1, <1>2 DEF Good, Carries, Terminal
  <2> QED
    BY <2>1, <2>2
<1>4. Carries(j)'
  BY <1>3 DEF Good, Carries, Terminal, ProofOf
<1>5. Ingests(j)'
  <2>1. j.step \in {"reread", "link"} => evidence'[j.source] = evidence[j.source]
    BY <1>1 DEF Grows, Good, Ingests, ProofStep
  <2> QED
    BY <2>1 DEF Grows, Good, Ingests
<1> QED
  BY <1>4, <1>5

-----------------------------------------------------------------------------
(* What the worker of each step holds afterwards.                           *)

\* Worker w goes on with job j.
Takes(w, j) == work' = [work EXCEPT ![w] = j]

LEMMA SoundWork ==
    ASSUME Inv, NEW w \in Workers
    PROVE  Good(work[w]) /\ work[w] \in AnyJob
BY DEF Inv, TypeOK, JobsAreSound, Good, AnyJob

LEMMA AskGood ==
    ASSUME Inv, NEW w \in Workers, Ask(w)
    PROVE  (\E j : Good(j) /\ Takes(w, j)) /\ KeepAttempts
<1>1. KeepAttempts
  BY DEF Ask, Start, Submit, Interrupt, Resume, Save
<1>2. CASE Start(w)
  <2> DEFINE j == [step |-> "prior", version |-> version]
  <2>1. j.step = "prior" /\ j \in AnyJob
    BY Jobs DEF Inv, TypeOK
  <2>2. Takes(w, j)
    BY <1>2 DEF Start, Begin, Takes
  <2> HIDE DEF j
  <2>3. Good(j)
    BY <2>1 DEF Good, Carries, Ingests, ProofStep
  <2> QED
    BY <1>1, <2>2, <2>3
<1>3. ASSUME NEW a \in Sources, NEW answer \in BOOLEAN, Save(w, a, answer)
      PROVE  \E j : Good(j) /\ Takes(w, j)
  <2> DEFINE j == [step |-> "save", source |-> a, answer |-> answer]
  <2>1. j.step = "save" /\ j \in AnyJob
    BY Jobs
  <2>2. Takes(w, j)
    BY <1>3 DEF Save, Begin, Takes
  <2> HIDE DEF j
  <2>3. Good(j)
    BY <2>1 DEF Good, Carries, Ingests, ProofStep
  <2> QED
    BY <2>2, <2>3
<1>4. ASSUME NEW a \in Sources, Submit(w, a) \/ Interrupt(w, a) \/ Resume(w, a)
      PROVE  \E j : Good(j) /\ Takes(w, j)
  <2>1. \E s \in {"version", "interrupt", "resume"} : Takes(w, Job(s, a))
    BY <1>4 DEF Submit, Interrupt, Resume, Begin, Takes
  <2>2. \A s \in {"version", "interrupt", "resume"} : Good(Job(s, a))
    BY PlainGood DEF PlainStep
  <2> QED
    BY <2>1, <2>2
<1> QED
  BY <1>1, <1>2, <1>3, <1>4 DEF Ask

\* The steps that end a request, or begin the consumption.
LEMMA EndsGood ==
    ASSUME Inv, NEW w \in Workers,
           Create(w) \/ StoreAnswer(w) \/ StoreInterruption(w) \/ StoreResumption(w)
    PROVE  Good(Idle) /\ Takes(w, Idle)
BY IdleGood DEF Create, StoreAnswer, StoreInterruption, StoreResumption, Finish, Takes

LEMMA PriorGood ==
    ASSUME Inv, NEW w \in Workers, ReadPrior(w)
    PROVE  \E j : Good(j) /\ Takes(w, j)
<1> DEFINE v == work[w].version
           n == NextNumber(v)
<1>1. v \in Versions
  BY SoundWork, JobParts DEF ReadPrior, At
<1>2. n \in 1 .. MaxNumber + 1
  BY <1>1, NextNumberType
<1>3. Takes(w, Idle) \/ (n <= MaxNumber /\ Takes(w, Job("create", <<v, n>>)))
  BY DEF ReadPrior, Finish, Continue, Takes
<1> HIDE DEF v, n
<1>4. ASSUME n <= MaxNumber
      PROVE  Good(Job("create", <<v, n>>))
  <2>1. <<v, n>> \in Sources
    BY <1>1, <1>2, <1>4, AssessmentAssumption
  <2> QED
    BY <2>1, PlainGood DEF PlainStep
<1> QED
  BY <1>3, <1>4, IdleGood

LEMMA SubmissionGood ==
    ASSUME Inv, NEW w \in Workers, CheckVersion(w) \/ Score(w) \/ Persist(w)
    PROVE  \E j : Good(j) /\ Takes(w, j)
<1>1. work[w].step \in PlainStep \cup ResultStep
  BY DEF CheckVersion, Score, Persist, At, PlainStep, ResultStep
<1>2. Source(w) \in Sources
  BY <1>1, SoundWork, JobParts DEF Source, PlainJob, ResultJob
<1>3. CASE CheckVersion(w)
  <2>1. work[w] \in PlainJob
    BY <1>3, SoundWork, JobParts DEF CheckVersion, At, PlainStep
  <2>2. Takes(w, Idle) \/ Takes(w, Job("score", Source(w)))
    BY <1>3, <2>1, Renamed DEF CheckVersion, GoTo, Finish, Takes, Source, TypeOK, Inv
  <2>3. Good(Job("score", Source(w)))
    BY <1>2, PlainGood DEF PlainStep
  <2> QED
    BY <2>2, <2>3, IdleGood
<1>4. CASE Score(w)
  <2>1. \E r \in Results : Takes(w, JobWith("persist", Source(w), r))
    BY <1>4, AssessmentAssumption DEF Score, Continue, Takes
  <2>2. \A r \in Results : Good(JobWith("persist", Source(w), r))
    BY <1>2, ResultGood DEF ResultStep
  <2> QED
    BY <2>1, <2>2
<1>5. CASE Persist(w)
  <2>1. Takes(w, Job("outcome", Source(w)))
    BY <1>5 DEF Persist, Continue, Takes
  <2>2. Good(Job("outcome", Source(w)))
    BY <1>2, PlainGood DEF PlainStep
  <2> QED
    BY <2>1, <2>2
<1> QED
  BY <1>3, <1>4, <1>5

LEMMA OutcomeGood ==
    ASSUME Inv, NEW w \in Workers,
           \/ ReadOutcome(w) \/ GrantCompetencies(w) \/ SatisfyReadiness(w)
           \/ SetReview(w) \/ InsertOutcome(w)
    PROVE  \E j : Good(j) /\ Takes(w, j)
<1> DEFINE a == Source(w)
           r == work[w].result
<1>1. work[w].step \in {"outcome"} \cup ResultStep
  BY DEF ReadOutcome, GrantCompetencies, SatisfyReadiness, SetReview, InsertOutcome, At,
         ResultStep
<1>2. a \in Sources
  BY <1>1, SoundWork, JobParts DEF Source, PlainJob, ResultJob, PlainStep
<1>3. Good(Job("handoff", a))
  BY <1>2, PlainGood DEF PlainStep
<1>4. CASE ReadOutcome(w)
  <2>1. work[w] \in PlainJob
    BY <1>4, SoundWork, JobParts DEF ReadOutcome, At, PlainStep
  <2>2. CASE ~(~Terminal(a) \/ a[1] \notin TestOut \/ outcomes[a] # "none")
    <3>1. attempts[a] \in Results /\ a[1] \in TestOut
      BY <2>2 DEF Terminal
    <3>2. Takes(w, JobWith(IF attempts[a] = "passed" THEN "grant" ELSE "review",
                           a, attempts[a]))
      BY <1>4, <2>2 DEF ReadOutcome, Continue, Takes
    <3>3. CASE attempts[a] = "passed"
      BY <1>2, <3>1, <3>2, <3>3, ResultGood DEF ResultStep
    <3>4. CASE attempts[a] # "passed"
      BY <1>2, <3>1, <3>2, <3>4, ResultGood DEF ResultStep
    <3> QED
      BY <3>3, <3>4
  <2>3. CASE ~Terminal(a) \/ a[1] \notin TestOut \/ outcomes[a] # "none"
    <3>1. Takes(w, Job("handoff", a))
      BY <1>4, <2>1, <2>3, Renamed DEF ReadOutcome, GoTo, Takes, Source, Inv, TypeOK
    <3> QED
      BY <3>1, <1>3
  <2> QED
    BY <2>2, <2>3
<1>5. CASE InsertOutcome(w)
  BY <1>5, <1>3, IdleGood DEF InsertOutcome, Continue, Finish, Takes
<1>6. CASE GrantCompetencies(w) \/ SatisfyReadiness(w) \/ SetReview(w)
  <2>1. work[w].step \in {"grant", "satisfy", "review"}
    BY <1>6 DEF GrantCompetencies, SatisfyReadiness, SetReview, At
  <2>2. work[w] \in ResultJob /\ r \in Results
    BY <2>1, SoundWork, JobParts DEF ResultStep, ResultJob
  <2>3. r = attempts[a] /\ a[1] \in TestOut
        /\ (work[w].step \in {"grant", "satisfy"} => r = "passed")
    BY <2>1, SoundWork DEF Good, Carries, Source
  <2>4. \E s \in {"satisfy", "review", "conclude"} :
          /\ s = "satisfy" => work[w].step = "grant"
          /\ work' = [work EXCEPT ![w].step = s]
    BY <1>6 DEF GrantCompetencies, SatisfyReadiness, SetReview, At, GoTo
  <2>5. PICK s \in {"satisfy", "review", "conclude"} :
          /\ s = "satisfy" => work[w].step = "grant"
          /\ Takes(w, JobWith(s, a, r))
    <3>1. \A s : [work[w] EXCEPT !.step = s] = JobWith(s, a, r)
      BY <2>2, Renamed DEF Source
    <3> QED
      BY <2>4, <3>1 DEF Takes, Inv, TypeOK
  <2>6. Good(JobWith(s, a, r))
    BY <1>2, <2>2, <2>3, <2>5, ResultGood DEF ResultStep
  <2> QED
    BY <2>5, <2>6
<1> QED
  BY <1>4, <1>5, <1>6

LEMMA HandoffGood ==
    ASSUME Inv, NEW w \in Workers, ReadResult(w) \/ BuildHandoff(w) \/ ReadFacts(w)
    PROVE  \E j : Good(j) /\ Takes(w, j)
<1> DEFINE a == Source(w)
<1>1. /\ ReadResult(w) \/ ReadFacts(w) => work[w] \in PlainJob
      /\ BuildHandoff(w) => work[w] \in ResultJob
  BY SoundWork, JobParts DEF ReadResult, BuildHandoff, ReadFacts, At, PlainStep, ResultStep
<1>2. a \in Sources
  BY <1>1 DEF Source, PlainJob, ResultJob
<1>3. Good(Job("facts", a)) /\ Good(Job("failed", a))
  BY <1>2, PlainGood DEF PlainStep
<1>4. CASE ReadResult(w)
  <2>1. CASE Terminal(a)
    <3>1. Takes(w, JobWith("build", a, attempts[a]))
      BY <1>4, <2>1 DEF ReadResult, Continue, Takes
    <3>2. Good(JobWith("build", a, attempts[a]))
      BY <1>2, <2>1, ResultGood DEF ResultStep, Terminal
    <3> QED
      BY <3>1, <3>2
  <2>2. CASE ~Terminal(a)
    BY <1>1, <1>3, <1>4, <2>2, Renamed DEF ReadResult, GoTo, Takes, Source, Inv, TypeOK
  <2> QED
    BY <2>1, <2>2
<1>5. CASE BuildHandoff(w)
  BY <1>3, <1>5 DEF BuildHandoff, Continue, Takes
<1>6. CASE ReadFacts(w)
  <2>1. CASE handoffs[a] = "none"
    BY <1>3, <1>6, <2>1 DEF ReadFacts, FailJob, Takes, Job
  <2>2. CASE handoffs[a] # "none" /\ a[1] \in EvidenceProducing /\ Terminal(a)
    <3> DEFINE p == [result |-> handoffs[a], mapping |-> Mapping[a[1]]]
    <3>1. p = ProofOf(a) /\ p.mapping = Mapping[a[1]]
      BY <1>2, <2>2 DEF Inv, ProvenOnly, ProofOf
    <3>2. p \in Proof
      BY <1>2, <2>2, SourceParts DEF Proof, Inv, TypeOK
    <3>3. Takes(w, WithProof("find", a, p, p.mapping))
      BY <1>6, <2>2 DEF ReadFacts, Continue, Takes, Ingest, WithProof
    <3> HIDE DEF p
    <3>4. Good(WithProof("find", a, p, p.mapping))
      BY <1>2, <2>2, <3>1, <3>2, ProofGood DEF ProofStep
    <3> QED
      BY <3>3, <3>4
  <2>3. CASE ~(a[1] \in EvidenceProducing /\ Terminal(a)) /\ handoffs[a] # "none"
    <3>1. Takes(w, Job("skip", a))
      BY <1>1, <1>6, <2>3, Renamed DEF ReadFacts, GoTo, Takes, Source, Inv, TypeOK
    <3>2. Terminal(a)
      BY <1>2, <2>3 DEF Inv, TypeOK, ProvenOnly, Terminal
    <3>3. Good(Job("skip", a))
      BY <1>2, <2>3, <3>2, PlainGood DEF PlainStep
    <3> QED
      BY <3>1, <3>3
  <2> QED
    BY <2>1, <2>2, <2>3
<1> QED
  BY <1>4, <1>5, <1>6

LEMMA ServeGood ==
    ASSUME Inv, NEW w \in Workers, Serve(w)
    PROVE  \E j : Good(j) /\ Takes(w, j)
BY EndsGood, PriorGood, SubmissionGood, OutcomeGood, HandoffGood DEF Serve

\* The job of a worker that ingests.
LEMMA ProofParts ==
    ASSUME Inv, NEW w \in Workers, work[w].step \in ProofStep
    PROVE  /\ Source(w) \in Sources /\ work[w].proof \in Proof
           /\ work[w] \in ProofJob
           /\ work[w].pending \in SUBSET work[w].proof.mapping
           /\ work[w].proof = ProofOf(Source(w)) /\ Terminal(Source(w))
           /\ Source(w)[1] \in EvidenceProducing
<1>1. work[w] \in ProofJob /\ Carries(work[w]) /\ Ingests(work[w])
  BY SoundWork, JobParts DEF Good
<1>2. work[w].pending \in SUBSET work[w].proof.mapping
  BY <1>1 DEF Ingests, ProofStep
<1> QED
  BY <1>1, <1>2 DEF Source, Carries, ProofJob

LEMMA FailGood ==
    ASSUME Inv, NEW w \in Workers, work[w].step \in ProofStep, FailJob(w)
    PROVE  \E j : Good(j) /\ Takes(w, j)
<1>1. Takes(w, Job("failed", Source(w)))
  BY DEF FailJob, Takes, Job
<1>2. Good(Job("failed", Source(w)))
  BY ProofParts, PlainGood DEF PlainStep
<1> QED
  BY <1>1, <1>2

LEMMA CompareGood ==
    ASSUME Inv, NEW w \in Workers, FindEvidence(w) \/ RereadEvidence(w)
    PROVE  \E j : Good(j) /\ Takes(w, j)
<1> DEFINE a == Source(w)
           p == work[w].proof
           pending == work[w].pending
<1>1. work[w].step \in {"find", "reread"} /\ work[w].step \in ProofStep
  BY DEF FindEvidence, RereadEvidence, At, ProofStep
<1>2. /\ a \in Sources /\ p \in Proof /\ work[w] \in ProofJob
      /\ p = ProofOf(a) /\ Terminal(a) /\ a[1] \in EvidenceProducing
  BY <1>1, ProofParts
<1>3. pending = p.mapping
  BY <1>1, SoundWork DEF Good, Ingests
<1>4. \A s : GoTo(w, s) => Takes(w, WithProof(s, a, p, pending))
  BY <1>2, Renamed DEF GoTo, Takes, Source, Inv, TypeOK
<1>5. CASE evidence[a] = NoEvidence
  <2>1. work[w].step # "reread"
    BY <1>5, SoundWork DEF Good, Ingests, Source
  <2>2. GoTo(w, "insert")
    BY <1>5, <2>1 DEF FindEvidence, RereadEvidence, At
  <2>3. Good(WithProof("insert", a, p, pending))
    BY <1>2, <1>3, ProofGood DEF ProofStep
  <2> QED
    BY <1>4, <2>2, <2>3
<1>6. CASE evidence[a] # NoEvidence
  <2>1. evidence[a] = p
    BY <1>2, <1>6 DEF Inv, ProvenOnly
  <2>2. GoTo(w, "link")
    BY <1>6, <2>1 DEF FindEvidence, RereadEvidence, Compare
  <2>3. Good(WithProof("link", a, p, pending))
    BY <1>2, <1>3, <1>6, ProofGood DEF ProofStep
  <2> QED
    BY <1>4, <2>2, <2>3
<1> QED
  BY <1>5, <1>6

\* A worker that inserted, or lost the race for it, finds a record there.
LEMMA InsertGood ==
    ASSUME Inv, NEW w \in Workers, InsertEvidence(w), UNCHANGED attempts
    PROVE  \E j \in AnyJob : Carries(j)' /\ Ingests(j)' /\ Takes(w, j)
<1>1. work[w].step = "insert" /\ work[w].step \in ProofStep
  BY DEF InsertEvidence, At, ProofStep
<1>2. PICK a, p, pending :
        /\ a = Source(w) /\ p = work[w].proof /\ pending = work[w].pending
        /\ a \in Sources /\ p \in Proof /\ work[w] \in ProofJob
        /\ p = ProofOf(a) /\ Terminal(a) /\ a[1] \in EvidenceProducing
        /\ pending \in SUBSET p.mapping
  BY <1>1, ProofParts
<1>3. pending = p.mapping
  BY <1>1, <1>2, SoundWork DEF Good, Ingests
<1>4. p # NoEvidence
  BY <1>2, IntakeAssumption
<1>5. evidence'[a] # NoEvidence
  BY <1>2, <1>4 DEF InsertEvidence, Inv, TypeOK, IntakeTypeOK
<1>6. PICK s \in {"link", "reread"} : Takes(w, WithProof(s, a, p, pending))
  <2>1. PICK s \in {"link", "reread"} : work' = [work EXCEPT ![w].step = s]
    BY DEF InsertEvidence, GoTo
  <2>2. [work[w] EXCEPT !.step = s] = WithProof(s, a, p, pending)
    BY <1>2, Renamed DEF Source
  <2> QED
    BY <2>1, <2>2 DEF Takes, Inv, TypeOK
<1>7. PICK j : j = WithProof(s, a, p, pending)
  OBVIOUS
<1>8. j.step = s /\ j.source = a /\ j.proof = p /\ j.pending = pending
  BY <1>7 DEF WithProof
<1>9. j \in AnyJob
  <2>1. pending \in SUBSET Competencies
    BY <1>2, <1>3 DEF Proof
  <2>2. j \in ProofJob
    BY <1>2, <1>6, <1>7, <2>1 DEF ProofJob, ProofStep, WithProof
  <2> QED
    BY <2>2, Jobs
<1>10. Carries(j)'
  <2>1. Carries(j)
    BY <1>2, <1>6, <1>8 DEF Carries, ProofStep
  <2> QED
    BY <2>1 DEF Carries, Terminal, ProofOf
<1>11. Ingests(j)'
  BY <1>3, <1>5, <1>6, <1>8 DEF Ingests
<1> QED
  BY <1>6, <1>7, <1>9, <1>10, <1>11

LEMMA LinkGood ==
    ASSUME Inv, NEW w \in Workers, NEW c \in Competencies, LinkCompetency(w, c),
           UNCHANGED attempts
    PROVE  \E j \in AnyJob : Carries(j)' /\ Ingests(j)' /\ Takes(w, j)
<1>1. work[w].step = "link" /\ work[w].step \in ProofStep
  BY DEF LinkCompetency, At, ProofStep
<1>2. PICK a, p, pending :
        /\ a = Source(w) /\ p = work[w].proof /\ pending = work[w].pending
        /\ a \in Sources /\ p \in Proof /\ work[w] \in ProofJob
        /\ p = ProofOf(a) /\ Terminal(a) /\ a[1] \in EvidenceProducing
        /\ pending \in SUBSET p.mapping
  BY <1>1, ProofParts
<1>3. evidence[a] # NoEvidence /\ \A k \in p.mapping \ pending : <<a, k>> \in links
  BY <1>1, <1>2, SoundWork DEF Good, Ingests, Source
<1>4. CASE c \in approved
  <2>1. links' = links \cup {<<a, c>>} /\ evidence' = evidence
    BY <1>2, <1>4 DEF LinkCompetency
  <2>2. PICK j : j = WithProof("link", a, p, pending \ {c})
    OBVIOUS
  <2>3. Takes(w, j)
    <3>1. work[w] = WithProof("link", a, p, pending)
      BY <1>1, <1>2 DEF WithProof, Source, ProofJob
    <3>2. [work[w] EXCEPT !.pending = work[w].pending \ {c}] = j
      <4> DEFINE old == WithProof("link", a, p, pending)
      <4>1. [old EXCEPT !.pending = pending \ {c}] = j
        BY <2>2 DEF WithProof
      <4> HIDE DEF old
      <4> QED
        BY <1>2, <3>1, <4>1 DEF old
    <3> QED
      BY <1>4, <3>2 DEF LinkCompetency, Takes, Inv, TypeOK
  <2>4. j \in AnyJob
    <3>1. pending \ {c} \in SUBSET Competencies
      BY <1>2 DEF Proof
    <3>2. j \in ProofJob
      BY <1>2, <2>2, <3>1 DEF ProofJob, ProofStep, WithProof
    <3> QED
      BY <3>2, Jobs
  <2>5. j.step = "link" /\ j.source = a /\ j.proof = p /\ j.pending = pending \ {c}
    BY <2>2 DEF WithProof
  <2>6. Carries(j)'
    <3>1. Carries(j)
      BY <1>2, <2>5 DEF Carries, ProofStep
    <3> QED
      BY <3>1 DEF Carries, Terminal, ProofOf
  <2>7. Ingests(j)'
    <3>1. \A k \in p.mapping \ (pending \ {c}) : <<a, k>> \in links'
      BY <1>3, <2>1
    <3> QED
      BY <1>2, <1>3, <2>1, <2>5, <3>1 DEF Ingests
  <2> QED
    BY <2>3, <2>4, <2>6, <2>7
<1>5. CASE c \notin approved
  <2>1. FailJob(w) /\ UNCHANGED <<links, evidence>>
    BY <1>5 DEF LinkCompetency
  <2>2. PICK k : Good(k) /\ Takes(w, k)
    BY <1>1, <2>1, FailGood
  <2>3. Carries(k)' /\ Ingests(k)'
    BY <2>1, <2>2 DEF Good, Carries, Ingests, Terminal, ProofOf
  <2> QED
    BY <2>2, <2>3 DEF Good
<1> QED
  BY <1>4, <1>5

LEMMA RecordGood ==
    ASSUME Inv, NEW w \in Workers,
           \/ RecordConsumed(w) \/ RecordSkipped(w) \/ RecordFailure(w)
           \/ LoseRoundTrip(w) \/ Crash(w)
    PROVE  \E j : Good(j) /\ Takes(w, j)
<1>1. CASE LoseRoundTrip(w)
  BY <1>1, FailGood DEF LoseRoundTrip, ProofStep
<1>2. CASE ~LoseRoundTrip(w)
  BY <1>2, IdleGood DEF RecordConsumed, RecordSkipped, RecordFailure, Crash, Finish, Takes
<1> QED
  BY <1>1, <1>2

-----------------------------------------------------------------------------
(* What each step does to the tables.                                       *)

\* The steps before ingestion leave the ingestion's tables alone, and the
\* steps of ingestion the attempt's.
LEMMA Frames ==
    ASSUME NEW w \in Workers
    PROVE  /\ Serve(w) => UNCHANGED <<intakeVars, approved, version>>
           /\ Ask(w) => KeepAttempts
           /\ \A a \in Sources : Retry(w, a) => KeepAttempts
BY DEF Serve, ReadPrior, Create, StoreAnswer, StoreInterruption, StoreResumption, CheckVersion,
       Score, Persist, ReadOutcome, GrantCompetencies, SatisfyReadiness, SetReview,
       InsertOutcome, ReadResult, BuildHandoff, ReadFacts, Ask, Start, Submit, Interrupt,
       Resume, Save, Retry, KeepAttempts

\* The attempts table: rows are inserted once and updated where they are open.
LEMMA AttemptsNext ==
    ASSUME Inv, NEW w \in Workers, Serve(w)
    PROVE  /\ attempts' \in [Sources -> AttemptState]
           /\ \A a \in Sources : Terminal(a) => attempts'[a] = attempts[a]
<1>1. CASE UNCHANGED attempts
  BY <1>1 DEF Inv, TypeOK
<1>2. CASE ~UNCHANGED attempts
  <2>1. \/ Create(w) \/ StoreInterruption(w) \/ StoreResumption(w) \/ Persist(w)
    BY <1>2 DEF Serve, ReadPrior, StoreAnswer, CheckVersion, Score, ReadOutcome,
       GrantCompetencies, SatisfyReadiness, SetReview, InsertOutcome, ReadResult, BuildHandoff,
       ReadFacts, KeepAttempts, attemptVars
  <2>2. Persist(w) => work[w].result \in Results
    BY SoundWork, JobParts DEF Persist, At, ResultStep, ResultJob
  <2>3. \E from \in {"none", "in_progress", "interrupted"}, to \in AttemptState :
          /\ attempts[Source(w)] = from
          /\ attempts' = [attempts EXCEPT ![Source(w)] = to]
    BY <1>2, <2>1, <2>2 DEF Create, StoreInterruption, StoreResumption, Persist, Move,
       AttemptState
  <2>4. \A from \in {"none", "in_progress", "interrupted"} : from \notin Results
    BY AssessmentAssumption
  <2> QED
    BY <2>3, <2>4 DEF Inv, TypeOK, Terminal
<1> QED
  BY <1>1, <1>2

\* Outcomes, grants and handoffs are written of the stored result only.
LEMMA DerivedNext ==
    ASSUME Inv, NEW w \in Workers, Serve(w)
    PROVE  /\ outcomes' \in [Sources -> Results \cup {"none"}]
           /\ handoffs' \in [Sources -> Results \cup {"none"}]
           /\ grants' \in SUBSET (Competencies \cup {Readiness})
           /\ review' \in BOOLEAN /\ answers' \in [Sources -> BOOLEAN]
           /\ \A a \in Sources : outcomes'[a] # outcomes[a] => outcomes'[a] = attempts[a]
           /\ \A a \in Sources : handoffs'[a] # handoffs[a] => handoffs'[a] = attempts[a]
           /\ grants' # grants => \E a \in Sources : attempts[a] = "passed" /\ a[1] \in TestOut
<1>1. CASE BuildHandoff(w)
  <2>1. work[w].step = "build" /\ work[w] \in ResultJob
    BY <1>1, SoundWork, JobParts DEF BuildHandoff, At, ResultStep
  <2>2. Source(w) \in Sources /\ work[w].result \in Results
        /\ work[w].result = attempts[Source(w)]
    BY <2>1, SoundWork DEF Good, Carries, ResultJob, Source
  <2> QED
    BY <1>1, <2>2 DEF BuildHandoff, Inv, TypeOK, attemptVars, readinessVars
<1>2. CASE InsertOutcome(w)
  <2>1. work[w].step = "conclude" /\ work[w] \in ResultJob
    BY <1>2, SoundWork, JobParts DEF InsertOutcome, At, ResultStep
  <2>2. Source(w) \in Sources /\ work[w].result \in Results
        /\ work[w].result = attempts[Source(w)]
    BY <2>1, SoundWork DEF Good, Carries, ResultJob, Source
  <2> QED
    BY <1>2, <2>2 DEF InsertOutcome, Inv, TypeOK, attemptVars
<1>3. CASE GrantCompetencies(w) \/ SatisfyReadiness(w)
  <2>1. work[w].step \in {"grant", "satisfy"} /\ work[w] \in ResultJob
    BY <1>3, SoundWork, JobParts DEF GrantCompetencies, SatisfyReadiness, At, ResultStep
  <2>2. Source(w) \in Sources /\ attempts[Source(w)] = "passed" /\ Source(w)[1] \in TestOut
    BY <2>1, SoundWork DEF Good, Carries, ResultJob, Source
  <2>3. Mapping[Source(w)[1]] \in SUBSET Competencies
    BY <2>2, SourceParts
  <2> QED
    BY <1>3, <2>2, <2>3 DEF GrantCompetencies, SatisfyReadiness, Inv, TypeOK, attemptVars
<1>4. CASE StoreAnswer(w)
  <2>1. work[w].answer \in BOOLEAN
    BY <1>4, SoundWork, JobParts DEF StoreAnswer, At
  <2>2. answers' \in [Sources -> BOOLEAN]
    BY <1>4, <2>1 DEF StoreAnswer, Inv, TypeOK
  <2> QED
    BY <1>4, <2>2 DEF StoreAnswer, Inv, TypeOK, readinessVars
<1>5. CASE SetReview(w)
  BY <1>5 DEF SetReview, Inv, TypeOK, attemptVars
<1>6. CASE ReadPrior(w) \/ CheckVersion(w) \/ Score(w) \/ ReadOutcome(w) \/ ReadResult(w)
           \/ ReadFacts(w)
  BY <1>6 DEF ReadPrior, CheckVersion, Score, ReadOutcome, ReadResult, ReadFacts, KeepAttempts,
     Inv, TypeOK, attemptVars, readinessVars
<1>7. CASE Create(w) \/ StoreInterruption(w) \/ StoreResumption(w) \/ Persist(w)
  BY <1>7 DEF Create, StoreInterruption, StoreResumption, Persist, Inv, TypeOK, readinessVars
<1> QED
  BY <1>1, <1>2, <1>3, <1>4, <1>5, <1>6, <1>7 DEF Serve

\* A step of ingestion, table by table: what is written there is the proof of
\* the attempt, within its mapping; only a complete event is consumed, and only
\* one that is never recorded is skipped.
LEMMA IngestionNext ==
    ASSUME Inv, NEW w \in Workers, IntakeStep(w)
    PROVE  \/ UNCHANGED <<evidence, links, consumption>>
           \/ \E a \in Sources :
                 /\ evidence[a] = NoEvidence
                 /\ ProofOf(a) \in Proof /\ Terminal(a) /\ a[1] \in EvidenceProducing
                 /\ evidence' = [evidence EXCEPT ![a] = ProofOf(a)]
                 /\ UNCHANGED <<links, consumption>>
           \/ \E a \in Sources, c \in Competencies :
                 /\ Ledger!Recorded(a) /\ c \in evidence[a].mapping
                 /\ links' = links \cup {<<a, c>>}
                 /\ UNCHANGED <<evidence, consumption>>
           \/ \E a \in Sources, state \in {"consumed", "skipped", "failed"} :
                 /\ consumption' = [consumption EXCEPT ![a] = state]
                 /\ state = "consumed" => Ledger!Complete(a)
                 /\ state = "skipped" => ~Ledger!Recorded(a)
                 /\ UNCHANGED <<evidence, links>>
<1>1. CASE InsertEvidence(w)
  <2>1. work[w].step \in ProofStep
    BY <1>1 DEF InsertEvidence, At, ProofStep
  <2>2. /\ Source(w) \in Sources /\ work[w].proof \in Proof
        /\ work[w].proof = ProofOf(Source(w)) /\ Terminal(Source(w))
        /\ Source(w)[1] \in EvidenceProducing
    BY <2>1, ProofParts
  <2> QED
    BY <1>1, <2>2 DEF InsertEvidence
<1>2. ASSUME NEW c \in Competencies, LinkCompetency(w, c)
      PROVE  \/ UNCHANGED <<evidence, links, consumption>>
             \/ \E a \in Sources :
                   /\ Ledger!Recorded(a) /\ c \in evidence[a].mapping
                   /\ links' = links \cup {<<a, c>>}
                   /\ UNCHANGED <<evidence, consumption>>
  <2>1. work[w].step = "link" /\ work[w].step \in ProofStep /\ c \in work[w].pending
    BY <1>2 DEF LinkCompetency, At, ProofStep
  <2>2. /\ Source(w) \in Sources /\ work[w].proof = ProofOf(Source(w))
        /\ c \in work[w].proof.mapping
    BY <2>1, ProofParts
  <2>3. evidence[Source(w)] # NoEvidence
    BY <2>1, SoundWork DEF Good, Ingests, Source
  <2>4. evidence[Source(w)] = ProofOf(Source(w))
    BY <2>2, <2>3 DEF Inv, ProvenOnly
  <2> QED
    BY <1>2, <2>2, <2>3, <2>4 DEF LinkCompetency, Ledger!Recorded
<1>3. CASE RecordConsumed(w)
  <2>1. work[w].step = "link" /\ work[w].step \in ProofStep /\ work[w].pending = {}
    BY <1>3 DEF RecordConsumed, At, ProofStep
  <2>2. Source(w) \in Sources /\ work[w].proof = ProofOf(Source(w))
    BY <2>1, ProofParts
  <2>3. /\ evidence[Source(w)] # NoEvidence
        /\ \A c \in work[w].proof.mapping : <<Source(w), c>> \in links
    BY <2>1, SoundWork DEF Good, Ingests, Source
  <2>4. evidence[Source(w)] = work[w].proof
    BY <2>2, <2>3 DEF Inv, ProvenOnly
  <2>5. Ledger!Complete(Source(w))
    BY <2>3, <2>4 DEF Ledger!Complete, Ledger!Recorded
  <2> QED
    BY <1>3, <2>2, <2>5 DEF RecordConsumed, Upsert
<1>4. CASE RecordSkipped(w)
  <2>1. work[w].step = "skip" /\ work[w] \in PlainJob
    BY <1>4, SoundWork, JobParts DEF RecordSkipped, At, PlainStep
  <2>2. Source(w) \in Sources /\ Source(w)[1] \notin EvidenceProducing
    BY <2>1, SoundWork DEF PlainJob, Source, Good, Carries
  <2>3. ~Ledger!Recorded(Source(w))
    BY <2>2 DEF Inv, ProvenOnly, Ledger!Recorded
  <2> QED
    BY <1>4, <2>2, <2>3 DEF RecordSkipped, Upsert
<1>5. CASE RecordFailure(w)
  <2>1. Source(w) \in Sources
    BY <1>5, SoundWork, JobParts DEF RecordFailure, PlainStep, ProofStep, PlainJob, ProofJob,
       Source
  <2> QED
    BY <1>5, <2>1 DEF RecordFailure, Upsert
<1>6. CASE FindEvidence(w) \/ RereadEvidence(w) \/ LoseRoundTrip(w) \/ Crash(w)
  BY <1>6 DEF FindEvidence, RereadEvidence, LoseRoundTrip, Crash, intakeVars
<1> QED
  BY <1>1, <1>2, <1>3, <1>4, <1>5, <1>6 DEF IntakeStep

-----------------------------------------------------------------------------
(* The invariant.                                                           *)

LEMMA RetryGood ==
    ASSUME Inv, NEW w \in Workers, NEW a \in Sources, Retry(w, a)
    PROVE  \E j : Good(j) /\ Takes(w, j)
<1>1. Good(Job("facts", a))
  BY PlainGood DEF PlainStep
<1> QED
  BY <1>1 DEF Retry, Begin, Takes

LEMMA Growth ==
    ASSUME Inv, [Next]_vars
    PROVE  Grows
<1>1. CASE UNCHANGED vars
  BY <1>1 DEF vars, intakeVars, attemptVars, Grows
<1>2. ASSUME NEW w \in Workers, Serve(w)
      PROVE  Grows
  BY <1>2, AttemptsNext, Frames DEF Grows, intakeVars
<1>3. ASSUME NEW w \in Workers, IntakeStep(w), KeepSurroundings
      PROVE  Grows
  <2>1. \/ UNCHANGED <<evidence, links>>
        \/ \E a \in Sources : /\ evidence[a] = NoEvidence
                              /\ evidence' = [evidence EXCEPT ![a] = ProofOf(a)]
                              /\ UNCHANGED links
        \/ \E l : links' = links \cup {l} /\ UNCHANGED evidence
    BY <1>3, IngestionNext
  <2> QED
    BY <1>3, <2>1 DEF KeepSurroundings, attemptVars, Grows, Inv, TypeOK, IntakeTypeOK
<1>4. ASSUME NEW w \in Workers, Ask(w) \/ \E a \in Sources : Retry(w, a)
      PROVE  Grows
  BY <1>4, Frames DEF KeepAttempts, intakeVars, attemptVars, Grows
<1>5. CASE (\E c \in Competencies : PublishCompetency(c) /\ KeepSurroundings) \/ PublishVersion
  BY <1>5 DEF PublishCompetency, KeepSurroundings, PublishVersion, intakeVars, attemptVars, Grows
<1> QED
  BY <1>1, <1>2, <1>3, <1>4, <1>5 DEF Next, Handler

LEMMA JobsNext ==
    ASSUME Inv, [Next]_vars
    PROVE  work' \in [Workers -> AnyJob] /\ JobsAreSound'
<1>1. Grows
  BY Growth
<1>2. work \in [Workers -> AnyJob]
  BY DEF Inv, TypeOK, AnyJob
<1>3. ASSUME NEW o \in Workers, work'[o] = work[o]
      PROVE  Carries(work[o])' /\ Ingests(work[o])'
  <2>1. PICK j : j = work[o]
    OBVIOUS
  <2>2. Good(j)
    BY <2>1, SoundWork
  <2>3. Carries(j)' /\ Ingests(j)'
    BY <1>1, <2>2, GoodStays DEF Inv
  <2>4. j = work'[o]
    BY <1>3, <2>1
  <2> QED
    BY <2>3, <2>4
<1>4. ASSUME NEW w \in Workers, NEW j, Good(j), Takes(w, j)
      PROVE  \E k \in AnyJob : Carries(k)' /\ Ingests(k)' /\ Takes(w, k)
  BY <1>1, <1>4, GoodStays DEF Inv, Good
<1>5. \/ UNCHANGED work
      \/ \E w \in Workers : \E j \in AnyJob : Carries(j)' /\ Ingests(j)' /\ Takes(w, j)
  <2> DEFINE Moves(w) == \E j \in AnyJob : Carries(j)' /\ Ingests(j)' /\ Takes(w, j)
  <2>1. ASSUME NEW w \in Workers, Serve(w) \/ \E a \in Sources : Retry(w, a)
        PROVE  Moves(w)
    BY <1>4, <2>1, ServeGood, RetryGood
  <2>2. ASSUME NEW w \in Handler, Ask(w)
        PROVE  Moves(w)
    BY <1>4, <2>2, AskGood DEF Handler
  <2>3. ASSUME NEW w \in Workers, IntakeStep(w), KeepSurroundings
        PROVE  Moves(w)
    <3>1. UNCHANGED attempts
      BY <2>3 DEF KeepSurroundings, attemptVars
    <3>2. CASE InsertEvidence(w)
      BY <3>1, <3>2, InsertGood
    <3>3. ASSUME NEW c \in Competencies, LinkCompetency(w, c)
          PROVE  Moves(w)
      BY <3>1, <3>3, LinkGood
    <3>4. CASE FindEvidence(w) \/ RereadEvidence(w)
      BY <1>4, <3>4, CompareGood
    <3>5. CASE \/ RecordConsumed(w) \/ RecordSkipped(w) \/ RecordFailure(w)
               \/ LoseRoundTrip(w) \/ Crash(w)
      BY <1>4, <3>5, RecordGood
    <3> QED
      BY <2>3, <3>2, <3>3, <3>4, <3>5 DEF IntakeStep
  <2>4. PublishVersion \/ UNCHANGED vars => UNCHANGED work
    BY DEF PublishVersion, vars
  <2>5. ASSUME NEW c \in Competencies, PublishCompetency(c)
        PROVE  UNCHANGED work
    BY <2>5 DEF PublishCompetency
  <2> HIDE DEF Moves
  <2>6. UNCHANGED work \/ \E w \in Workers : Moves(w)
    BY <2>1, <2>2, <2>3, <2>4, <2>5 DEF Next, Handler
  <2> QED
    BY <2>6 DEF Moves
<1>6. CASE UNCHANGED work
  BY <1>2, <1>3, <1>6 DEF JobsAreSound
<1>7. ASSUME NEW w \in Workers, NEW j \in AnyJob, Carries(j)', Ingests(j)', Takes(w, j)
      PROVE  work' \in [Workers -> AnyJob] /\ JobsAreSound'
  <2>1. work' \in [Workers -> AnyJob]
    BY <1>2, <1>7 DEF Takes
  <2>2. ASSUME NEW o \in Workers
        PROVE  Carries(work[o])' /\ Ingests(work[o])'
    <3>1. CASE o = w
      <4>1. work'[o] = j
        BY <1>2, <1>7, <3>1 DEF Takes
      <4> QED
        BY <1>7, <4>1
    <3>2. CASE o # w
      BY <1>2, <1>3, <1>7, <3>2 DEF Takes
    <3> QED
      BY <3>1, <3>2
  <2> QED
    BY <2>1, <2>2 DEF JobsAreSound
<1> QED
  BY <1>5, <1>6, <1>7

LEMMA TablesNext ==
    ASSUME Inv, [Next]_vars
    PROVE  TypeOK'
<1>1. work' \in [Workers -> AnyJob]
  BY JobsNext
<1>2. CASE UNCHANGED vars
  BY <1>2 DEF vars, intakeVars, attemptVars, readinessVars, Inv, TypeOK, IntakeTypeOK
<1>3. ASSUME NEW w \in Workers, Serve(w)
      PROVE  TypeOK'
  BY <1>1, <1>3, AttemptsNext, DerivedNext, Frames
     DEF Inv, TypeOK, IntakeTypeOK, AnyJob, intakeVars
<1>4. ASSUME NEW w \in Workers, IntakeStep(w), KeepSurroundings
      PROVE  TypeOK'
  <2>1. approved' = approved
    BY <1>4 DEF IntakeStep, FindEvidence, InsertEvidence, RereadEvidence, LinkCompetency,
       RecordConsumed, RecordSkipped, RecordFailure, LoseRoundTrip, Crash
  <2>2. /\ evidence' \in [Sources -> Proof \cup {NoEvidence}]
        /\ links' \in SUBSET (Sources \X Competencies)
        /\ consumption' \in [Sources -> Ledger!ConsumptionState]
    BY <1>4, IngestionNext DEF Inv, TypeOK, IntakeTypeOK, Ledger!ConsumptionState
  <2> QED
    BY <1>1, <1>4, <2>1, <2>2
       DEF KeepSurroundings, attemptVars, readinessVars, Inv, TypeOK, IntakeTypeOK, AnyJob
<1>5. ASSUME NEW w \in Workers, Ask(w) \/ \E a \in Sources : Retry(w, a)
      PROVE  TypeOK'
  BY <1>1, <1>5, Frames
     DEF KeepAttempts, intakeVars, attemptVars, readinessVars, Inv, TypeOK, IntakeTypeOK, AnyJob
<1>6. ASSUME NEW c \in Competencies, PublishCompetency(c), KeepSurroundings
      PROVE  TypeOK'
  BY <1>1, <1>6 DEF PublishCompetency, KeepSurroundings, intakeVars, attemptVars, readinessVars,
     Inv, TypeOK, IntakeTypeOK, AnyJob
<1>7. CASE PublishVersion
  <2>1. version' \in Versions
    BY <1>7, AssessmentAssumption DEF PublishVersion, Inv, TypeOK, Versions
  <2> QED
    BY <1>1, <1>7, <2>1 DEF PublishVersion, intakeVars, attemptVars, readinessVars,
       Inv, TypeOK, IntakeTypeOK, AnyJob
<1> QED
  BY <1>2, <1>3, <1>4, <1>5, <1>6, <1>7 DEF Next, Handler

\* What is derived from an attempt keeps repeating it.
LEMMA DerivationNext ==
    ASSUME Inv, [Next]_vars
    PROVE  ProvenOnly' /\ OutcomesRepeat' /\ GrantsAreEarned' /\ ConsumedIsComplete'
<1>1. /\ \A a \in Sources : attempts[a] \in Results => attempts'[a] = attempts[a]
      /\ \A a \in Sources : evidence[a] # NoEvidence => evidence'[a] = evidence[a]
      /\ links \subseteq links'
  BY Growth DEF Grows, Terminal
<1>2. /\ \A a \in Sources : outcomes[a] # "none" => attempts'[a] = attempts[a]
      /\ \A a \in Sources : handoffs[a] # "none" => attempts'[a] = attempts[a]
      /\ \A a \in Sources : attempts[a] = "passed" => attempts'[a] = "passed"
  BY <1>1, AssessmentAssumption DEF Inv, TypeOK, ProvenOnly, OutcomesRepeat
<1>3. /\ \A a \in Sources : outcomes'[a] # outcomes[a] => outcomes'[a] = attempts[a]
      /\ \A a \in Sources : handoffs'[a] # handoffs[a] => handoffs'[a] = attempts[a]
      /\ grants' # grants => \E a \in Sources : attempts[a] = "passed" /\ a[1] \in TestOut
  <2>1. ASSUME NEW w \in Workers, Serve(w)
        PROVE  <1>3!1 /\ <1>3!2 /\ <1>3!3
    BY <2>1, DerivedNext
  <2>2. ~(\E w \in Workers : Serve(w)) => UNCHANGED <<outcomes, handoffs, grants>>
    BY Frames DEF Next, Handler, KeepAttempts, KeepSurroundings, PublishCompetency,
       PublishVersion, readinessVars, vars
  <2> QED
    BY <2>1, <2>2
<1>4. OutcomesRepeat'
  BY <1>2, <1>3, JobsNext, TablesNext, <1>1, AssessmentAssumption
     DEF Inv, TypeOK, OutcomesRepeat
<1>5. GrantsAreEarned'
  BY <1>2, <1>3 DEF Inv, GrantsAreEarned
<1>6. ASSUME NEW a \in Sources, handoffs'[a] # "none"
      PROVE  handoffs'[a] = attempts'[a]
  BY <1>1, <1>2, <1>3, <1>6, TablesNext DEF Inv, TypeOK, ProvenOnly
<1>7. \/ UNCHANGED <<evidence, links, consumption>>
      \/ \E w \in Workers : IntakeStep(w) /\ KeepSurroundings
  BY Frames DEF Next, Handler, KeepAttempts, PublishCompetency, PublishVersion, intakeVars, vars
<1>8. ASSUME NEW a \in Sources, evidence'[a] # NoEvidence
      PROVE  /\ evidence'[a] = [result |-> attempts'[a], mapping |-> Mapping[a[1]]]
             /\ attempts'[a] \in Results /\ a[1] \in EvidenceProducing
  <2>1. CASE evidence[a] # NoEvidence
    BY <1>1, <2>1 DEF Inv, ProvenOnly, ProofOf, Terminal
  <2>2. CASE evidence[a] = NoEvidence
    <3>1. PICK w \in Workers : IntakeStep(w) /\ KeepSurroundings
      BY <1>7, <1>8, <2>2
    <3>2. PICK b \in Sources :
            /\ Terminal(b) /\ b[1] \in EvidenceProducing
            /\ evidence' = [evidence EXCEPT ![b] = ProofOf(b)]
      BY <1>8, <2>2, <3>1, IngestionNext
    <3>3. a = b
      BY <1>8, <2>2, <3>2 DEF Inv, TypeOK, IntakeTypeOK
    <3> QED
      BY <1>1, <3>2, <3>3 DEF Inv, TypeOK, IntakeTypeOK, ProofOf, Terminal
  <2> QED
    BY <2>1, <2>2
<1>9. ASSUME NEW a \in Sources, consumption'[a] = "consumed"
      PROVE  Ledger!Complete(a)'
  <2>1. Ledger!Complete(a)
    <3>1. CASE consumption[a] = "consumed"
      BY <3>1 DEF Inv, ConsumedIsComplete
    <3>2. CASE consumption[a] # "consumed"
      <4>1. PICK w \in Workers : IntakeStep(w) /\ KeepSurroundings
        BY <1>7, <1>9, <3>2
      <4>2. PICK b \in Sources, state \in {"consumed", "skipped", "failed"} :
              /\ consumption' = [consumption EXCEPT ![b] = state]
              /\ state = "consumed" => Ledger!Complete(b)
        BY <1>9, <3>2, <4>1, IngestionNext
      <4> QED
        BY <1>9, <3>2, <4>2 DEF Inv, TypeOK, IntakeTypeOK
    <3> QED
      BY <3>1, <3>2
  <2> QED
    BY <1>1, <2>1 DEF Ledger!Complete, Ledger!Recorded
<1> QED
  BY <1>4, <1>5, <1>6, <1>8, <1>9 DEF ProvenOnly, ConsumedIsComplete, ProofOf, Terminal

LEMMA InvInit == Init => Inv
<1> SUFFICES ASSUME Init
             PROVE  Inv
  OBVIOUS
<1>1. work \in [Workers -> AnyJob]
  BY DEF Init, IntakeInit, AnyJob
<1>2. TypeOK
  <2>1. IntakeTypeOK
    BY DEF Init, IntakeInit, Ledger!LedgerInit, IntakeTypeOK, Ledger!ConsumptionState
  <2>2. version \in Versions
    BY AssessmentAssumption DEF Init, Versions
  <2>3. attempts \in [Sources -> AttemptState] /\ answers \in [Sources -> BOOLEAN]
    BY DEF Init, AttemptState
  <2> QED
    BY <1>1, <2>1, <2>2, <2>3 DEF Init, TypeOK, AnyJob
<1>3. JobsAreSound
  BY IdleGood DEF Init, IntakeInit, JobsAreSound, Good
<1>4. ProvenOnly /\ OutcomesRepeat /\ GrantsAreEarned /\ ConsumedIsComplete
  BY DEF Init, IntakeInit, Ledger!LedgerInit, ProvenOnly, OutcomesRepeat, GrantsAreEarned,
         ConsumedIsComplete
<1> QED
  BY <1>2, <1>3, <1>4 DEF Inv

LEMMA InvNext == Inv /\ [Next]_vars => Inv'
BY JobsNext, TablesNext, DerivationNext DEF Inv

LEMMA InvHolds == Spec => []Inv
BY InvInit, InvNext, PTL DEF Spec

-----------------------------------------------------------------------------
\* Every table and job is what the tables and handlers say it is.
THEOREM TypeCorrect == Spec => []TypeOK
BY InvHolds, PTL DEF Inv

\* A stored result is never changed or taken back, whatever other submissions
\* of the attempt scored and whenever an interruption or a resumption read it
\* (the conditional updates of assessment-attempts.ts).
THEOREM ResultIsKept == Spec => ResultsStay
<1>1. Inv /\ [Next]_vars => [\A a \in Sources : Terminal(a) => attempts'[a] = attempts[a]]_vars
  BY Growth DEF Grows
<1> QED
  BY <1>1, InvHolds, PTL DEF Spec, ResultsStay

\* Readiness outcome, handoff and canonical Evidence repeat the stored result
\* of their attempt (processReadinessAssessmentOutcome,
\* buildAssessmentEvidenceHandoff, consumeAssessmentEvidenceHandoff).
THEOREM DerivedRepeats == Spec => []DerivedFromResult
<1>1. Inv => DerivedFromResult
  <2> SUFFICES ASSUME Inv, NEW a \in Sources
               PROVE  /\ outcomes[a] # "none" => outcomes[a] = attempts[a]
                      /\ handoffs[a] # "none" => handoffs[a] = attempts[a]
                      /\ evidence[a] # NoEvidence => evidence[a].result = attempts[a]
    BY DEF DerivedFromResult
  <2>1. ProofOf(a).result = attempts[a]
    BY DEF ProofOf
  <2> QED
    BY <2>1 DEF Inv, ProvenOnly, OutcomesRepeat
<1> QED
  BY <1>1, InvHolds, PTL

\* Readiness and competencies are granted by a passed attempt at a test-out
\* version (assessment-recovery.ts, readiness.ts), not by what a request
\* computed.
THEOREM GrantedByPassing == Spec => []GrantsAreEarned
BY InvHolds, PTL DEF Inv

\* No delivery of an event ever meets a record that proves something else
\* (evaluateExistingEvidenceRecord), so no event is stuck in conflict for good.
THEOREM NeverInConflict == Spec => []NoConflict
<1>1. Inv => NoConflict
  BY DEF Inv, JobsAreSound, Ingests, NoConflict, At
<1> QED
  BY <1>1, InvHolds, PTL

\* Racing workers, retries and crashes in the middle of ingestion implement the
\* ledger whose steps are indivisible: a record is written once, links stay
\* within its mapping, and only an event whose record and links are all there
\* is marked consumed (evidence.ts, evidence-competency.ts).
THEOREM Implements == Spec => ImplementsLedger
<1>1. Init => Ledger!LedgerInit
  BY DEF Init, IntakeInit
<1>2. Inv /\ [Next]_vars => [Ledger!LedgerNext]_(Ledger!ledgerVars)
  <2> SUFFICES ASSUME Inv, [Next]_vars
               PROVE  [Ledger!LedgerNext]_(Ledger!ledgerVars)
    OBVIOUS
  <2>1. \/ UNCHANGED <<evidence, links, consumption>>
        \/ \E w \in Workers : IntakeStep(w) /\ KeepSurroundings
    BY Frames DEF Next, Handler, KeepAttempts, PublishCompetency, PublishVersion, intakeVars,
       vars
  <2>2. ASSUME NEW w \in Workers, IntakeStep(w)
        PROVE  Ledger!LedgerNext \/ UNCHANGED <<evidence, links, consumption>>
    <3>1. ASSUME NEW a \in Sources, evidence[a] = NoEvidence, ProofOf(a) \in Proof,
                 evidence' = [evidence EXCEPT ![a] = ProofOf(a)],
                 UNCHANGED <<links, consumption>>
          PROVE  Ledger!LedgerNext
      BY <3>1 DEF Ledger!LedgerNext, Ledger!Record, Ledger!Recorded, Proof, Ledger!Proof
    <3>2. ASSUME NEW a \in Sources, NEW c \in Competencies,
                 Ledger!Recorded(a), c \in evidence[a].mapping,
                 links' = links \cup {<<a, c>>}, UNCHANGED <<evidence, consumption>>
          PROVE  Ledger!LedgerNext
      BY <3>2 DEF Ledger!LedgerNext, Ledger!Link
    <3>3. ASSUME NEW a \in Sources, NEW state \in {"consumed", "skipped", "failed"},
                 consumption' = [consumption EXCEPT ![a] = state],
                 state = "consumed" => Ledger!Complete(a),
                 state = "skipped" => ~Ledger!Recorded(a),
                 UNCHANGED <<evidence, links>>
          PROVE  Ledger!LedgerNext
      BY <3>3 DEF Ledger!LedgerNext, Ledger!Consume, Ledger!Skip, Ledger!Fail
    <3> QED
      BY <2>2, <3>1, <3>2, <3>3, IngestionNext
  <2> QED
    BY <2>1, <2>2 DEF Ledger!ledgerVars
<1> QED
  BY <1>1, <1>2, InvHolds, PTL DEF Spec, ImplementsLedger, Ledger!LedgerSpec
-----------------------------------------------------------------------------
(* Lab validation runs (LabEvidence).                                       *)

\* Results of a validation that become Evidence.
Decided == {"passed", "incomplete"}

\* Steps of a worker's job before it ingests, by what the job carries.
LabPlainStep == {"facts", "frozen", "mission", "readback", "skip", "failed"}

LabPlainJob == [step : LabPlainStep, source : LabRuns]
LabProofJob ==
    [step : ProofStep, source : LabRuns, proof : Lab!Proof, pending : SUBSET LabCompetencies]
MappingJob == [step : {"mapping"}, source : LabRuns, mission : 0..MaxMission]
CaptureJob == [step : {"capture"}, source : LabRuns, authority : Lab!Authority]

AnyLabJob == {Lab!Idle} \cup Lab!IntakeJob \cup Lab!LabJob

\* What a run proves under the authority that was frozen for it.
RunProof(s) == [result |-> <<runs[s], frozen[s].mission>>, mapping |-> frozen[s].mapping]

\* An authority is frozen for decided runs only; a record proves its run under
\* that authority, and links stay within the record's mapping.
RunsProven ==
    \A s \in LabRuns :
        /\ frozen[s] # NoAuthority => runs[s] \in Decided
        /\ labEvidence[s] # NoEvidence => frozen[s] # NoAuthority /\ labEvidence[s] = RunProof(s)
        /\ \A c \in LabCompetencies : <<s, c>> \in labLinks =>
              labEvidence[s] # NoEvidence /\ c \in labEvidence[s].mapping

\* What a worker relies on: its run was decided, and once it goes by an
\* authority, that authority is the frozen one.
LabCarries(j) ==
    /\ j.step # "idle" => runs[j.source] # "none"
    /\ j.step = "skip" => runs[j.source] = "technical_error"
    /\ j.step \in {"frozen", "mission", "mapping", "capture", "readback"} =>
          runs[j.source] \in Decided
    /\ j.step = "readback" => frozen[j.source] # NoAuthority
    /\ j.step \in ProofStep => frozen[j.source] # NoAuthority /\ j.proof = RunProof(j.source)

LabIngests(j) ==
    /\ j.step # "conflict"
    /\ j.step \in {"find", "insert", "reread"} => j.pending = j.proof.mapping
    /\ j.step \in {"reread", "link"} => labEvidence[j.source] # NoEvidence
    /\ j.step = "link" =>
          /\ j.pending \subseteq j.proof.mapping
          /\ \A c \in j.proof.mapping \ j.pending : <<j.source, c>> \in labLinks

LabSound(j) == LabCarries(j) /\ LabIngests(j)

LabInv ==
    /\ Lab!TypeOK
    /\ RunsProven
    /\ \A w \in LabWorkers : LabSound(labWork[w])
    /\ \A s \in LabRuns : labConsumption[s] # "none" => runs[s] # "none"
    /\ Lab!ConsumedIsComplete

-----------------------------------------------------------------------------
LEMMA LabJobs ==
    AnyLabJob = {Lab!Idle} \cup LabPlainJob \cup LabProofJob \cup MappingJob \cup CaptureJob
<1>1. LabPlainJob = [step : {"facts", "frozen", "mission", "readback"}, source : LabRuns]
                    \cup [step : {"skip", "failed"}, source : LabRuns]
  BY DEF LabPlainJob, LabPlainStep
<1> QED
  BY <1>1 DEF AnyLabJob, Lab!IntakeJob, Lab!LabJob, LabProofJob, ProofStep, MappingJob, CaptureJob

\* What a job carries follows from its step.
LEMMA LabJobParts ==
    ASSUME NEW j \in AnyLabJob
    PROVE  /\ j.step = "idle" <=> j = Lab!Idle
           /\ j.step \in LabPlainStep => j \in LabPlainJob
           /\ j.step \in ProofStep => j \in LabProofJob
           /\ j.step = "mapping" => j \in MappingJob
           /\ j.step = "capture" => j \in CaptureJob
           /\ j.step # "idle" => j.source \in LabRuns
BY LabJobs DEF LabPlainStep, ProofStep, Lab!Idle, LabPlainJob, LabProofJob, MappingJob, CaptureJob

\* What resolveCurrentMappingAuthority yields is an authority.
LEMMA ResolveType ==
    ASSUME NEW m \in 0..MaxMission
    PROVE  Lab!Resolve(m) \in Lab!Authority
<1>1. CASE Declared = {} \/ m = 0
  BY <1>1, LabAssumption DEF Lab!Resolve, Lab!Authority, Lab!LabConstants
<1>2. CASE ~(Declared = {} \/ m = 0)
  <2>1. m \in 1..MaxMission
    BY <1>2, LabAssumption DEF Lab!LabConstants
  <2>2. LabMapping[m] \cap Declared \cap labApproved \in SUBSET LabCompetencies
    BY <2>1, LabAssumption DEF Lab!LabConstants
  <2> QED
    BY <1>2, <2>2 DEF Lab!Resolve, Lab!Authority
<1> QED
  BY <1>1, <1>2

LEMMA RunProofType ==
    ASSUME Lab!TypeOK, NEW s \in LabRuns, runs[s] \in Decided, frozen[s] # NoAuthority
    PROVE  RunProof(s) \in Lab!Proof /\ RunProof(s) # NoEvidence
<1>1. frozen[s] \in Lab!Authority
  BY DEF Lab!TypeOK
<1>2. <<runs[s], frozen[s].mission>> \in LabResults
  BY <1>1 DEF LabResults, Decided, Lab!Authority
<1>3. RunProof(s) \in Lab!Proof
  BY <1>1, <1>2 DEF RunProof, Lab!Proof, Lab!Authority
<1> QED
  BY <1>3, LabAssumption DEF Lab!LabConstants

-----------------------------------------------------------------------------
\* A job that may be under way.
LabGood(j) == j \in AnyLabJob /\ LabSound(j)

\* Worker w goes on with job j.
LabTakes(w, j) == labWork' = [labWork EXCEPT ![w] = j]

\* What no step takes back.
LabGrows ==
    /\ \A s \in LabRuns : runs[s] # "none" => runs'[s] = runs[s]
    /\ \A s \in LabRuns : frozen[s] # NoAuthority => frozen'[s] = frozen[s]
    /\ \A s \in LabRuns : labEvidence[s] # NoEvidence => labEvidence'[s] = labEvidence[s]
    /\ labLinks \subseteq labLinks'

LEMMA LabSoundWork ==
    ASSUME LabInv, NEW w \in LabWorkers
    PROVE  LabGood(labWork[w]) /\ labWork[w] \in AnyLabJob
BY DEF LabInv, Lab!TypeOK, LabGood, AnyLabJob

LEMMA LabSoundStays ==
    ASSUME LabGrows, NEW j, LabGood(j)
    PROVE  LabSound(j)'
<1>1. CASE j.step = "idle"
  BY <1>1 DEF LabSound, LabCarries, LabIngests, ProofStep
<1>2. CASE j.step # "idle"
  <2>1. j.source \in LabRuns /\ runs[j.source] # "none"
    BY <1>2, LabJobParts DEF LabGood, LabSound, LabCarries
  <2>2. runs'[j.source] = runs[j.source]
    BY <2>1 DEF LabGrows
  <2>3. LabCarries(j)'
    BY <2>1, <2>2 DEF LabGood, LabSound, LabCarries, LabGrows, RunProof
  <2>4. LabIngests(j)'
    <3>1. j.step \in {"reread", "link"} => labEvidence'[j.source] = labEvidence[j.source]
      BY <2>1 DEF LabGrows, LabGood, LabSound, LabIngests
    <3> QED
      BY <3>1 DEF LabGrows, LabGood, LabSound, LabIngests
  <2> QED
    BY <2>3, <2>4 DEF LabSound
<1> QED
  BY <1>1, <1>2

-----------------------------------------------------------------------------
(* What the worker of each step of a lab run holds afterwards.              *)

LEMMA LabIdleGood == LabGood(Lab!Idle)
BY LabJobs DEF LabGood, LabSound, LabCarries, LabIngests, Lab!Idle, ProofStep

LEMMA LabPlainGood ==
    ASSUME NEW s \in LabRuns, NEW step \in LabPlainStep,
           runs[s] # "none",
           step = "skip" => runs[s] = "technical_error",
           step \in {"frozen", "mission", "readback"} => runs[s] \in Decided,
           step = "readback" => frozen[s] # NoAuthority
    PROVE  LabGood(Job(step, s))
<1> DEFINE j == Job(step, s)
<1>1. j.step = step /\ j.source = s
  BY DEF Job
<1>2. j \in AnyLabJob
  BY LabJobs DEF LabPlainJob, Job
<1> HIDE DEF j
<1>3. LabSound(j)
  BY <1>1 DEF LabSound, LabCarries, LabIngests, LabPlainStep, ProofStep
<1> QED
  BY <1>2, <1>3 DEF LabGood, j

LEMMA LabProofGood ==
    ASSUME LabInv, NEW s \in LabRuns, NEW step \in ProofStep \ {"conflict"},
           frozen[s] # NoAuthority, NEW pending \in SUBSET RunProof(s).mapping,
           step \in {"find", "insert", "reread"} => pending = RunProof(s).mapping,
           step \in {"reread", "link"} => labEvidence[s] # NoEvidence,
           step = "link" => \A c \in RunProof(s).mapping \ pending : <<s, c>> \in labLinks
    PROVE  LabGood(WithProof(step, s, RunProof(s), pending))
<1> DEFINE j == WithProof(step, s, RunProof(s), pending)
<1>1. j.step = step /\ j.source = s /\ j.proof = RunProof(s) /\ j.pending = pending
  BY DEF WithProof
<1>2. RunProof(s) \in Lab!Proof /\ runs[s] \in Decided
  BY RunProofType DEF LabInv, RunsProven
<1>3. pending \in SUBSET LabCompetencies
  BY <1>2 DEF Lab!Proof
<1>4. j \in LabProofJob
  BY <1>2, <1>3 DEF LabProofJob, WithProof
<1>5. j \in AnyLabJob
  BY <1>4, LabJobs
<1> HIDE DEF j
<1>6. LabSound(j)
  BY <1>1, <1>2 DEF LabSound, LabCarries, LabIngests, ProofStep, Decided
<1> QED
  BY <1>5, <1>6 DEF LabGood, j

\* Going on to another step keeps what the job carries.
LEMMA LabRenamed ==
    ASSUME NEW j, NEW s
    PROVE  /\ j \in LabPlainJob => [j EXCEPT !.step = s] = Job(s, j.source)
           /\ j \in LabProofJob =>
                [j EXCEPT !.step = s] = WithProof(s, j.source, j.proof, j.pending)
<1>1. ASSUME j \in LabPlainJob
      PROVE  [j EXCEPT !.step = s] = Job(s, j.source)
  BY <1>1 DEF LabPlainJob, Job
<1>2. ASSUME j \in LabProofJob
      PROVE  [j EXCEPT !.step = s] = WithProof(s, j.source, j.proof, j.pending)
  BY <1>2 DEF LabProofJob, WithProof
<1> QED
  BY <1>1, <1>2

\* The authority of a run is frozen: the worker goes on to ingest under it.
LEMMA UnderFrozenGood ==
    ASSUME LabInv, NEW w \in LabWorkers, Lab!Source(w) \in LabRuns,
           frozen[Lab!Source(w)] # NoAuthority,
           Lab!IngestUnder(w, frozen[Lab!Source(w)])
    PROVE  \E j : LabGood(j) /\ LabTakes(w, j)
<1> DEFINE s == Lab!Source(w)
<1>1. LabGood(WithProof("find", s, RunProof(s), RunProof(s).mapping))
  BY LabProofGood DEF ProofStep
<1>2. LabTakes(w, WithProof("find", s, RunProof(s), RunProof(s).mapping))
  BY DEF Lab!IngestUnder, Lab!Continue, Lab!Ingest, LabTakes, WithProof, RunProof
<1> QED
  BY <1>1, <1>2

LEMMA LabFailGood ==
    ASSUME LabInv, NEW w \in LabWorkers, labWork[w].step # "idle", Lab!FailJob(w)
    PROVE  \E j : LabGood(j) /\ LabTakes(w, j)
<1>1. Lab!Source(w) \in LabRuns /\ runs[Lab!Source(w)] # "none"
  BY LabSoundWork, LabJobParts DEF Lab!Source, LabGood, LabSound, LabCarries
<1>2. LabTakes(w, Job("failed", Lab!Source(w)))
  BY DEF Lab!FailJob, LabTakes, Job
<1>3. LabGood(Job("failed", Lab!Source(w)))
  BY <1>1, LabPlainGood DEF LabPlainStep
<1> QED
  BY <1>2, <1>3

\* The steps before a worker ingests, but for the write of the authority.
LEMMA LabBeforeGood ==
    ASSUME LabInv, NEW w \in LabWorkers,
           \/ Lab!ReadFacts(w) \/ Lab!ReadFrozen(w) \/ Lab!ReadMission(w)
           \/ Lab!ReadMapping(w) \/ Lab!ReadBack(w) \/ Lab!LoseCapture(w)
    PROVE  \E j : LabGood(j) /\ LabTakes(w, j)
<1> DEFINE s == Lab!Source(w)
<1>1. labWork[w].step \in {"facts", "frozen", "mission", "mapping", "capture", "readback"}
  BY DEF Lab!ReadFacts, Lab!ReadFrozen, Lab!ReadMission, Lab!ReadMapping, Lab!ReadBack,
         Lab!LoseCapture, Lab!At
<1>2. /\ s \in LabRuns /\ runs[s] # "none"
      /\ labWork[w].step # "facts" => runs[s] \in Decided
      /\ labWork[w].step = "readback" => frozen[s] # NoAuthority
      /\ labWork[w].step \in {"facts", "frozen"} => labWork[w] \in LabPlainJob
  BY <1>1, LabSoundWork, LabJobParts
     DEF Lab!Source, LabGood, LabSound, LabCarries, LabPlainStep
<1>3. ASSUME NEW step, labWork[w].step \in {"facts", "frozen"}, Lab!GoTo(w, step)
      PROVE  LabTakes(w, Job(step, s))
  BY <1>2, <1>3, LabRenamed DEF Lab!GoTo, LabTakes, Lab!Source, LabInv, Lab!TypeOK
<1>4. CASE Lab!ReadFacts(w)
  <2>1. CASE runs[s] \in Decided
    <3>1. LabTakes(w, Job("frozen", s))
      BY <1>3, <1>4, <2>1 DEF Lab!ReadFacts, Lab!At, Decided
    <3>2. LabGood(Job("frozen", s))
      BY <1>2, <2>1, LabPlainGood DEF LabPlainStep
    <3> QED
      BY <3>1, <3>2
  <2>2. CASE runs[s] \notin Decided
    <3>1. LabTakes(w, Job("skip", s))
      BY <1>3, <1>4, <2>2 DEF Lab!ReadFacts, Lab!At, Decided
    <3>2. runs[s] = "technical_error"
      BY <1>2, <2>2 DEF LabInv, Lab!TypeOK, Lab!RunState, Decided
    <3>3. LabGood(Job("skip", s))
      BY <1>2, <3>2, LabPlainGood DEF LabPlainStep
    <3> QED
      BY <3>1, <3>3
  <2> QED
    BY <2>1, <2>2
<1>5. CASE Lab!ReadFrozen(w)
  <2>1. CASE frozen[s] # NoAuthority
    <3>1. Lab!IngestUnder(w, frozen[s])
      BY <1>5, <2>1 DEF Lab!ReadFrozen
    <3> QED
      BY <1>2, <2>1, <3>1, UnderFrozenGood
  <2>2. CASE frozen[s] = NoAuthority
    <3>1. LabTakes(w, Job("mission", s)) /\ runs[s] \in Decided
      BY <1>2, <1>3, <1>5, <2>2 DEF Lab!ReadFrozen, Lab!At
    <3>2. LabGood(Job("mission", s))
      BY <1>2, <3>1, LabPlainGood DEF LabPlainStep
    <3> QED
      BY <3>1, <3>2
  <2> QED
    BY <2>1, <2>2
<1>6. CASE Lab!ReadMission(w)
  <2> DEFINE j == [step |-> "mapping", source |-> s, mission |-> mission]
  <2>1. j.step = "mapping" /\ j.source = s /\ LabTakes(w, j) /\ runs[s] \in Decided
    BY <1>2, <1>6 DEF Lab!ReadMission, Lab!Continue, Lab!At, LabTakes
  <2>2. j \in AnyLabJob
    BY <1>2, LabJobs DEF MappingJob, LabInv, Lab!TypeOK
  <2> HIDE DEF j
  <2>3. LabGood(j)
    BY <1>2, <2>1, <2>2 DEF LabGood, LabSound, LabCarries, LabIngests, ProofStep
  <2> QED
    BY <2>1, <2>3
<1>7. CASE Lab!ReadMapping(w)
  <2> DEFINE j == [step |-> "capture", source |-> s,
                   authority |-> Lab!Resolve(labWork[w].mission)]
  <2>1. j.step = "capture" /\ j.source = s /\ LabTakes(w, j) /\ runs[s] \in Decided
    BY <1>2, <1>7 DEF Lab!ReadMapping, Lab!Continue, Lab!At, LabTakes
  <2>2. labWork[w].mission \in 0..MaxMission
    BY <1>7, LabSoundWork, LabJobParts DEF Lab!ReadMapping, Lab!At, MappingJob
  <2>3. j \in CaptureJob
    BY <1>2, <2>2, ResolveType DEF CaptureJob
  <2>4. j \in AnyLabJob
    BY <2>3, LabJobs
  <2> HIDE DEF j
  <2>5. LabGood(j)
    BY <1>2, <2>1, <2>4 DEF LabGood, LabSound, LabCarries, LabIngests, ProofStep
  <2> QED
    BY <2>1, <2>5
<1>8. CASE Lab!ReadBack(w)
  BY <1>2, <1>8, UnderFrozenGood DEF Lab!ReadBack, Lab!At
<1>9. CASE Lab!LoseCapture(w)
  BY <1>1, <1>9, LabFailGood DEF Lab!LoseCapture
<1> QED
  BY <1>4, <1>5, <1>6, <1>7, <1>8, <1>9

\* The job of a worker that ingests.
LEMMA LabProofParts ==
    ASSUME LabInv, NEW w \in LabWorkers, labWork[w].step \in ProofStep
    PROVE  /\ Lab!Source(w) \in LabRuns /\ labWork[w] \in LabProofJob
           /\ frozen[Lab!Source(w)] # NoAuthority
           /\ labWork[w].proof = RunProof(Lab!Source(w))
           /\ labWork[w].pending \in SUBSET RunProof(Lab!Source(w)).mapping
           /\ RunProof(Lab!Source(w)) \in Lab!Proof /\ RunProof(Lab!Source(w)) # NoEvidence
<1>1. labWork[w] \in LabProofJob /\ LabSound(labWork[w])
  BY LabSoundWork, LabJobParts DEF LabGood
<1>2. /\ Lab!Source(w) \in LabRuns /\ frozen[Lab!Source(w)] # NoAuthority
      /\ labWork[w].proof = RunProof(Lab!Source(w))
  BY <1>1 DEF LabSound, LabCarries, LabProofJob, Lab!Source
<1>3. labWork[w].pending \in SUBSET labWork[w].proof.mapping
  BY <1>1 DEF LabSound, LabIngests, ProofStep
<1>4. RunProof(Lab!Source(w)) \in Lab!Proof /\ RunProof(Lab!Source(w)) # NoEvidence
  BY <1>2, RunProofType DEF LabInv, RunsProven
<1> QED
  BY <1>1, <1>2, <1>3, <1>4

LEMMA LabCompareGood ==
    ASSUME LabInv, NEW w \in LabWorkers, Lab!FindEvidence(w) \/ Lab!RereadEvidence(w)
    PROVE  \E j : LabGood(j) /\ LabTakes(w, j)
<1> DEFINE s == Lab!Source(w)
           p == RunProof(s)
<1>1. labWork[w].step \in {"find", "reread"} /\ labWork[w].step \in ProofStep
  BY DEF Lab!FindEvidence, Lab!RereadEvidence, Lab!At, ProofStep
<1>2. /\ s \in LabRuns /\ labWork[w] \in LabProofJob
      /\ frozen[s] # NoAuthority /\ labWork[w].proof = p
  BY <1>1, LabProofParts
<1>3. labWork[w].pending = p.mapping
  BY <1>1, <1>2, LabSoundWork DEF LabGood, LabSound, LabIngests
<1>4. \A step : Lab!GoTo(w, step) => LabTakes(w, WithProof(step, s, p, p.mapping))
  BY <1>2, <1>3, LabRenamed DEF Lab!GoTo, LabTakes, Lab!Source, LabInv, Lab!TypeOK
<1>5. CASE labEvidence[s] = NoEvidence
  <2>1. labWork[w].step # "reread"
    BY <1>5, LabSoundWork DEF LabGood, LabSound, LabIngests, Lab!Source
  <2>2. Lab!GoTo(w, "insert")
    BY <1>5, <2>1 DEF Lab!FindEvidence, Lab!RereadEvidence, Lab!At
  <2>3. LabGood(WithProof("insert", s, p, p.mapping))
    BY <1>2, LabProofGood DEF ProofStep
  <2> QED
    BY <1>4, <2>2, <2>3
<1>6. CASE labEvidence[s] # NoEvidence
  <2>1. labEvidence[s] = p
    BY <1>2, <1>6 DEF LabInv, RunsProven
  <2>2. Lab!GoTo(w, "link")
    BY <1>2, <1>6, <2>1 DEF Lab!FindEvidence, Lab!RereadEvidence, Lab!Compare
  <2>3. LabGood(WithProof("link", s, p, p.mapping))
    BY <1>2, <1>6, LabProofGood DEF ProofStep
  <2> QED
    BY <1>4, <2>2, <2>3
<1> QED
  BY <1>5, <1>6

\* A worker that inserted, or lost the race for it, finds a record there.
LEMMA LabInsertGood ==
    ASSUME LabInv, NEW w \in LabWorkers, Lab!InsertEvidence(w), UNCHANGED <<runs, frozen>>
    PROVE  \E j \in AnyLabJob : LabSound(j)' /\ LabTakes(w, j)
<1> DEFINE s == Lab!Source(w)
           p == RunProof(s)
           Onward(step) == WithProof(step, s, p, p.mapping)
<1>1. labWork[w].step = "insert" /\ labWork[w].step \in ProofStep
  BY DEF Lab!InsertEvidence, Lab!At, ProofStep
<1>2. /\ s \in LabRuns /\ labWork[w] \in LabProofJob
      /\ frozen[s] # NoAuthority /\ labWork[w].proof = p
      /\ p \in Lab!Proof /\ p # NoEvidence
  BY <1>1, LabProofParts
<1>3. labWork[w].pending = p.mapping
  BY <1>1, <1>2, LabSoundWork DEF LabGood, LabSound, LabIngests
<1>4. labEvidence'[s] # NoEvidence
  BY <1>2 DEF Lab!InsertEvidence, LabInv, Lab!TypeOK, Lab!IntakeTypeOK
<1>5. PICK step \in {"link", "reread"} : LabTakes(w, Onward(step))
  <2>1. PICK step \in {"link", "reread"} : labWork' = [labWork EXCEPT ![w].step = step]
    BY DEF Lab!InsertEvidence, Lab!GoTo
  <2>2. [labWork[w] EXCEPT !.step = step] = Onward(step)
    BY <1>2, <1>3, LabRenamed DEF Lab!Source
  <2> QED
    BY <2>1, <2>2 DEF LabTakes, LabInv, Lab!TypeOK
<1>6. PICK j : j = Onward(step)
  OBVIOUS
<1>7. j.step = step /\ j.source = s /\ j.proof = p /\ j.pending = p.mapping
  BY <1>6 DEF WithProof
<1>8. j \in AnyLabJob
  <2>1. p.mapping \in SUBSET LabCompetencies
    BY <1>2 DEF Lab!Proof
  <2>2. j \in LabProofJob
    BY <1>2, <1>6, <2>1 DEF LabProofJob, ProofStep, WithProof
  <2> QED
    BY <2>2, LabJobs
<1>9. LabCarries(j)'
  <2>1. LabCarries(j)
    BY <1>2, <1>7 DEF LabCarries, ProofStep, LabInv, RunsProven, Decided
  <2> QED
    BY <2>1 DEF LabCarries, RunProof
<1>10. LabIngests(j)'
  BY <1>4, <1>7 DEF LabIngests
<1> QED
  BY <1>5, <1>6, <1>8, <1>9, <1>10 DEF LabSound

LEMMA LabLinkGood ==
    ASSUME LabInv, NEW w \in LabWorkers, NEW c \in LabCompetencies, Lab!LinkCompetency(w, c),
           UNCHANGED <<runs, frozen>>
    PROVE  \E j \in AnyLabJob : LabSound(j)' /\ LabTakes(w, j)
<1> DEFINE s == Lab!Source(w)
           p == RunProof(s)
           pending == labWork[w].pending
<1>1. labWork[w].step = "link" /\ labWork[w].step \in ProofStep
  BY DEF Lab!LinkCompetency, Lab!At, ProofStep
<1>2. /\ s \in LabRuns /\ labWork[w] \in LabProofJob
      /\ frozen[s] # NoAuthority /\ labWork[w].proof = p
      /\ p \in Lab!Proof /\ pending \in SUBSET p.mapping
  BY <1>1, LabProofParts
<1>3. labEvidence[s] # NoEvidence /\ \A k \in p.mapping \ pending : <<s, k>> \in labLinks
  BY <1>1, <1>2, LabSoundWork DEF LabGood, LabSound, LabIngests, Lab!Source
<1>4. CASE c \in labApproved
  <2>1. labLinks' = labLinks \cup {<<s, c>>} /\ labEvidence' = labEvidence
    BY <1>4 DEF Lab!LinkCompetency
  <2>2. PICK j : j = WithProof("link", s, p, pending \ {c})
    OBVIOUS
  <2>3. LabTakes(w, j)
    <3>1. labWork[w] = WithProof("link", s, p, pending)
      BY <1>1, <1>2 DEF WithProof, Lab!Source, LabProofJob
    <3>2. PICK old : old = labWork[w]
      OBVIOUS
    <3>3. [old EXCEPT !.pending = old.pending \ {c}] = j
      BY <2>2, <3>1, <3>2 DEF WithProof
    <3> QED
      BY <1>4, <3>2, <3>3 DEF Lab!LinkCompetency, LabTakes, LabInv, Lab!TypeOK
  <2>4. j \in AnyLabJob
    <3>1. pending \ {c} \in SUBSET LabCompetencies
      BY <1>2 DEF Lab!Proof
    <3>2. j \in LabProofJob
      BY <1>2, <2>2, <3>1 DEF LabProofJob, ProofStep, WithProof
    <3> QED
      BY <3>2, LabJobs
  <2>5. j.step = "link" /\ j.source = s /\ j.proof = p /\ j.pending = pending \ {c}
    BY <2>2 DEF WithProof
  <2>6. LabCarries(j)'
    <3>1. LabCarries(j)
      BY <1>2, <2>5 DEF LabCarries, ProofStep, LabInv, RunsProven, Decided
    <3> QED
      BY <3>1 DEF LabCarries, RunProof
  <2>7. LabIngests(j)'
    <3>1. \A k \in p.mapping \ (pending \ {c}) : <<s, k>> \in labLinks'
      BY <1>3, <2>1
    <3> QED
      BY <1>2, <1>3, <2>1, <2>5, <3>1 DEF LabIngests
  <2> QED
    BY <2>3, <2>4, <2>6, <2>7 DEF LabSound
<1>5. CASE c \notin labApproved
  <2>1. Lab!FailJob(w) /\ UNCHANGED <<labLinks, labEvidence>>
    BY <1>5 DEF Lab!LinkCompetency
  <2>2. PICK k : LabGood(k) /\ LabTakes(w, k)
    BY <1>1, <2>1, LabFailGood
  <2>3. LabSound(k)'
    BY <2>1, <2>2 DEF LabGood, LabSound, LabCarries, LabIngests, RunProof
  <2> QED
    BY <2>2, <2>3 DEF LabGood
<1> QED
  BY <1>4, <1>5

LEMMA LabRecordGood ==
    ASSUME LabInv, NEW w \in LabWorkers,
           \/ Lab!RecordConsumed(w) \/ Lab!RecordSkipped(w) \/ Lab!RecordFailure(w)
           \/ Lab!LoseRoundTrip(w) \/ Lab!Crash(w)
    PROVE  \E j : LabGood(j) /\ LabTakes(w, j)
<1>1. CASE Lab!LoseRoundTrip(w)
  BY <1>1, LabFailGood DEF Lab!LoseRoundTrip
<1>2. CASE ~Lab!LoseRoundTrip(w)
  BY <1>2, LabIdleGood DEF Lab!RecordConsumed, Lab!RecordSkipped, Lab!RecordFailure, Lab!Crash,
     Lab!Finish, LabTakes
<1> QED
  BY <1>1, <1>2

LEMMA LabRetryGood ==
    ASSUME LabInv, NEW w \in LabWorkers, NEW s \in LabRuns, Lab!Retry(w, s)
    PROVE  \E j : LabGood(j) /\ LabTakes(w, j)
<1>1. runs[s] # "none"
  BY DEF Lab!Retry, LabInv
<1>2. LabGood(Job("facts", s))
  BY <1>1, LabPlainGood DEF LabPlainStep
<1> QED
  BY <1>2 DEF Lab!Retry, Lab!Continue, LabTakes, Job

\* The request that stores a run goes on to have it consumed.
LEMMA ValidateGood ==
    ASSUME LabInv, NEW w \in LabWorkers, NEW s \in LabRuns,
           NEW state \in Lab!RunState \ {"none"}, Lab!Validate(w, s, state)
    PROVE  \E j \in AnyLabJob : LabSound(j)' /\ LabTakes(w, j)
<1>1. PICK j : j = Job("facts", s)
  OBVIOUS
<1>2. j.step = "facts" /\ j.source = s
  BY <1>1 DEF Job
<1>3. j \in AnyLabJob
  BY <1>1, LabJobs DEF LabPlainJob, LabPlainStep, Job
<1>4. runs'[s] # "none"
  BY DEF Lab!Validate, LabInv, Lab!TypeOK
<1>5. LabSound(j)'
  BY <1>2, <1>4 DEF LabSound, LabCarries, LabIngests, ProofStep
<1>6. LabTakes(w, j)
  BY <1>1 DEF Lab!Validate, Lab!Continue, LabTakes, Job
<1> QED
  BY <1>3, <1>5, <1>6

\* After the write of the authority one is frozen, the worker's or another's.
LEMMA CaptureGood ==
    ASSUME LabInv, NEW w \in LabWorkers, Lab!Capture(w)
    PROVE  \E j \in AnyLabJob : LabSound(j)' /\ LabTakes(w, j)
<1> DEFINE s == Lab!Source(w)
<1>1. labWork[w].step = "capture"
  BY DEF Lab!Capture, Lab!At
<1>2. s \in LabRuns /\ labWork[w] \in CaptureJob /\ runs[s] \in Decided
  BY <1>1, LabSoundWork, LabJobParts DEF Lab!Source, LabGood, LabSound, LabCarries
<1>3. PICK j : j = Job("readback", s)
  OBVIOUS
<1>4. j.step = "readback" /\ j.source = s
  BY <1>3 DEF Job
<1>5. j \in AnyLabJob
  BY <1>2, <1>3, LabJobs DEF LabPlainJob, LabPlainStep, Job
<1>6. frozen'[s] # NoAuthority
  <2>1. labWork[w].authority # NoAuthority
    BY <1>2, LabAssumption DEF CaptureJob, Lab!LabConstants
  <2> QED
    BY <1>2, <2>1 DEF Lab!Capture, LabInv, Lab!TypeOK
<1>7. LabSound(j)'
  BY <1>2, <1>4, <1>6 DEF Lab!Capture, LabSound, LabCarries, LabIngests, ProofStep, Decided
<1>8. LabTakes(w, j)
  BY <1>3 DEF Lab!Capture, Lab!Continue, LabTakes, Job
<1> QED
  BY <1>5, <1>7, <1>8

-----------------------------------------------------------------------------
(* What each step of a lab run does to the tables.                          *)

LEMMA LabIngestionNext ==
    ASSUME LabInv, NEW w \in LabWorkers, Lab!IntakeStep(w)
    PROVE  \/ UNCHANGED <<labEvidence, labLinks, labConsumption>>
           \/ \E s \in LabRuns :
                 /\ labEvidence[s] = NoEvidence
                 /\ RunProof(s) \in Lab!Proof /\ frozen[s] # NoAuthority
                 /\ labEvidence' = [labEvidence EXCEPT ![s] = RunProof(s)]
                 /\ UNCHANGED <<labLinks, labConsumption>>
           \/ \E s \in LabRuns, c \in LabCompetencies :
                 /\ Lab!Ledger!Recorded(s) /\ c \in labEvidence[s].mapping
                 /\ labLinks' = labLinks \cup {<<s, c>>}
                 /\ UNCHANGED <<labEvidence, labConsumption>>
           \/ \E s \in LabRuns, state \in {"consumed", "skipped", "failed"} :
                 /\ labConsumption' = [labConsumption EXCEPT ![s] = state]
                 /\ runs[s] # "none"
                 /\ state = "consumed" => Lab!Ledger!Complete(s)
                 /\ state = "skipped" => ~Lab!Ledger!Recorded(s)
                 /\ UNCHANGED <<labEvidence, labLinks>>
<1> DEFINE s == Lab!Source(w)
<1>1. CASE Lab!InsertEvidence(w)
  <2>1. labWork[w].step \in ProofStep
    BY <1>1 DEF Lab!InsertEvidence, Lab!At, ProofStep
  <2>2. /\ s \in LabRuns /\ labWork[w].proof = RunProof(s)
        /\ RunProof(s) \in Lab!Proof /\ frozen[s] # NoAuthority
    BY <2>1, LabProofParts
  <2> QED
    BY <1>1, <2>2 DEF Lab!InsertEvidence
<1>2. ASSUME NEW c \in LabCompetencies, Lab!LinkCompetency(w, c)
      PROVE  \/ UNCHANGED <<labEvidence, labLinks, labConsumption>>
             \/ \E r \in LabRuns :
                   /\ Lab!Ledger!Recorded(r) /\ c \in labEvidence[r].mapping
                   /\ labLinks' = labLinks \cup {<<r, c>>}
                   /\ UNCHANGED <<labEvidence, labConsumption>>
  <2>1. labWork[w].step = "link" /\ labWork[w].step \in ProofStep /\ c \in labWork[w].pending
    BY <1>2 DEF Lab!LinkCompetency, Lab!At, ProofStep
  <2>2. s \in LabRuns /\ c \in RunProof(s).mapping
    BY <2>1, LabProofParts
  <2>3. labEvidence[s] # NoEvidence
    BY <2>1, LabSoundWork DEF LabGood, LabSound, LabIngests, Lab!Source
  <2>4. labEvidence[s] = RunProof(s)
    BY <2>2, <2>3 DEF LabInv, RunsProven
  <2> QED
    BY <1>2, <2>2, <2>3, <2>4 DEF Lab!LinkCompetency, Lab!Ledger!Recorded
<1>3. CASE Lab!RecordConsumed(w)
  <2>1. labWork[w].step = "link" /\ labWork[w].step \in ProofStep /\ labWork[w].pending = {}
    BY <1>3 DEF Lab!RecordConsumed, Lab!At, ProofStep
  <2>2. s \in LabRuns /\ labWork[w].proof = RunProof(s) /\ runs[s] # "none"
    BY <2>1, LabProofParts DEF LabInv, RunsProven, Decided
  <2>3. /\ labEvidence[s] # NoEvidence
        /\ \A c \in RunProof(s).mapping : <<s, c>> \in labLinks
    BY <2>1, <2>2, LabSoundWork DEF LabGood, LabSound, LabIngests, Lab!Source
  <2>4. labEvidence[s] = RunProof(s)
    BY <2>2, <2>3 DEF LabInv, RunsProven
  <2>5. Lab!Ledger!Complete(s)
    BY <2>3, <2>4 DEF Lab!Ledger!Complete, Lab!Ledger!Recorded
  <2> QED
    BY <1>3, <2>2, <2>5 DEF Lab!RecordConsumed, Lab!Upsert
<1>4. CASE Lab!RecordSkipped(w)
  <2>1. s \in LabRuns /\ runs[s] = "technical_error"
    BY <1>4, LabSoundWork, LabJobParts
       DEF Lab!RecordSkipped, Lab!At, Lab!Source, LabGood, LabSound, LabCarries
  <2>2. ~Lab!Ledger!Recorded(s)
    BY <2>1 DEF LabInv, RunsProven, Decided, Lab!Ledger!Recorded
  <2> QED
    BY <1>4, <2>1, <2>2 DEF Lab!RecordSkipped, Lab!Upsert
<1>5. CASE Lab!RecordFailure(w)
  <2>1. s \in LabRuns /\ runs[s] # "none"
    BY <1>5, LabSoundWork, LabJobParts
       DEF Lab!RecordFailure, Lab!Source, LabGood, LabSound, LabCarries
  <2> QED
    BY <1>5, <2>1 DEF Lab!RecordFailure, Lab!Upsert
<1>6. CASE Lab!FindEvidence(w) \/ Lab!RereadEvidence(w) \/ Lab!LoseRoundTrip(w) \/ Lab!Crash(w)
  BY <1>6 DEF Lab!FindEvidence, Lab!RereadEvidence, Lab!LoseRoundTrip, Lab!Crash, Lab!intakeVars
<1> QED
  BY <1>1, <1>2, <1>3, <1>4, <1>5, <1>6 DEF Lab!IntakeStep

\* The steps that touch neither the runs nor the authorities.
LEMMA LabFrames ==
    ASSUME NEW w \in LabWorkers
    PROVE  /\ Lab!Serve(w) => UNCHANGED <<labEvidence, labLinks, labConsumption, labApproved,
                                          mission, runs, inForce>>
           /\ Lab!Serve(w) /\ ~Lab!Capture(w) => UNCHANGED frozen
           /\ \A s \in LabRuns : Lab!Retry(w, s) =>
                UNCHANGED <<labEvidence, labLinks, labConsumption, labApproved,
                            mission, runs, inForce, frozen>>
           /\ Lab!IntakeStep(w) => UNCHANGED labApproved
BY DEF Lab!Serve, Lab!ReadFacts, Lab!ReadFrozen, Lab!ReadMission, Lab!ReadMapping, Lab!Capture,
       Lab!ReadBack, Lab!LoseCapture, Lab!Retry, Lab!KeepLab, Lab!labVars, Lab!intakeVars,
       Lab!IntakeStep, Lab!FindEvidence, Lab!InsertEvidence, Lab!RereadEvidence,
       Lab!LinkCompetency, Lab!RecordConsumed, Lab!RecordSkipped, Lab!RecordFailure,
       Lab!LoseRoundTrip, Lab!Crash

\* Every step, by what it does to the tables of the runs.
LEMMA LabTablesNext ==
    ASSUME LabInv, [Lab!Next]_Lab!vars
    PROVE  /\ \/ UNCHANGED <<labEvidence, labLinks, labConsumption>>
              \/ /\ UNCHANGED <<runs, frozen>>
                 /\ \E w \in LabWorkers : Lab!IntakeStep(w)
           /\ \/ UNCHANGED runs
              \/ \E s \in LabRuns, state \in Lab!RunState \ {"none"} :
                    runs[s] = "none" /\ runs' = [runs EXCEPT ![s] = state]
           /\ \/ UNCHANGED frozen
              \/ \E s \in LabRuns, a \in Lab!Authority :
                    /\ frozen[s] = NoAuthority /\ runs[s] \in Decided
                    /\ frozen' = [frozen EXCEPT ![s] = a]
                    /\ UNCHANGED runs
<1> DEFINE Effect ==
       /\ \/ UNCHANGED <<labEvidence, labLinks, labConsumption>>
          \/ /\ UNCHANGED <<runs, frozen>>
             /\ \E w \in LabWorkers : Lab!IntakeStep(w)
       /\ \/ UNCHANGED runs
          \/ \E s \in LabRuns, state \in Lab!RunState \ {"none"} :
                runs[s] = "none" /\ runs' = [runs EXCEPT ![s] = state]
       /\ \/ UNCHANGED frozen
          \/ \E s \in LabRuns, a \in Lab!Authority :
                /\ frozen[s] = NoAuthority /\ runs[s] \in Decided
                /\ frozen' = [frozen EXCEPT ![s] = a]
                /\ UNCHANGED runs
<1>1. ASSUME NEW w \in LabWorkers, NEW s \in LabRuns, NEW state \in Lab!RunState \ {"none"},
             Lab!Validate(w, s, state)
      PROVE  Effect
  BY <1>1 DEF Lab!Validate, Lab!intakeVars
<1>2. ASSUME NEW w \in LabWorkers, Lab!Capture(w)
      PROVE  Effect
  <2> DEFINE s == Lab!Source(w)
  <2>1. labWork[w].step = "capture"
    BY <1>2 DEF Lab!Capture, Lab!At
  <2>2. s \in LabRuns /\ labWork[w].authority \in Lab!Authority /\ runs[s] \in Decided
    BY <2>1, LabSoundWork, LabJobParts
       DEF Lab!Source, LabGood, LabSound, LabCarries, CaptureJob
  <2> QED
    BY <1>2, <2>2 DEF Lab!Capture, Lab!intakeVars
<1>3. ASSUME NEW w \in LabWorkers, Lab!Serve(w), ~Lab!Capture(w)
      PROVE  Effect
  BY <1>3, LabFrames
<1>4. ASSUME NEW w \in LabWorkers, NEW s \in LabRuns, Lab!Retry(w, s)
      PROVE  Effect
  BY <1>4, LabFrames
<1>5. ASSUME NEW w \in LabWorkers, Lab!IntakeStep(w), UNCHANGED Lab!labVars
      PROVE  Effect
  BY <1>5 DEF Lab!labVars
<1>6. ASSUME \/ \E c \in LabCompetencies : Lab!PublishCompetency(c) /\ UNCHANGED Lab!labVars
             \/ Lab!PublishMission \/ UNCHANGED Lab!vars
      PROVE  Effect
  BY <1>6 DEF Lab!PublishCompetency, Lab!PublishMission, Lab!vars, Lab!labVars, Lab!intakeVars
<1> HIDE DEF Effect
<1>7. Effect
  BY <1>1, <1>2, <1>3, <1>4, <1>5, <1>6 DEF Lab!Next
<1> QED
  BY <1>7 DEF Effect

LEMMA LabGrowth ==
    ASSUME LabInv, [Lab!Next]_Lab!vars
    PROVE  LabGrows
<1>1. \A s \in LabRuns : runs[s] # "none" => runs'[s] = runs[s]
  BY LabTablesNext DEF LabInv, Lab!TypeOK
<1>2. \A s \in LabRuns : frozen[s] # NoAuthority => frozen'[s] = frozen[s]
  BY LabTablesNext DEF LabInv, Lab!TypeOK
<1>3. \/ UNCHANGED <<labEvidence, labLinks>>
      \/ \E s \in LabRuns : /\ labEvidence[s] = NoEvidence
                            /\ labEvidence' = [labEvidence EXCEPT ![s] = RunProof(s)]
                            /\ UNCHANGED labLinks
      \/ \E l : labLinks' = labLinks \cup {l} /\ UNCHANGED labEvidence
  BY LabTablesNext, LabIngestionNext
<1>4. /\ \A s \in LabRuns : labEvidence[s] # NoEvidence => labEvidence'[s] = labEvidence[s]
      /\ labLinks \subseteq labLinks'
  BY <1>3 DEF LabInv, Lab!TypeOK, Lab!IntakeTypeOK
<1> QED
  BY <1>1, <1>2, <1>4 DEF LabGrows

LEMMA LabJobsNext ==
    ASSUME LabInv, [Lab!Next]_Lab!vars
    PROVE  /\ labWork' \in [LabWorkers -> AnyLabJob]
           /\ \A w \in LabWorkers : LabSound(labWork[w])'
<1> DEFINE Moves(w) == \E j \in AnyLabJob : LabSound(j)' /\ LabTakes(w, j)
<1>1. LabGrows
  BY LabGrowth
<1>2. labWork \in [LabWorkers -> AnyLabJob]
  BY DEF LabInv, Lab!TypeOK, AnyLabJob
<1>3. ASSUME NEW w \in LabWorkers, \E j : LabGood(j) /\ LabTakes(w, j)
      PROVE  Moves(w)
  BY <1>1, <1>3, LabSoundStays DEF LabGood
<1>4. ASSUME NEW w \in LabWorkers, Lab!Serve(w)
      PROVE  Moves(w)
  BY <1>3, <1>4, LabBeforeGood, CaptureGood DEF Lab!Serve
<1>5. ASSUME NEW w \in LabWorkers, NEW s \in LabRuns,
             \/ \E state \in Lab!RunState \ {"none"} : Lab!Validate(w, s, state)
             \/ Lab!Retry(w, s)
      PROVE  Moves(w)
  BY <1>3, <1>5, ValidateGood, LabRetryGood
<1>6. ASSUME NEW w \in LabWorkers, Lab!IntakeStep(w), UNCHANGED Lab!labVars
      PROVE  Moves(w)
  <2>1. UNCHANGED <<runs, frozen>>
    BY <1>6 DEF Lab!labVars
  <2>2. CASE Lab!InsertEvidence(w)
    BY <2>1, <2>2, LabInsertGood
  <2>3. ASSUME NEW c \in LabCompetencies, Lab!LinkCompetency(w, c)
        PROVE  Moves(w)
    BY <2>1, <2>3, LabLinkGood
  <2>4. CASE Lab!FindEvidence(w) \/ Lab!RereadEvidence(w)
    BY <1>3, <2>4, LabCompareGood
  <2>5. CASE \/ Lab!RecordConsumed(w) \/ Lab!RecordSkipped(w) \/ Lab!RecordFailure(w)
             \/ Lab!LoseRoundTrip(w) \/ Lab!Crash(w)
    BY <1>3, <2>5, LabRecordGood
  <2> QED
    BY <1>6, <2>2, <2>3, <2>4, <2>5 DEF Lab!IntakeStep
<1>7. ASSUME \/ \E c \in LabCompetencies : Lab!PublishCompetency(c) /\ UNCHANGED Lab!labVars
             \/ Lab!PublishMission \/ UNCHANGED Lab!vars
      PROVE  UNCHANGED labWork
  BY <1>7 DEF Lab!PublishCompetency, Lab!PublishMission, Lab!vars
<1> HIDE DEF Moves
<1>8. UNCHANGED labWork \/ \E w \in LabWorkers : Moves(w)
  BY <1>4, <1>5, <1>6, <1>7 DEF Lab!Next
<1>9. ASSUME NEW o \in LabWorkers, labWork'[o] = labWork[o]
      PROVE  LabSound(labWork[o])'
  <2>1. PICK j : j = labWork[o]
    OBVIOUS
  <2>2. LabSound(j)'
    BY <1>1, <2>1, LabSoundWork, LabSoundStays
  <2> QED
    BY <1>9, <2>1, <2>2
<1>10. CASE UNCHANGED labWork
  BY <1>2, <1>9, <1>10
<1>11. ASSUME NEW w \in LabWorkers, NEW j \in AnyLabJob, LabSound(j)', LabTakes(w, j)
       PROVE  /\ labWork' \in [LabWorkers -> AnyLabJob]
              /\ \A o \in LabWorkers : LabSound(labWork[o])'
  <2>1. labWork' \in [LabWorkers -> AnyLabJob]
    BY <1>2, <1>11 DEF LabTakes
  <2>2. ASSUME NEW o \in LabWorkers
        PROVE  LabSound(labWork[o])'
    <3>1. CASE o = w
      <4>1. labWork'[o] = j
        BY <1>2, <1>11, <3>1 DEF LabTakes
      <4> QED
        BY <1>11, <4>1
    <3>2. CASE o # w
      BY <1>2, <1>9, <1>11, <3>2 DEF LabTakes
    <3> QED
      BY <3>1, <3>2
  <2> QED
    BY <2>1, <2>2
<1> QED
  BY <1>8, <1>10, <1>11 DEF Moves

LEMMA LabTypeNext ==
    ASSUME LabInv, [Lab!Next]_Lab!vars
    PROVE  Lab!TypeOK'
<1>1. labWork' \in [LabWorkers -> {Lab!Idle} \cup Lab!IntakeJob \cup Lab!LabJob]
  BY LabJobsNext DEF AnyLabJob
<1>2. /\ runs' \in [LabRuns -> Lab!RunState]
      /\ frozen' \in [LabRuns -> Lab!Authority \cup {NoAuthority}]
  BY LabTablesNext DEF LabInv, Lab!TypeOK
<1>3. /\ labEvidence' \in [LabRuns -> Lab!Proof \cup {NoEvidence}]
      /\ labLinks' \in SUBSET (LabRuns \X LabCompetencies)
      /\ labConsumption' \in [LabRuns -> Lab!Ledger!ConsumptionState]
  BY LabTablesNext, LabIngestionNext
     DEF LabInv, Lab!TypeOK, Lab!IntakeTypeOK, Lab!Ledger!ConsumptionState
<1>4. labApproved' \in SUBSET LabCompetencies /\ mission' \in 0..MaxMission
      /\ inForce' \in [LabRuns -> Lab!Authority]
  <2> DEFINE Kept == /\ labApproved' \in SUBSET LabCompetencies /\ mission' \in 0..MaxMission
                     /\ inForce' \in [LabRuns -> Lab!Authority]
  <2>1. ASSUME NEW w \in LabWorkers, NEW s \in LabRuns, NEW state \in Lab!RunState \ {"none"},
               Lab!Validate(w, s, state)
        PROVE  Kept
    BY <2>1, ResolveType DEF Lab!Validate, LabInv, Lab!TypeOK, Lab!IntakeTypeOK
  <2>2. ASSUME NEW w \in LabWorkers, Lab!Serve(w) \/ \E s \in LabRuns : Lab!Retry(w, s)
        PROVE  Kept
    BY <2>2, LabFrames DEF LabInv, Lab!TypeOK, Lab!IntakeTypeOK
  <2>3. ASSUME NEW w \in LabWorkers, Lab!IntakeStep(w), UNCHANGED Lab!labVars
        PROVE  Kept
    BY <2>3, LabFrames DEF Lab!labVars, LabInv, Lab!TypeOK, Lab!IntakeTypeOK
  <2>4. ASSUME NEW c \in LabCompetencies, Lab!PublishCompetency(c), UNCHANGED Lab!labVars
        PROVE  Kept
    BY <2>4 DEF Lab!PublishCompetency, Lab!labVars, LabInv, Lab!TypeOK, Lab!IntakeTypeOK
  <2>5. ASSUME Lab!PublishMission
        PROVE  Kept
    <3>1. mission + 1 \in 1..MaxMission
      BY <2>5, LabAssumption DEF Lab!PublishMission, Lab!LabConstants, LabInv, Lab!TypeOK
    <3>2. LabMapping[mission + 1] \in SUBSET LabCompetencies
      BY <3>1, LabAssumption DEF Lab!LabConstants
    <3> QED
      BY <2>5, <3>1, <3>2 DEF Lab!PublishMission, LabInv, Lab!TypeOK, Lab!IntakeTypeOK
  <2>6. ASSUME UNCHANGED Lab!vars
        PROVE  Kept
    BY <2>6 DEF Lab!vars, Lab!labVars, LabInv, Lab!TypeOK, Lab!IntakeTypeOK
  <2> HIDE DEF Kept
  <2>7. Kept
    BY <2>1, <2>2, <2>3, <2>4, <2>5, <2>6 DEF Lab!Next
  <2> QED
    BY <2>7 DEF Kept
<1> QED
  BY <1>1, <1>2, <1>3, <1>4 DEF Lab!TypeOK, Lab!IntakeTypeOK

\* Records and links stay within the authority that was frozen first.
LEMMA RunsProvenNext ==
    ASSUME LabInv, [Lab!Next]_Lab!vars
    PROVE  RunsProven'
<1>1. LabGrows
  BY LabGrowth
<1>2. ASSUME NEW s \in LabRuns, frozen'[s] # NoAuthority
      PROVE  runs'[s] \in Decided
  <2>1. runs[s] \in Decided
    BY <1>2, LabTablesNext DEF LabInv, Lab!TypeOK, RunsProven
  <2> QED
    BY <1>1, <2>1 DEF LabGrows, Decided
<1>3. ASSUME NEW s \in LabRuns, labEvidence'[s] # NoEvidence
      PROVE  frozen'[s] # NoAuthority /\ labEvidence'[s] = RunProof(s)'
  <2>1. frozen[s] # NoAuthority /\ labEvidence'[s] = RunProof(s)
    <3>1. CASE labEvidence[s] # NoEvidence
      BY <1>1, <3>1 DEF LabGrows, LabInv, RunsProven
    <3>2. CASE labEvidence[s] = NoEvidence
      <4>1. PICK r \in LabRuns : /\ frozen[r] # NoAuthority
                                 /\ labEvidence' = [labEvidence EXCEPT ![r] = RunProof(r)]
        BY <1>3, <3>2, LabTablesNext, LabIngestionNext
      <4>2. r = s
        BY <1>3, <3>2, <4>1 DEF LabInv, Lab!TypeOK, Lab!IntakeTypeOK
      <4> QED
        BY <4>1, <4>2 DEF LabInv, Lab!TypeOK, Lab!IntakeTypeOK
    <3> QED
      BY <3>1, <3>2
  <2>2. runs[s] # "none"
    BY <2>1 DEF LabInv, RunsProven, Decided
  <2>3. runs'[s] = runs[s] /\ frozen'[s] = frozen[s]
    BY <1>1, <2>1, <2>2 DEF LabGrows
  <2> QED
    BY <2>1, <2>3 DEF RunProof
<1>4. ASSUME NEW s \in LabRuns, NEW c \in LabCompetencies, <<s, c>> \in labLinks'
      PROVE  labEvidence'[s] # NoEvidence /\ c \in labEvidence'[s].mapping
  <2>1. labEvidence[s] # NoEvidence /\ c \in labEvidence[s].mapping
    <3>1. CASE <<s, c>> \in labLinks
      BY <3>1 DEF LabInv, RunsProven
    <3>2. CASE <<s, c>> \notin labLinks
      <4>1. PICK r \in LabRuns, k \in LabCompetencies :
              /\ labEvidence[r] # NoEvidence /\ k \in labEvidence[r].mapping
              /\ labLinks' = labLinks \cup {<<r, k>>}
        BY <1>4, <3>2, LabTablesNext, LabIngestionNext DEF Lab!Ledger!Recorded
      <4> QED
        BY <1>4, <3>2, <4>1
    <3> QED
      BY <3>1, <3>2
  <2> QED
    BY <1>1, <2>1 DEF LabGrows
<1> QED
  BY <1>2, <1>3, <1>4 DEF RunsProven

LEMMA LabConsumptionNext ==
    ASSUME LabInv, [Lab!Next]_Lab!vars
    PROVE  /\ \A s \in LabRuns : labConsumption'[s] # "none" => runs'[s] # "none"
           /\ Lab!ConsumedIsComplete'
<1>1. LabGrows
  BY LabGrowth
<1>2. \/ UNCHANGED labConsumption
      \/ \E s \in LabRuns, state \in {"consumed", "skipped", "failed"} :
            /\ labConsumption' = [labConsumption EXCEPT ![s] = state]
            /\ runs[s] # "none"
            /\ state = "consumed" => Lab!Ledger!Complete(s)
  BY LabTablesNext, LabIngestionNext
<1>3. ASSUME NEW s \in LabRuns, labConsumption'[s] # "none"
      PROVE  runs'[s] # "none"
  <2>1. runs[s] # "none"
    BY <1>2, <1>3 DEF LabInv, Lab!TypeOK, Lab!IntakeTypeOK
  <2> QED
    BY <1>1, <2>1 DEF LabGrows
<1>4. ASSUME NEW s \in LabRuns, labConsumption'[s] = "consumed"
      PROVE  Lab!Ledger!Complete(s)'
  <2>1. Lab!Ledger!Complete(s)
    BY <1>2, <1>4 DEF LabInv, Lab!TypeOK, Lab!IntakeTypeOK, Lab!ConsumedIsComplete
  <2> QED
    BY <1>1, <2>1 DEF LabGrows, Lab!Ledger!Complete, Lab!Ledger!Recorded
<1> QED
  BY <1>3, <1>4 DEF Lab!ConsumedIsComplete

LEMMA LabInvInit == Lab!Init => LabInv
<1> SUFFICES ASSUME Lab!Init
             PROVE  LabInv
  OBVIOUS
<1>1. Lab!TypeOK
  <2>1. Lab!IntakeTypeOK
    <3>1. \A m \in 1..mission : LabMapping[m] \in SUBSET LabCompetencies
      BY LabAssumption DEF Lab!Init, Lab!LabConstants
    <3>2. labApproved \in SUBSET LabCompetencies
      BY <3>1 DEF Lab!Init
    <3> QED
      BY <3>2 DEF Lab!Init, Lab!IntakeInit, Lab!Ledger!LedgerInit, Lab!IntakeTypeOK,
         Lab!Ledger!ConsumptionState
  <2>2. [mission |-> 0, mapping |-> {}] \in Lab!Authority
    BY LabAssumption DEF Lab!Authority, Lab!LabConstants
  <2> QED
    BY <2>1, <2>2 DEF Lab!Init, Lab!IntakeInit, Lab!TypeOK, Lab!RunState
<1>2. \A w \in LabWorkers : LabSound(labWork[w])
  BY LabIdleGood DEF Lab!Init, Lab!IntakeInit, LabGood
<1>3. RunsProven /\ Lab!ConsumedIsComplete /\ \A s \in LabRuns : labConsumption[s] = "none"
  BY DEF Lab!Init, Lab!IntakeInit, Lab!Ledger!LedgerInit, RunsProven, Lab!ConsumedIsComplete
<1> QED
  BY <1>1, <1>2, <1>3 DEF LabInv

LEMMA LabInvNext == LabInv /\ [Lab!Next]_Lab!vars => LabInv'
BY LabTypeNext, RunsProvenNext, LabConsumptionNext, LabJobsNext DEF LabInv

LEMMA LabInvHolds == Lab!Spec => []LabInv
BY LabInvInit, LabInvNext, PTL DEF Lab!Spec

\* Either half of the two sources at work is a behaviour of that source.
LEMMA Halves == BothSpec => Spec /\ Lab!Spec
<1>1. BothInit => Init /\ Lab!Init
  BY DEF BothInit
<1>2. [BothNext]_<<half, vars, labSide>> => [Next]_vars /\ [Lab!Next]_Lab!vars
  BY DEF BothNext, labSide, Lab!vars, Lab!intakeVars, Lab!labVars
<1> QED
  BY <1>1, <1>2, PTL DEF BothSpec, Spec, Lab!Spec

-----------------------------------------------------------------------------
\* Every table and job of a lab run is what the tables and handlers say it is.
THEOREM LabTypeCorrect == Lab!Spec => []Lab!TypeOK
BY LabInvHolds, PTL DEF LabInv

\* The Evidence of a validation run proves its stored state under the one
\* authority that was frozen for it, and its links are within that authority's
\* mapping, whichever of several consumers resolved the mission when, and
\* however often the mission is published in between (captureLabEvidence-
\* Handoff, consumeLabEvidence).
THEOREM OneAuthorityEach == BothSpec => []OneLabAuthority
<1>1. LabInv => OneLabAuthority
  BY DEF LabInv, RunsProven, RunProof, OneLabAuthority, Lab!OneAuthority
<1> QED
  BY <1>1, LabInvHolds, Halves, PTL

\* No consumer of a run meets a record that proves something else: the frozen
\* authority makes every delivery of a run offer the same provenance.
THEOREM LabNeverInConflict == Lab!Spec => []Lab!NoConflict
<1>1. LabInv => Lab!NoConflict
  BY DEF LabInv, LabSound, LabIngests, Lab!NoConflict, Lab!At
<1> QED
  BY <1>1, LabInvHolds, PTL

\* Lab consumers implement the same indivisible ledger as those of attempts,
\* through every retry, failed round trip and crash.
THEOREM LabImplements == Lab!Spec => Lab!ImplementsLedger
<1>1. Lab!Init => Lab!Ledger!LedgerInit
  BY DEF Lab!Init, Lab!IntakeInit
<1>2. LabInv /\ [Lab!Next]_Lab!vars => [Lab!Ledger!LedgerNext]_(Lab!Ledger!ledgerVars)
  <2> SUFFICES ASSUME LabInv, [Lab!Next]_Lab!vars
               PROVE  [Lab!Ledger!LedgerNext]_(Lab!Ledger!ledgerVars)
    OBVIOUS
  <2>1. ASSUME NEW s \in LabRuns, labEvidence[s] = NoEvidence, RunProof(s) \in Lab!Proof,
               labEvidence' = [labEvidence EXCEPT ![s] = RunProof(s)],
               UNCHANGED <<labLinks, labConsumption>>
        PROVE  Lab!Ledger!LedgerNext
    BY <2>1 DEF Lab!Ledger!LedgerNext, Lab!Ledger!Record, Lab!Ledger!Recorded, Lab!Proof,
       Lab!Ledger!Proof
  <2>2. ASSUME NEW s \in LabRuns, NEW c \in LabCompetencies,
               Lab!Ledger!Recorded(s), c \in labEvidence[s].mapping,
               labLinks' = labLinks \cup {<<s, c>>}, UNCHANGED <<labEvidence, labConsumption>>
        PROVE  Lab!Ledger!LedgerNext
    BY <2>2 DEF Lab!Ledger!LedgerNext, Lab!Ledger!Link
  <2>3. ASSUME NEW s \in LabRuns, NEW state \in {"consumed", "skipped", "failed"},
               labConsumption' = [labConsumption EXCEPT ![s] = state],
               state = "consumed" => Lab!Ledger!Complete(s),
               state = "skipped" => ~Lab!Ledger!Recorded(s),
               UNCHANGED <<labEvidence, labLinks>>
        PROVE  Lab!Ledger!LedgerNext
    BY <2>3 DEF Lab!Ledger!LedgerNext, Lab!Ledger!Consume, Lab!Ledger!Skip, Lab!Ledger!Fail
  <2>4. Lab!Ledger!LedgerNext \/ UNCHANGED <<labEvidence, labLinks, labConsumption>>
    BY <2>1, <2>2, <2>3, LabTablesNext, LabIngestionNext
  <2> QED
    BY <2>4 DEF Lab!Ledger!ledgerVars
<1> QED
  BY <1>1, <1>2, LabInvHolds, PTL DEF Lab!Spec, Lab!ImplementsLedger, Lab!Ledger!LedgerSpec
=============================================================================

-------------------- MODULE CertificateDefinitionProofs --------------------
(***************************************************************************)
(* Theorems about CertificateDefinition: however administrators race, what *)
(* becomes of a definition is what DefinitionRows allows.  And about       *)
(* LabAuthoring, the other half of the behaviours of MCAuthoring: however  *)
(* they race there, nobody passes a lab that requires nothing.             *)
(***************************************************************************)
EXTENDS MCAuthoring, SequenceTheorems, TLAPS, WellFoundedInduction

\* Everything after the row was first read, for this statement.
Judged == {"requirements", "competencies", "guard", "commit"}

\* The row that was judged is still there, since rows are never deleted, and so
\* is the successor it is to name, which is another one.
JudgedIsThere ==
    \A a \in Admins : req[a].step \in Judged =>
        /\ Exists(req[a].id)
        /\ Sets(Patching(a), "successor") =>
              Patching(a).successor # req[a].id /\ Exists(Patching(a).successor)

\* The row lock: one transaction at a time has run the triggers on a row and
\* not committed.
OneCommits ==
    \A a, b \in Admins :
        Working(a, "commit") /\ Working(b, "commit") /\ req[a].id = req[b].id => a = b

\* So what the freeze trigger saw is still so when the write becomes visible.
CommitIsLawful ==
    \A a \in Admins : Working(a, "commit") => ~Frozen(row[req[a].id], Patching(a))

Typed == TypeOK /\ JudgedIsThere

-----------------------------------------------------------------------------
LEMMA EditingRequest ==
    ASSUME TypeOK, NEW a \in Admins, req[a].step \in EditStep
    PROVE  /\ req[a] \in Editing(EditStep)
           /\ req[a].id \in Definitions
           /\ req[a].patches \in Patches
           /\ Patching(a) \in Patch
<1>1. req[a] \in Editing(EditStep)
  BY DEF TypeOK, Request, Idle, Editing, Creating, EditStep
<1>2. req[a].patches \in Patches /\ req[a].id \in Definitions
  BY <1>1 DEF Editing
<1>3. \A s \in Patches : Head(s) \in Patch
  BY DEF Patches
<1> QED
  BY <1>1, <1>2, <1>3 DEF Patching

\* After a statement the request is done, or has one more to make.
LEMMA RemainingPatches ==
    ASSUME NEW s \in Patches
    PROVE  /\ Len(s) \in {1, 2}
           /\ Len(s) # 1 => Tail(s) \in Patches
<1>1. CASE \E p \in Patch : s = <<p>>
  BY <1>1
<1>2. ASSUME NEW p \in Patch, NEW q \in Patch, s = <<p, q>>
      PROVE  Len(s) = 2 /\ Tail(s) \in Patches
  <2>1. Len(s) = 2 /\ Tail(s) = <<q>>
    BY <1>2
  <2> QED
    BY <2>1 DEF Patches
<1> QED
  BY <1>1, <1>2 DEF Patches

LEMMA PatchedType ==
    ASSUME NEW old \in Row, NEW patch \in Patch
    PROVE  Patched(old, patch) \in Row
<1>1. CASE patch \in [state : DefinitionState]
  BY <1>1 DEF Patched, Sets, Row
<1>2. CASE patch \in [terms : Terms]
  BY <1>2 DEF Patched, Sets, Row
<1>3. CASE patch \in [requires : SUBSET Competencies]
  BY <1>3 DEF Patched, Sets, Row
<1>4. CASE patch \in [policies : SUBSET Policies]
  BY <1>4 DEF Patched, Sets, Row
<1>5. CASE patch \in [successor : Definitions]
  BY <1>5 DEF Patched, Sets, Row
<1> QED
  BY <1>1, <1>2, <1>3, <1>4, <1>5 DEF Patch

\* Every set of natural numbers that is not empty has a least element.
LEMMA LeastOf ==
    ASSUME NEW T \in SUBSET Nat, T # {}
    PROVE  \E m \in T : \A k \in T : m <= k
<1>1. IsWellFoundedOn(OpToRel(<, Nat), Nat)
  BY NatLessThanWellFounded
<1>2. PICK m \in T : \A k \in T : <<k, m>> \notin OpToRel(<, Nat)
  BY <1>1, WFMin
<1>3. \A k \in T : ~(k < m)
  BY <1>2 DEF OpToRel
<1> QED
  BY <1>3

\* There always is a next version number, and it is free.
LEMMA NextVersionType ==
    ASSUME NEW stable
    PROVE  /\ NextVersion(stable) \in 1 .. MaxVersion + 1
           /\ \A v \in 1 .. MaxVersion : v >= NextVersion(stable) => ~Exists(<<stable, v>>)
<1> DEFINE taken == {v \in 1..MaxVersion : Exists(<<stable, v>>)}
           T == {n \in Nat : taken \subseteq 1..n}
           FirstFree(n) == taken \subseteq 1..(n - 1) /\ (n = 1 \/ n - 1 \in taken)
<1>1. MaxVersion \in T /\ T \in SUBSET Nat
  BY CertificateDefinitionAssumption
<1>2. PICK m \in T : \A k \in T : m <= k
  BY <1>1, LeastOf
<1>3. m \in Nat /\ m <= MaxVersion /\ taken \subseteq 1..m
  BY <1>1, <1>2
<1>4. ASSUME m # 0, m \notin taken
      PROVE  FALSE
  <2>1. taken \subseteq 1..(m - 1)
    BY <1>3, <1>4
  <2>2. m - 1 \in T
    BY <1>3, <1>4, <2>1
  <2> QED
    BY <1>2, <1>3, <2>2
<1>5. m + 1 \in 1 .. MaxVersion + 1 /\ FirstFree(m + 1)
  BY <1>3, <1>4, CertificateDefinitionAssumption
<1>6. NextVersion(stable) = CHOOSE n \in 1..(MaxVersion + 1) : FirstFree(n)
  BY DEF NextVersion
<1>7. NextVersion(stable) \in 1..(MaxVersion + 1) /\ FirstFree(NextVersion(stable))
  <2> HIDE DEF FirstFree
  <2> QED
    BY <1>5, <1>6
<1> QED
  BY <1>7, CertificateDefinitionAssumption

-----------------------------------------------------------------------------
LEMMA StopFacts ==
    ASSUME TypeOK, NEW a \in Admins, Stop(a)
    PROVE  /\ TypeOK'
           /\ req'[a] = Idle
           /\ \A b \in Admins \ {a} : req'[b] = req[b]
           /\ UNCHANGED <<row, published>>
BY DEF Stop, TypeOK, Request

LEMMA GotoFacts ==
    ASSUME TypeOK, NEW a \in Admins, NEW from \in EditStep, Working(a, from),
           NEW step \in EditStep, Goto(a, step)
    PROVE  /\ TypeOK'
           /\ req'[a].step = step /\ req'[a].id = req[a].id
           /\ req'[a].patches = req[a].patches
           /\ \A b \in Admins \ {a} : req'[b] = req[b]
           /\ UNCHANGED <<row, published>>
<1>1. req[a] \in Editing(EditStep)
  BY EditingRequest DEF Working
<1>2. [req[a] EXCEPT !.step = step] \in Editing(EditStep)
  BY <1>1 DEF Editing
<1>3. req'[a] = [req[a] EXCEPT !.step = step]
  BY DEF Goto, TypeOK
<1>4. TypeOK'
  BY <1>2 DEF Goto, TypeOK, Request
<1> QED
  BY <1>1, <1>3, <1>4 DEF Goto, TypeOK, Editing

\* Where a request may come from and go to when it does not write a row.
Steps(a, from, to) ==
    /\ req[a].step = from /\ req'[a].step = to
    /\ req'[a].id = req[a].id /\ req'[a].patches = req[a].patches

Judges(a) ==
    \/ ReadRow(a) \/ ReadRequirements(a) \/ CheckCompetency(a)
    \/ CompetenciesChecked(a) \/ Guard(a)

\* The reading steps of an edit: it stops, or goes on with the same statement.
LEMMA JudgeFacts ==
    ASSUME Typed, NEW a \in Admins, Judges(a)
    PROVE  /\ TypeOK'
           /\ \A b \in Admins \ {a} : req'[b] = req[b]
           /\ UNCHANGED <<row, published>>
           /\ req[a].step \in EditStep
           /\ \/ req'[a] = Idle
              \/ \E to \in Judged \ {"commit"} :
                    Steps(a, "read", to) /\ ReadRow(a) /\ ~Refused(a)
              \/ \E from \in Judged, to \in Judged \ {"commit"} : Steps(a, from, to)
              \/ Steps(a, "guard", "commit") /\ Guard(a) /\ ~Frozen(row[req[a].id], Patching(a))
<1> DEFINE Outcome ==
      \/ req'[a] = Idle
      \/ \E to \in Judged \ {"commit"} :
            Steps(a, "read", to) /\ ReadRow(a) /\ ~Refused(a)
      \/ \E from \in Judged, to \in Judged \ {"commit"} : Steps(a, from, to)
      \/ Steps(a, "guard", "commit") /\ Guard(a) /\ ~Frozen(row[req[a].id], Patching(a))
<1>0. TypeOK
  BY DEF Typed
<1>1. ASSUME Stop(a)
      PROVE  /\ TypeOK' /\ req'[a] = Idle
             /\ \A b \in Admins \ {a} : req'[b] = req[b]
             /\ UNCHANGED <<row, published>>
  BY <1>0, <1>1, StopFacts
<1>2. ASSUME NEW from \in EditStep, Working(a, from), NEW step \in EditStep, Goto(a, step)
      PROVE  /\ TypeOK' /\ Steps(a, from, step)
             /\ \A b \in Admins \ {a} : req'[b] = req[b]
             /\ UNCHANGED <<row, published>>
  <2>1. /\ TypeOK'
        /\ req'[a].step = step /\ req'[a].id = req[a].id
        /\ req'[a].patches = req[a].patches
        /\ \A b \in Admins \ {a} : req'[b] = req[b]
        /\ UNCHANGED <<row, published>>
    BY <1>0, <1>2, GotoFacts
  <2> QED
    BY <1>2, <2>1 DEF Steps, Working
<1>3. CASE ReadRow(a)
  <2>1. Working(a, "read") /\ req[a].step \in EditStep
    BY <1>3 DEF ReadRow, Working, EditStep
  <2>2. \/ Stop(a)
        \/ ~Refused(a) /\ Goto(a, "requirements")
        \/ ~Refused(a) /\ Goto(a, "guard")
    BY <1>3 DEF ReadRow
  <2>3. CASE Stop(a)
    BY <1>1, <2>1, <2>3
  <2>4. CASE ~Refused(a) /\ Goto(a, "requirements")
    BY <1>2, <1>3, <2>1, <2>4 DEF EditStep, Judged
  <2>5. CASE ~Refused(a) /\ Goto(a, "guard")
    BY <1>2, <1>3, <2>1, <2>5 DEF EditStep, Judged
  <2> QED
    BY <2>2, <2>3, <2>4, <2>5
<1>4. ASSUME NEW unread \in SUBSET Competencies, NEW from \in {"requirements", "competencies"},
             Working(a, from),
             req' = [req EXCEPT ![a] = [req[a] EXCEPT !.step = "competencies",
                                                      !.unchecked = unread]],
             UNCHANGED <<row, published>>
      PROVE  /\ TypeOK' /\ Steps(a, from, "competencies")
             /\ \A b \in Admins \ {a} : req'[b] = req[b]
  <2>1. req[a] \in Editing(EditStep)
    BY <1>0, <1>4, EditingRequest DEF Working, EditStep
  <2>2. [req[a] EXCEPT !.step = "competencies", !.unchecked = unread] \in Editing(EditStep)
    BY <2>1 DEF Editing, EditStep
  <2>3. req'[a] = [req[a] EXCEPT !.step = "competencies", !.unchecked = unread]
    BY <1>0, <1>4 DEF TypeOK
  <2>4. TypeOK'
    BY <1>0, <1>4, <2>2 DEF TypeOK, Request
  <2> QED
    BY <1>0, <1>4, <2>1, <2>3, <2>4 DEF Steps, Working, Editing, TypeOK
<1>5. CASE ReadRequirements(a)
  <2>1. Working(a, "requirements") /\ req[a].step \in EditStep
    BY <1>5 DEF ReadRequirements, Working, EditStep
  <2>2. CASE Stop(a)
    BY <1>1, <2>1, <2>2
  <2>3. CASE ~Stop(a)
    <3>1. Exists(req[a].id) /\ req[a].id \in Definitions
      <4>1. JudgedIsThere
        BY DEF Typed
      <4> QED
        BY <1>0, <2>1, <4>1, EditingRequest DEF JudgedIsThere, Working, Judged
    <3>2. row[req[a].id].requires \in SUBSET Competencies
      BY <1>0, <3>1 DEF TypeOK, Exists, Row
    <3>3. /\ req' = [req EXCEPT ![a] = [req[a] EXCEPT !.step = "competencies",
                                         !.unchecked = row[req[a].id].requires]]
          /\ UNCHANGED <<row, published>>
      BY <1>0, <1>5, <2>3 DEF ReadRequirements, TypeOK
    <3> QED
      BY <1>4, <2>1, <3>2, <3>3 DEF Judged
  <2> QED
    BY <2>2, <2>3
<1>6. CASE CheckCompetency(a)
  <2>1. Working(a, "competencies") /\ req[a].step \in EditStep
    BY <1>6 DEF CheckCompetency, Working, EditStep
  <2>2. CASE Stop(a)
    BY <1>1, <2>1, <2>2
  <2>3. CASE ~Stop(a)
    <3>1. PICK c \in req[a].unchecked :
             /\ req' = [req EXCEPT ![a].unchecked = @ \ {c}]
             /\ UNCHANGED <<row, published>>
      BY <1>6, <2>3 DEF CheckCompetency
    <3> DEFINE left == req[a].unchecked \ {c}
    <3>2. req[a] \in Editing(EditStep)
      BY <1>0, <2>1, EditingRequest
    <3>3. left \in SUBSET Competencies
      BY <3>2 DEF Editing
    <3>4. [req[a] EXCEPT !.unchecked = left]
            = [req[a] EXCEPT !.step = "competencies", !.unchecked = left]
      BY <2>1, <3>2 DEF Editing, Working
    <3>5. req' = [req EXCEPT ![a] = [req[a] EXCEPT !.step = "competencies",
                                                    !.unchecked = left]]
      BY <3>1, <3>4
    <3> HIDE DEF left
    <3> QED
      BY <1>4, <2>1, <3>1, <3>3, <3>5 DEF Judged
  <2> QED
    BY <2>2, <2>3
<1>7. CASE CompetenciesChecked(a)
  <2>1. /\ Working(a, "competencies") /\ req[a].step \in EditStep
        /\ Goto(a, "guard")
    BY <1>7 DEF CompetenciesChecked, Working, EditStep
  <2> QED
    BY <1>2, <2>1 DEF EditStep, Judged
<1>8. CASE Guard(a)
  <2>1. Working(a, "guard") /\ req[a].step \in EditStep
    BY <1>8 DEF Guard, Working, EditStep
  <2>2. \/ Stop(a)
        \/ ~Frozen(row[req[a].id], Patching(a)) /\ Goto(a, "commit")
    BY <1>8 DEF Guard
  <2>3. CASE Stop(a)
    BY <1>1, <2>1, <2>3
  <2>4. CASE ~Frozen(row[req[a].id], Patching(a)) /\ Goto(a, "commit")
    BY <1>2, <1>8, <2>1, <2>4 DEF EditStep
  <2> QED
    BY <2>2, <2>3, <2>4
<1> QED
  BY <1>3, <1>5, <1>6, <1>7, <1>8 DEF Judges

\* The write of a statement: the row is there, and the request then reads again
\* for its next statement or is done.
LEMMA CommitFacts ==
    ASSUME Typed, NEW a \in Admins, Commit(a)
    PROVE  /\ TypeOK'
           /\ Working(a, "commit")
           /\ req[a].id \in Definitions /\ Patching(a) \in Patch /\ Exists(req[a].id)
           /\ row' = [row EXCEPT ![req[a].id] = Patched(row[req[a].id], Patching(a))]
           /\ req'[a].step \notin Judged
           /\ \A b \in Admins \ {a} : req'[b] = req[b]
<1>0. TypeOK /\ JudgedIsThere
  BY DEF Typed
<1>1. Working(a, "commit") /\ req[a].step \in EditStep /\ req[a].step \in Judged
  BY DEF Commit, Working, EditStep, Judged
<1>2. /\ req[a] \in Editing(EditStep) /\ req[a].id \in Definitions
      /\ req[a].patches \in Patches /\ Patching(a) \in Patch
  BY <1>0, <1>1, EditingRequest
<1>3. Exists(req[a].id)
  BY <1>0, <1>1 DEF JudgedIsThere
<1>4. row' = [row EXCEPT ![req[a].id] = Patched(row[req[a].id], Patching(a))]
  BY DEF Commit
<1>5. Patched(row[req[a].id], Patching(a)) \in Row
  <2>1. row[req[a].id] \in Row
    BY <1>0, <1>2, <1>3 DEF TypeOK, Exists
  <2> QED
    BY <1>2, <2>1, PatchedType
<1>6. row' \in [Definitions -> Row \cup {Absent}]
  BY <1>0, <1>2, <1>4, <1>5 DEF TypeOK
<1> DEFINE after == IF Len(req[a].patches) = 1 THEN Idle
                    ELSE [req[a] EXCEPT !.step = "read", !.patches = Tail(req[a].patches)]
<1>7. after \in Request /\ after.step \notin Judged
  <2>1. CASE Len(req[a].patches) = 1
    BY <2>1 DEF Request, Idle, Judged
  <2>2. CASE Len(req[a].patches) # 1
    <3>1. Tail(req[a].patches) \in Patches
      BY <1>2, <2>2, RemainingPatches
    <3> DEFINE rest == Tail(req[a].patches)
    <3> HIDE DEF rest
    <3>2. /\ [req[a] EXCEPT !.step = "read", !.patches = rest] \in Editing(EditStep)
          /\ [req[a] EXCEPT !.step = "read", !.patches = rest].step = "read"
      BY <1>2, <3>1 DEF Editing, EditStep, rest
    <3> QED
      BY <2>2, <3>2 DEF Request, Judged, rest
  <2> QED
    BY <2>1, <2>2
<1>8. req' = [req EXCEPT ![a] = after]
  BY DEF Commit
<1>9. TypeOK' /\ req'[a] = after /\ \A b \in Admins \ {a} : req'[b] = req[b]
  <2> HIDE DEF after
  <2> QED
    BY <1>0, <1>6, <1>7, <1>8 DEF TypeOK, Commit
<1> HIDE DEF after
<1> QED
  BY <1>1, <1>2, <1>3, <1>4, <1>7, <1>9

LEMMA Joined ==
    ASSUME NEW S, NEW p \in S, NEW q \in S
    PROVE  <<p>> \o <<q>> = <<p, q>>
<1> DEFINE both == <<p>> \o <<q>>
           pair == <<p, q>>
<1>1. <<p>> \in Seq(S) /\ <<q>> \in Seq(S) /\ pair \in Seq(S)
  OBVIOUS
<1>2. both \in Seq(S)
  BY <1>1
<1>3. Len(both) = 2 /\ both[1] = p /\ both[2] = q
  BY <1>1
<1>4. Len(pair) = 2 /\ pair[1] = p /\ pair[2] = q
  OBVIOUS
<1>5. both = pair
  <2> HIDE DEF both, pair
  <2>1. \A i \in 1 .. Len(both) : both[i] = pair[i]
    BY <1>3, <1>4
  <2> QED
    BY <1>1, <1>2, <1>3, <1>4, <2>1, SeqEqual
<1> QED
  BY <1>5

\* What remains to be set on a new draft are statements like any other.
LEMMA RemainingIsPatches ==
    ASSUME NEW draft \in Drafts, Remaining(draft) # <<>>
    PROVE  Remaining(draft) \in Patches
<1>1. draft.requires \in SUBSET Competencies /\ draft.policies \in SUBSET Policies
  BY CertificateDefinitionAssumption DEF DraftInput
<1>2. [requires |-> draft.requires] \in Patch /\ [policies |-> draft.policies] \in Patch
  BY <1>1 DEF Patch
<1>3. CASE draft.requires = {} /\ draft.policies # {}
  <2>1. Remaining(draft) = <<[policies |-> draft.policies]>>
    BY <1>3 DEF Remaining
  <2> QED
    BY <1>2, <2>1 DEF Patches
<1>4. CASE draft.requires # {} /\ draft.policies = {}
  <2>1. Remaining(draft) = <<[requires |-> draft.requires]>>
    BY <1>4 DEF Remaining
  <2> QED
    BY <1>2, <2>1 DEF Patches
<1>5. CASE draft.requires # {} /\ draft.policies # {}
  <2> DEFINE p == [requires |-> draft.requires]
             q == [policies |-> draft.policies]
  <2>1. Remaining(draft) = <<p>> \o <<q>>
    BY <1>5 DEF Remaining
  <2> HIDE DEF p, q
  <2>2. <<p>> \o <<q>> = <<p, q>>
    <3>1. p \in Patch /\ q \in Patch
      BY <1>2 DEF p, q
    <3> QED
      BY <3>1, Joined
  <2> QED
    BY <1>2, <2>1, <2>2 DEF Patches, p, q
<1>6. CASE draft.requires = {} /\ draft.policies = {}
  BY <1>6 DEF Remaining
<1> QED
  BY <1>3, <1>4, <1>5, <1>6

\* An insert creates a draft where nothing was, or gives up.
LEMMA InsertFacts ==
    ASSUME TypeOK, NEW a \in Admins, InsertDraft(a)
    PROVE  /\ TypeOK'
           /\ req'[a].step \notin Judged
           /\ \A b \in Admins \ {a} : req'[b] = req[b]
           /\ \/ row' = row
              \/ \E d \in Definitions, terms \in Terms : CreateRow(d, terms)
<1>1. /\ req[a] \in [step : {"insert"}, draft : Drafts, id : Definitions]
      /\ req[a].draft \in Drafts /\ req[a].id \in Definitions
  BY DEF TypeOK, InsertDraft, Working, Request, Idle, Editing, EditStep, Creating
<1>2. CASE Stop(a)
  BY <1>2, StopFacts DEF Idle, Judged
<1>3. CASE ~Stop(a)
  <2> DEFINE draft == req[a].draft
             d == req[a].id
             after == IF Remaining(draft) = <<>> THEN Idle
                      ELSE [step |-> "read", id |-> d, patches |-> Remaining(draft),
                            unchecked |-> {}]
  <2>1. /\ CreateRow(d, draft.terms) /\ req' = [req EXCEPT ![a] = after]
        /\ UNCHANGED published
    BY <1>3 DEF InsertDraft
  <2>2. after \in Request /\ after.step \notin Judged
    <3>1. CASE Remaining(draft) = <<>>
      BY <3>1 DEF Request, Idle, Judged
    <3>2. CASE Remaining(draft) # <<>>
      <4>1. Remaining(draft) \in Patches
        BY <1>1, <3>2, RemainingIsPatches
      <4> DEFINE rest == Remaining(draft)
      <4> HIDE DEF rest
      <4>2. [step |-> "read", id |-> d, patches |-> rest, unchecked |-> {}]
               \in Editing(EditStep)
        BY <1>1, <4>1 DEF Editing, EditStep, rest
      <4> QED
        BY <3>2, <4>2 DEF Request, Judged, rest
    <3> QED
      BY <3>1, <3>2
  <2>3. draft.terms \in Terms
    BY <1>1, CertificateDefinitionAssumption DEF DraftInput
  <2>4. NewDraft(draft.terms) \in Row
    BY <2>3 DEF NewDraft, Row, DefinitionState
  <2>5. row' \in [Definitions -> Row \cup {Absent}]
    BY <1>1, <2>1, <2>4 DEF TypeOK, CreateRow
  <2> HIDE DEF after
  <2> QED
    BY <1>1, <2>1, <2>2, <2>3, <2>5 DEF TypeOK
<1> QED
  BY <1>2, <1>3

\* The steps that neither judge a row nor write one.
Prepares(a) ==
    \/ \E input \in Edits : ReceiveEdit(a, input)
    \/ \E draft \in Drafts : ReceiveDraft(a, draft)
    \/ ReadVersion(a) \/ Lose(a)

LEMMA PrepareFacts ==
    ASSUME TypeOK, NEW a \in Admins, Prepares(a)
    PROVE  /\ TypeOK'
           /\ req'[a].step \notin Judged
           /\ \A b \in Admins \ {a} : req'[b] = req[b]
           /\ UNCHANGED <<row, published>>
<1>1. ASSUME NEW after \in Request, after.step \notin Judged,
             req' = [req EXCEPT ![a] = after], UNCHANGED <<row, published>>
      PROVE  /\ TypeOK'
             /\ req'[a].step \notin Judged
             /\ \A b \in Admins \ {a} : req'[b] = req[b]
  BY <1>1 DEF TypeOK
<1>2. ASSUME NEW input \in Edits, ReceiveEdit(a, input)
      PROVE  \E after \in Request : /\ after.step \notin Judged
                                    /\ req' = [req EXCEPT ![a] = after]
  <2>1. input.id \in Definitions /\ input.patches \in Patches
    BY CertificateDefinitionAssumption DEF EditInput, Patches
  <2> DEFINE after == [step |-> "read", id |-> input.id, patches |-> input.patches,
                       unchecked |-> {}]
  <2>2. after \in Editing(EditStep) /\ after.step = "read"
    BY <2>1 DEF Editing, EditStep
  <2>3. req' = [req EXCEPT ![a] = after]
    BY <1>2 DEF ReceiveEdit
  <2> HIDE DEF after
  <2> QED
    BY <2>2, <2>3 DEF Request, Judged
<1>3. ASSUME NEW draft \in Drafts, ReceiveDraft(a, draft)
      PROVE  \E after \in Request : /\ after.step \notin Judged
                                    /\ req' = [req EXCEPT ![a] = after]
  <2> DEFINE after == [step |-> "version", draft |-> draft]
  <2>1. after \in Creating /\ after.step = "version"
    BY DEF Creating
  <2>2. req' = [req EXCEPT ![a] = after]
    BY <1>3 DEF ReceiveDraft
  <2> HIDE DEF after
  <2> QED
    BY <2>1, <2>2 DEF Request, Judged
<1>4. ASSUME ReadVersion(a)
      PROVE  \E after \in Request : /\ after.step \notin Judged
                                    /\ req' = [req EXCEPT ![a] = after]
  <2> DEFINE draft == req[a].draft
             n == NextVersion(draft.stable)
             after == [step |-> "insert", draft |-> draft, id |-> <<draft.stable, n>>]
  <2>1. draft \in Drafts
    BY <1>4 DEF TypeOK, ReadVersion, Working, Request, Idle, Editing, EditStep, Creating
  <2>2. draft.stable \in StableIds
    BY <2>1, CertificateDefinitionAssumption DEF DraftInput
  <2>3. n \in 1..MaxVersion
    <3>1. n \in 1..(MaxVersion + 1)
      BY NextVersionType
    <3> QED
      BY <1>4, <3>1, CertificateDefinitionAssumption DEF ReadVersion
  <2>4. req' = [req EXCEPT ![a] = after]
    BY <1>4 DEF ReadVersion
  <2> HIDE DEF n, draft
  <2>5. <<draft.stable, n>> \in Definitions
    BY <2>2, <2>3, CertificateDefinitionAssumption DEF Versions
  <2>6. after \in Creating /\ after.step = "insert"
    BY <2>1, <2>5 DEF Creating
  <2> HIDE DEF after
  <2> QED
    BY <2>4, <2>6 DEF Request, Judged
<1>5. CASE Lose(a)
  BY <1>5, StopFacts DEF Lose, Idle, Judged
<1>6. CASE ~Lose(a)
  <2>1. UNCHANGED <<row, published>>
    BY <1>6 DEF Prepares, ReceiveEdit, ReceiveDraft, ReadVersion
  <2>2. PICK after \in Request : after.step \notin Judged /\ req' = [req EXCEPT ![a] = after]
    BY <1>2, <1>3, <1>4, <1>6 DEF Prepares
  <2> QED
    BY <1>1, <2>1, <2>2
<1> QED
  BY <1>5, <1>6

-----------------------------------------------------------------------------
\* A step does nothing that concerns requests or rows, judges a row, writes
\* one, or does neither.
LEMMA StepCases ==
    ASSUME Typed, [Next]_vars
    PROVE  \/ UNCHANGED <<row, req>>
           \/ \E a \in Admins : Judges(a) \/ Commit(a) \/ InsertDraft(a) \/ Prepares(a)
BY DEF Next, vars, Judges, Prepares, PublishCompetency

LEMMA TypeInit ==
    ASSUME Init
    PROVE  Typed /\ OneCommits /\ CommitIsLawful
<1>1. TypeOK
  BY DEF Init, RowsInit, TypeOK, Request
<1>2. \A a \in Admins : req[a].step = "idle"
  BY DEF Init, Idle
<1> QED
  BY <1>1, <1>2 DEF Typed, JudgedIsThere, OneCommits, CommitIsLawful, Working, Judged

\* Rows are changed one at a time, and none is ever deleted.
LEMMA RowsStay ==
    ASSUME Typed, [Next]_vars
    PROVE  /\ TypeOK'
           /\ \A d \in Definitions : Exists(d) => Exists(d)'
<1>1. TypeOK
  BY DEF Typed
<1>2. CASE UNCHANGED <<row, req>>
  <2>1. published' \in SUBSET Competencies
    BY <1>1, <1>2 DEF Next, vars, PublishCompetency, TypeOK, ReceiveEdit, ReceiveDraft,
          ReadRow, ReadRequirements, CheckCompetency, CompetenciesChecked, Guard, Commit,
          ReadVersion, InsertDraft, Lose, Stop, Goto
  <2> QED
    BY <1>1, <1>2, <2>1 DEF TypeOK, Exists
<1>3. ASSUME NEW a \in Admins, Judges(a)
      PROVE  TypeOK' /\ row' = row
  BY <1>3, JudgeFacts
<1>4. ASSUME NEW a \in Admins, Prepares(a)
      PROVE  TypeOK' /\ row' = row
  BY <1>1, <1>4, PrepareFacts
<1>5. ASSUME NEW a \in Admins, Commit(a)
      PROVE  TypeOK' /\ \A d \in Definitions : Exists(d) => Exists(d)'
  <2>1. /\ TypeOK' /\ req[a].id \in Definitions /\ Exists(req[a].id)
        /\ Patching(a) \in Patch
        /\ row' = [row EXCEPT ![req[a].id] = Patched(row[req[a].id], Patching(a))]
    BY <1>5, CommitFacts
  <2>2. Patched(row[req[a].id], Patching(a)) \in Row
    BY <1>1, <2>1, PatchedType DEF TypeOK, Exists
  <2> QED
    BY <1>1, <2>1, <2>2, CertificateDefinitionAssumption DEF TypeOK, Exists
<1>6. ASSUME NEW a \in Admins, InsertDraft(a)
      PROVE  TypeOK' /\ \A d \in Definitions : Exists(d) => Exists(d)'
  <2>1. /\ TypeOK'
        /\ \/ row' = row
           \/ \E d \in Definitions, terms \in Terms : CreateRow(d, terms)
    BY <1>1, <1>6, InsertFacts
  <2> QED
    BY <1>1, <2>1 DEF TypeOK, CreateRow, Exists
<1> QED
  BY <1>2, <1>3, <1>4, <1>5, <1>6, StepCases DEF Exists

LEMMA Successors ==
    ASSUME NEW patch \in Patch, Sets(patch, "successor")
    PROVE  patch.successor \in Definitions
BY DEF Patch, Sets

LEMMA TypeNext ==
    ASSUME Typed, [Next]_vars
    PROVE  Typed'
<1>0. TypeOK /\ JudgedIsThere
  BY DEF Typed
<1>1. /\ TypeOK'
      /\ \A d \in Definitions : Exists(d) => Exists(d)'
  BY RowsStay
<1> DEFINE There(b) == /\ Exists(req[b].id)
                       /\ Sets(Patching(b), "successor") =>
                             /\ Patching(b).successor # req[b].id
                             /\ Exists(Patching(b).successor)
\* What was there for a request that goes on with the same statement still is.
<1>2. ASSUME NEW b \in Admins, There(b), req[b].step \in EditStep,
             req'[b].id = req[b].id, req'[b].patches = req[b].patches
      PROVE  There(b)'
  <2>1. req[b].id \in Definitions /\ Patching(b) \in Patch
    BY <1>0, <1>2, EditingRequest
  <2>2. Patching(b)' = Patching(b)
    BY <1>2 DEF Patching
  <2>3. Exists(req[b].id)'
    BY <1>1, <1>2, <2>1 DEF Exists
  <2>4. Sets(Patching(b), "successor") => Exists(Patching(b).successor)'
    BY <1>1, <1>2, <2>1, <2>2, Successors DEF Exists
  <2> QED
    BY <1>2, <2>2, <2>3, <2>4 DEF Exists
<1>3. ASSUME NEW b \in Admins, req'[b] = req[b], req'[b].step \in Judged
      PROVE  There(b)'
  BY <1>0, <1>2, <1>3 DEF JudgedIsThere, Judged, EditStep
<1>4. ASSUME NEW a \in Admins, Judges(a), req'[a].step \in Judged
      PROVE  There(a)'
  <2>1. /\ req[a].step \in EditStep
        /\ \/ req'[a] = Idle
           \/ \E to \in Judged \ {"commit"} :
                 Steps(a, "read", to) /\ ReadRow(a) /\ ~Refused(a)
           \/ \E from \in Judged, to \in Judged \ {"commit"} : Steps(a, from, to)
           \/ Steps(a, "guard", "commit") /\ Guard(a) /\ ~Frozen(row[req[a].id], Patching(a))
    BY <1>4, JudgeFacts
  <2>2. CASE \E to \in Judged \ {"commit"} : Steps(a, "read", to) /\ ReadRow(a) /\ ~Refused(a)
    <3>1. /\ ~Refused(a)
          /\ req'[a].id = req[a].id /\ req'[a].patches = req[a].patches
      BY <2>2 DEF Steps
    <3>2. Exists(req[a].id)
      BY <3>1 DEF Refused
    <3>3. ASSUME Sets(Patching(a), "successor")
          PROVE  Patching(a).successor # req[a].id /\ Exists(Patching(a).successor)
      <4>1. /\ Exists(Patching(a).successor)
            /\ ~WalkFails(req[a].id, Patching(a).successor)
        BY <3>1, <3>3 DEF Refused
      <4>2. Patching(a).successor \in Definitions
        BY <1>0, <2>1, <3>3, EditingRequest, Successors
      <4> QED
        BY <4>1, <4>2 DEF WalkFails
    <3>4. There(a)
      BY <3>2, <3>3
    <3> QED
      BY <1>2, <2>1, <3>1, <3>4
  <2>3. CASE \E from \in Judged, to \in Judged : Steps(a, from, to)
    <3>1. /\ req[a].step \in Judged
          /\ req'[a].id = req[a].id /\ req'[a].patches = req[a].patches
      BY <2>3 DEF Steps
    <3>2. There(a)
      BY <1>0, <3>1 DEF JudgedIsThere
    <3> QED
      BY <1>2, <2>1, <3>1, <3>2
  <2> QED
    BY <1>4, <2>1, <2>2, <2>3 DEF Idle, Judged
<1>5. ASSUME NEW b \in Admins, req'[b].step \in Judged
      PROVE  There(b)'
  <2>1. CASE UNCHANGED <<row, req>>
    BY <1>3, <1>5, <2>1
  <2>2. ASSUME NEW a \in Admins, Judges(a)
        PROVE  There(b)'
    <3>1. \A c \in Admins \ {a} : req'[c] = req[c]
      BY <2>2, JudgeFacts
    <3> QED
      BY <1>3, <1>4, <1>5, <2>2, <3>1
  <2>3. ASSUME NEW a \in Admins, Commit(a)
        PROVE  There(b)'
    <3>1. /\ \A c \in Admins \ {a} : req'[c] = req[c]
          /\ req'[a].step \notin Judged
      BY <2>3, CommitFacts
    <3> QED
      BY <1>3, <1>5, <3>1
  <2>4. ASSUME NEW a \in Admins, InsertDraft(a)
        PROVE  There(b)'
    <3>1. /\ \A c \in Admins \ {a} : req'[c] = req[c]
          /\ req'[a].step \notin Judged
      BY <1>0, <2>4, InsertFacts
    <3> QED
      BY <1>3, <1>5, <3>1
  <2>5. ASSUME NEW a \in Admins, Prepares(a)
        PROVE  There(b)'
    <3>1. /\ \A c \in Admins \ {a} : req'[c] = req[c]
          /\ req'[a].step \notin Judged
      BY <1>0, <2>5, PrepareFacts
    <3> QED
      BY <1>3, <1>5, <3>1
  <2> QED
    BY <2>1, <2>2, <2>3, <2>4, <2>5, StepCases
<1> QED
  BY <1>1, <1>5 DEF Typed, JudgedIsThere

\* Every row, every request and every statement is what its handler or table
\* says it is (certificate-admin.ts over migration 20260813000700).
THEOREM TypeCorrect == Spec => []TypeOK
<1>1. Spec => []Typed
  BY TypeInit, TypeNext, PTL DEF Spec
<1>2. Typed => TypeOK
  BY DEF Typed
<1> QED
  BY <1>1, <1>2, PTL

-----------------------------------------------------------------------------
\* Only the row triggers, having taken the lock and found nothing against the
\* statement, bring a request to its commit.
LEMMA EnterCommit ==
    ASSUME Typed, [Next]_vars, NEW a \in Admins, Working(a, "commit")'
    PROVE  \/ req'[a] = req[a] /\ Working(a, "commit")
           \/ /\ Guard(a) /\ Judges(a) /\ Steps(a, "guard", "commit")
              /\ ~Frozen(row[req[a].id], Patching(a))
<1>0. TypeOK
  BY DEF Typed
<1>1. req'[a].step = "commit" /\ req'[a].step \in Judged
  BY DEF Working, Judged
<1>2. CASE UNCHANGED <<row, req>>
  BY <1>1, <1>2 DEF Working
<1>3. ASSUME NEW b \in Admins, Judges(b)
      PROVE  \/ req'[a] = req[a]
             \/ /\ Guard(a) /\ Judges(a) /\ Steps(a, "guard", "commit")
                /\ ~Frozen(row[req[a].id], Patching(a))
  <2>1. CASE a # b
    BY <1>3, <2>1, JudgeFacts
  <2>2. CASE a = b
    <3>1. \/ req'[a] = Idle
          \/ \E to \in Judged \ {"commit"} :
                Steps(a, "read", to) /\ ReadRow(a) /\ ~Refused(a)
          \/ \E from \in Judged, to \in Judged \ {"commit"} : Steps(a, from, to)
          \/ Steps(a, "guard", "commit") /\ Guard(a) /\ ~Frozen(row[req[a].id], Patching(a))
      BY <1>3, <2>2, JudgeFacts
    <3>2. ~ \E from, to : to # "commit" /\ Steps(a, from, to)
      BY <1>1 DEF Steps
    <3> QED
      BY <1>1, <1>3, <2>2, <3>1, <3>2 DEF Idle
  <2> QED
    BY <2>1, <2>2
<1>4. ASSUME NEW b \in Admins, Commit(b)
      PROVE  req'[a] = req[a]
  BY <1>1, <1>4, CommitFacts
<1>5. ASSUME NEW b \in Admins, InsertDraft(b)
      PROVE  req'[a] = req[a]
  BY <1>0, <1>1, <1>5, InsertFacts
<1>6. ASSUME NEW b \in Admins, Prepares(b)
      PROVE  req'[a] = req[a]
  BY <1>0, <1>1, <1>6, PrepareFacts
<1> QED
  BY <1>1, <1>2, <1>3, <1>4, <1>5, <1>6, StepCases DEF Working

LEMMA OneCommitsNext ==
    ASSUME Typed, OneCommits, [Next]_vars
    PROVE  OneCommits'
<1>1. ASSUME NEW a \in Admins, NEW b \in Admins, a # b,
             Working(a, "commit")', Working(b, "commit")', req'[a].id = req'[b].id,
             Guard(a), Judges(a), Steps(a, "guard", "commit")
      PROVE  FALSE
  <2>1. req'[b] = req[b]
    BY <1>1, JudgeFacts
  <2>2. Working(b, "commit") /\ req[b].id = req[a].id
    BY <1>1, <2>1 DEF Working, Steps
  <2>3. ~Locked(req[a].id, a)
    BY <1>1 DEF Guard
  <2> QED
    BY <1>1, <2>2, <2>3 DEF Locked
<1>2. ASSUME NEW a \in Admins, NEW b \in Admins,
             Working(a, "commit")', Working(b, "commit")', req'[a].id = req'[b].id
      PROVE  a = b
  <2>1. CASE req'[a] = req[a] /\ req'[b] = req[b]
    BY <1>2, <2>1 DEF OneCommits, Working
  <2>2. CASE ~(req'[a] = req[a] /\ req'[b] = req[b])
    BY <1>1, <1>2, <2>2, EnterCommit
  <2> QED
    BY <2>1, <2>2
<1> QED
  BY <1>2 DEF OneCommits, Working

LEMMA CommitIsLawfulNext ==
    ASSUME Typed, OneCommits, CommitIsLawful, [Next]_vars
    PROVE  CommitIsLawful'
<1>0. TypeOK /\ JudgedIsThere
  BY DEF Typed
\* Under the lock nobody else writes the row.
<1>1. ASSUME NEW a \in Admins, Working(a, "commit"), req'[a] = req[a], Working(a, "commit")'
      PROVE  row'[req[a].id] = row[req[a].id]
  <2>1. req[a].step \in EditStep /\ req[a].step \in Judged
    BY <1>1 DEF Working, EditStep, Judged
  <2>2. req[a].id \in Definitions /\ Exists(req[a].id)
    BY <1>0, <2>1, EditingRequest DEF JudgedIsThere
  <2>3. CASE UNCHANGED <<row, req>>
    BY <2>3
  <2>4. ASSUME NEW b \in Admins, Judges(b)
        PROVE  row' = row
    BY <2>4, JudgeFacts
  <2>5. ASSUME NEW b \in Admins, Prepares(b)
        PROVE  row' = row
    BY <1>0, <2>5, PrepareFacts
  <2>6. ASSUME NEW b \in Admins, Commit(b)
        PROVE  row'[req[a].id] = row[req[a].id]
    <3>1. /\ Working(b, "commit") /\ req'[b].step \notin Judged
          /\ row' = [row EXCEPT ![req[b].id] = Patched(row[req[b].id], Patching(b))]
      BY <2>6, CommitFacts
    <3>2. a # b
      BY <1>1, <3>1 DEF Working, Judged
    <3>3. req[a].id # req[b].id
      BY <1>1, <3>1, <3>2 DEF OneCommits
    <3> QED
      BY <1>0, <2>2, <3>1, <3>3 DEF TypeOK
  <2>7. ASSUME NEW b \in Admins, InsertDraft(b)
        PROVE  row'[req[a].id] = row[req[a].id]
    <3>1. CASE row' = row
      BY <3>1
    <3>2. ASSUME NEW d \in Definitions, NEW terms \in Terms, CreateRow(d, terms)
          PROVE  row'[req[a].id] = row[req[a].id]
      BY <1>0, <2>2, <3>2 DEF CreateRow, TypeOK
    <3> QED
      BY <1>0, <2>7, <3>1, <3>2, InsertFacts
  <2> QED
    BY <2>3, <2>4, <2>5, <2>6, <2>7, StepCases
<1>2. ASSUME NEW a \in Admins, Working(a, "commit")'
      PROVE  ~Frozen(row'[req'[a].id], Patching(a)')
  <2>1. CASE req'[a] = req[a] /\ Working(a, "commit")
    <3>1. row'[req'[a].id] = row[req[a].id] /\ Patching(a)' = Patching(a)
      BY <1>1, <1>2, <2>1 DEF Patching
    <3> QED
      BY <2>1, <3>1 DEF CommitIsLawful
  <2>2. CASE /\ Guard(a) /\ Judges(a) /\ Steps(a, "guard", "commit")
             /\ ~Frozen(row[req[a].id], Patching(a))
    <3>1. row' = row
      BY <2>2, JudgeFacts
    <3>2. req'[a].id = req[a].id /\ Patching(a)' = Patching(a)
      BY <2>2 DEF Steps, Patching
    <3> QED
      BY <2>2, <3>1, <3>2
  <2> QED
    BY <1>2, <2>1, <2>2, EnterCommit
<1> QED
  BY <1>2 DEF CommitIsLawful, Working

-----------------------------------------------------------------------------
\* A statement that the freeze trigger passes leaves the meaning of a published
\* version as it is.
LEMMA LawfulKeepsMeaning ==
    ASSUME NEW old \in Row, NEW patch \in Patch, ~Frozen(old, patch),
           old.state = "published"
    PROVE  SameMeaning(old, Patched(old, patch))
BY DEF Frozen, SameMeaning, Patched

\* Each step of the handlers is one of the database's indivisible changes, or
\* changes no row.
LEMMA StepRefines ==
    ASSUME Typed, CommitIsLawful, [Next]_vars
    PROVE  [RowsNext]_row
<1>0. TypeOK /\ JudgedIsThere
  BY DEF Typed
<1>1. CASE UNCHANGED <<row, req>>
  BY <1>1
<1>2. ASSUME NEW a \in Admins, Judges(a)
      PROVE  row' = row
  BY <1>2, JudgeFacts
<1>3. ASSUME NEW a \in Admins, Prepares(a)
      PROVE  row' = row
  BY <1>0, <1>3, PrepareFacts
<1>4. ASSUME NEW a \in Admins, InsertDraft(a)
      PROVE  [RowsNext]_row
  BY <1>0, <1>4, InsertFacts DEF RowsNext
<1>5. ASSUME NEW a \in Admins, Commit(a)
      PROVE  UpdateRow(req[a].id, Patching(a))
  <2>1. /\ Working(a, "commit")
        /\ req[a].id \in Definitions /\ Patching(a) \in Patch /\ Exists(req[a].id)
        /\ row' = [row EXCEPT ![req[a].id] = Patched(row[req[a].id], Patching(a))]
    BY <1>5, CommitFacts
  <2>2. ~Frozen(row[req[a].id], Patching(a))
    BY <2>1 DEF CommitIsLawful
  <2>3. row[req[a].id] \in Row
    BY <1>0, <2>1 DEF TypeOK, Exists
  <2>4. Sets(Patching(a), "successor") =>
           Patching(a).successor # req[a].id /\ Exists(Patching(a).successor)
    BY <1>0, <2>1 DEF JudgedIsThere, Working, Judged
  <2> QED
    BY <2>1, <2>2, <2>3, <2>4, LawfulKeepsMeaning DEF UpdateRow
<1>6. ASSUME NEW a \in Admins, Commit(a)
      PROVE  [RowsNext]_row
  <2>1. req[a].id \in Definitions /\ Patching(a) \in Patch
    BY <1>6, CommitFacts
  <2> QED
    BY <1>5, <1>6, <2>1 DEF RowsNext
<1> QED
  BY <1>1, <1>2, <1>3, <1>4, <1>6, StepCases

LEMMA InvHolds == Spec => [](Typed /\ OneCommits /\ CommitIsLawful)
<1>1. Typed /\ OneCommits /\ CommitIsLawful /\ [Next]_vars
        => (Typed /\ OneCommits /\ CommitIsLawful)'
  BY TypeNext, OneCommitsNext, CommitIsLawfulNext
<1> QED
  BY <1>1, TypeInit, PTL DEF Spec

\* Reading, judging and writing in separate transactions, with any number of
\* administrators, comes to the same as the indivisible changes of
\* DefinitionRows (updateCertificateDefinitionRecord, createCertificateDefinition
\* and the replacement functions).
THEOREM Implements == Spec => ImplementsRows
<1>1. Init => RowsInit
  BY DEF Init
<1>2. Typed /\ OneCommits /\ CommitIsLawful /\ [Next]_vars => [RowsNext]_row
  BY StepRefines
<1> QED
  BY <1>1, <1>2, InvHolds, PTL DEF Spec, ImplementsRows, RowsSpec

\* In particular the terms, requirements and policies of a published version
\* stay as they are for as long as it is published, whatever edits were checked
\* while it was a draft (guard_certificate_definition_material_freeze).
THEOREM StaysFrozen == Spec => PublishedFrozen
<1>1. ASSUME Typed, CommitIsLawful, [Next]_vars
      PROVE  \A d \in Definitions :
                Exists(d) /\ row[d].state = "published" =>
                    Exists(d)' /\ SameMeaning(row[d], row'[d])
  <2>0. TypeOK /\ \A d \in Definitions : Exists(d) => Exists(d)'
    BY <1>1, RowsStay DEF Typed
  <2>1. [RowsNext]_row
    BY <1>1, StepRefines
  <2>2. ASSUME NEW d \in Definitions, Exists(d), row[d].state = "published"
        PROVE  SameMeaning(row[d], row'[d])
    <3>1. CASE UNCHANGED row
      BY <3>1 DEF SameMeaning
    <3>2. ASSUME NEW e \in Definitions, NEW terms \in Terms, CreateRow(e, terms)
          PROVE  SameMeaning(row[d], row'[d])
      BY <2>0, <2>2, <3>2 DEF CreateRow, TypeOK, SameMeaning
    <3>3. ASSUME NEW e \in Definitions, NEW patch \in Patch, UpdateRow(e, patch)
          PROVE  SameMeaning(row[d], row'[d])
      BY <2>0, <2>2, <3>3 DEF UpdateRow, TypeOK, SameMeaning
    <3> QED
      BY <2>1, <3>1, <3>2, <3>3 DEF RowsNext
  <2> QED
    BY <2>0, <2>2
<1>2. Typed /\ OneCommits /\ CommitIsLawful /\ [Next]_vars
        => [\A d \in Definitions :
               Exists(d) /\ row[d].state = "published" =>
                   Exists(d)' /\ SameMeaning(row[d], row'[d])]_vars
  BY <1>1
<1> QED
  BY <1>2, InvHolds, PTL DEF Spec, PublishedFrozen

-----------------------------------------------------------------------------
(* Labs, their profiles, and a student who is validated (LabAuthoring).     *)

ProfileOf(id) == definitions[id].body.profile

\* Some required check is published whenever any check of the profile is: the
\* checks that were published together move together, and none is removed.
Anchored(p) ==
    \E k \in Lab!ChecksOf(p) :
        /\ checks[p][k].required
        /\ Lab!PublishedChecks(p) # {} => k \in Lab!PublishedChecks(p)

\* What an administrator's request relies on.
AdminKnows(r) ==
    /\ r.step \in {"curriculum", "checks", "update"} => definitions[r.id] # Absent
    /\ r.step = "update" /\ r.to = "published" => Anchored(ProfileOf(r.id))

\* What a student's request carries on: from the definition on, something is
\* required.
StudentKnows(r) ==
    /\ r.step = "definition" => r.session \in DOMAIN sessions
    /\ r.step = "read" => Anchored(r.profile)
    /\ r.step = "probe" => \E k \in DOMAIN r.required : r.required[k]
    /\ r.step \in {"store", "results"} => \E k \in DOMAIN r.results : r.results[k].required
    /\ r.step = "results" =>
          r.run \in DOMAIN runs /\ runs[r.run].state = Lab!Derived(r.results)

LabInv ==
    /\ Lab!LabAuthoringTypeOK
    /\ \A d \in Lab!Versions : Lab!Visible(d) => Anchored(ProfileOf(d))
    /\ \A a \in Admins : AdminKnows(labReq[a])
    /\ \A t \in Tabs : StudentKnows(tab[t])
    /\ Lab!PassedShowsSomething

-----------------------------------------------------------------------------
\* Requests by what they carry.
StateStep == {"definition", "curriculum", "checks", "update"}
ProfileStep == {"profile", "update profile"}

StateRequest ==
    [step : StateStep, id : Lab!Versions, to : Lab!LabPublicationState,
     unchecked : SUBSET Lab!Curriculum]
ProfileRequest == [step : ProfileStep, profile : Profiles, to : Lab!LabPublicationState]
InsertRequest == [step : {"insert"}, draft : LabDrafts, id : Lab!Versions]

LEMMA AdminRequestParts ==
    ASSUME NEW r \in Lab!LabRequest
    PROVE  /\ r.step \in StateStep => r \in StateRequest
           /\ r.step \in ProfileStep => r \in ProfileRequest
           /\ r.step = "insert" => r \in InsertRequest
           /\ r.step = "version" => r.draft \in LabDrafts
<1>1. CASE r = Lab!Idle
  BY <1>1 DEF Lab!Idle, StateStep, ProfileStep
<1>2. CASE r \in [step : {"version"}, draft : LabDrafts]
  BY <1>2 DEF StateStep, ProfileStep
<1>3. CASE r \in InsertRequest
  BY <1>3 DEF InsertRequest, StateStep, ProfileStep
<1>4. CASE r \in StateRequest
  BY <1>4 DEF StateRequest, StateStep, ProfileStep
<1>5. CASE r \in ProfileRequest
  BY <1>5 DEF ProfileRequest, StateStep, ProfileStep
<1> QED
  BY <1>1, <1>2, <1>3, <1>4, <1>5
     DEF Lab!LabRequest, InsertRequest, StateRequest, StateStep, ProfileRequest, ProfileStep

LEMMA AdminRequests ==
    /\ Lab!Idle \in Lab!LabRequest
    /\ StateRequest \subseteq Lab!LabRequest
    /\ ProfileRequest \subseteq Lab!LabRequest
    /\ InsertRequest \subseteq Lab!LabRequest
BY DEF Lab!LabRequest, StateStep, ProfileStep, StateRequest, ProfileRequest, InsertRequest

\* Going on to another step keeps what the request carries.
LEMMA StateRequestMoves ==
    ASSUME NEW r \in StateRequest, NEW s \in StateStep, NEW q, q = [r EXCEPT !.step = s]
    PROVE  q \in StateRequest /\ q.step = s /\ q.id = r.id /\ q.to = r.to
BY DEF StateRequest

LEMMA OneChecked ==
    ASSUME NEW r \in StateRequest, NEW u \in SUBSET Lab!Curriculum,
           NEW q, q = [r EXCEPT !.unchecked = u]
    PROVE  q \in StateRequest /\ q.step = r.step /\ q.id = r.id
BY DEF StateRequest

StudentSession(r) ==
    /\ r.step = "request" => r.id \in Lab!Versions
    /\ r.step \in {"definition", "read", "probe", "store", "results", "reference"} =>
          r.session \in Nat
    /\ r.step = "read" => r.profile \in Profiles
    /\ r.step = "probe" => \E C \in SUBSET Checks : r.required \in [C -> BOOLEAN]
    /\ r.step \in {"store", "results"} => r.results \in Lab!Verdicts
    /\ r.step \in {"results", "reference"} => r.run \in Nat

LEMMA StudentRequestParts ==
    ASSUME NEW r \in Lab!StudentRequest
    PROVE  StudentSession(r)
<1>1. CASE r \in {Lab!Idle} \cup [step : {"request"}, id : Lab!Versions]
                 \cup [step : {"definition"}, session : Nat]
                 \cup [step : {"read"}, session : Nat, profile : Profiles]
  BY <1>1 DEF Lab!Idle, StudentSession
<1>2. CASE r \in [step : {"probe"}, session : Nat,
                  required : UNION {[C -> BOOLEAN] : C \in SUBSET Checks}]
  BY <1>2 DEF StudentSession
<1>3. CASE r \in [step : {"store"}, session : Nat, results : Lab!Verdicts]
                 \cup [step : {"results"}, session : Nat, results : Lab!Verdicts, run : Nat]
                 \cup [step : {"reference"}, session : Nat, run : Nat]
  BY <1>3 DEF StudentSession
<1> QED
  BY <1>1, <1>2, <1>3 DEF Lab!StudentRequest

-----------------------------------------------------------------------------
(* What no step takes back.                                                 *)

LabStays ==
    /\ \A d \in Lab!Versions : definitions[d] # Absent =>
          definitions'[d] # Absent /\ definitions'[d].body = definitions[d].body
    /\ \A p \in Profiles : Anchored(p) => Anchored(p)'
    /\ DOMAIN sessions \subseteq DOMAIN sessions'
    /\ \A i \in DOMAIN runs : i \in DOMAIN runs' /\ runs'[i].state = runs[i].state

LEMMA ProfileOfType ==
    ASSUME LabInv, NEW d \in Lab!Versions, definitions[d] # Absent
    PROVE  ProfileOf(d) \in Profiles /\ definitions[d] \in Lab!Definition
<1>1. definitions[d] \in Lab!Definition
  BY DEF LabInv, Lab!LabAuthoringTypeOK
<1> QED
  BY <1>1 DEF ProfileOf, Lab!Definition, Lab!Body

\* What a request read stays so until it is done.
LEMMA AdminKnowsStays ==
    ASSUME LabInv, LabStays, NEW r \in Lab!LabRequest, AdminKnows(r)
    PROVE  AdminKnows(r)'
<1>1. CASE r.step \in {"curriculum", "checks", "update"}
  <2>1. r.id \in Lab!Versions /\ definitions[r.id] # Absent
    BY <1>1, AdminRequestParts DEF StateStep, StateRequest, AdminKnows
  <2>2. definitions'[r.id] # Absent /\ ProfileOf(r.id)' = ProfileOf(r.id)
    BY <2>1 DEF LabStays, ProfileOf
  <2>3. ProfileOf(r.id) \in Profiles
    BY <2>1, ProfileOfType
  <2>4. PICK p : p = ProfileOf(r.id)
    OBVIOUS
  <2>5. Anchored(p) => Anchored(p)'
    BY <2>3, <2>4 DEF LabStays
  <2> QED
    BY <2>2, <2>4, <2>5 DEF AdminKnows
<1>2. CASE r.step \notin {"curriculum", "checks", "update"}
  BY <1>2 DEF AdminKnows
<1> QED
  BY <1>1, <1>2

LEMMA StudentKnowsStays ==
    ASSUME LabStays, NEW r \in Lab!StudentRequest, StudentKnows(r)
    PROVE  StudentKnows(r)'
<1>1. r.step = "read" => Anchored(r.profile)'
  BY StudentRequestParts DEF StudentSession, LabStays, StudentKnows
<1>2. r.step = "definition" => r.session \in DOMAIN sessions'
  BY DEF LabStays, StudentKnows
<1>3. r.step = "results" => r.run \in DOMAIN runs' /\ runs'[r.run].state = Lab!Derived(r.results)
  BY DEF LabStays, StudentKnows
<1> QED
  BY <1>1, <1>2, <1>3 DEF StudentKnows

-----------------------------------------------------------------------------
(* What each step leaves a request with.                                    *)

LEMMA LabWork ==
    ASSUME LabInv
    PROVE  /\ \A a \in Admins : labReq[a] \in Lab!LabRequest /\ AdminKnows(labReq[a])
           /\ \A t \in Tabs : tab[t] \in Lab!StudentRequest /\ StudentKnows(tab[t])
BY DEF LabInv, Lab!LabAuthoringTypeOK

LEMMA IdleKnows == AdminKnows(Lab!Idle) /\ StudentKnows(Lab!Idle)
BY DEF AdminKnows, StudentKnows, Lab!Idle

\* An administrator's request that goes on without writing.
LEMMA AdminGoesOn ==
    ASSUME LabInv, NEW a \in Admins,
           \/ \E draft \in LabDrafts : Lab!AskForDraft(a, draft)
           \/ \E id \in Lab!Versions, to \in Lab!LabPublicationState : Lab!AskForState(a, id, to)
           \/ \E p \in Profiles, to \in Lab!LabPublicationState : Lab!AskForProfileState(a, p, to)
           \/ Lab!ReadVersion(a) \/ Lab!ReadDefinition(a) \/ Lab!CheckReference(a)
           \/ Lab!ReferencesChecked(a) \/ Lab!ReadChecks(a) \/ Lab!ReadProfile(a)
           \/ Lab!LoseRequest(a)
    PROVE  \E r \in Lab!LabRequest : AdminKnows(r) /\ Lab!GoOn(a, r)
<1> DEFINE q == labReq[a]
           Goes == \E r \in Lab!LabRequest : AdminKnows(r) /\ Lab!GoOn(a, r)
<1>1. q \in Lab!LabRequest /\ AdminKnows(q)
  BY LabWork
<1>2. Lab!Idle \in Lab!LabRequest /\ AdminKnows(Lab!Idle)
  BY AdminRequests, IdleKnows
<1>3. q.step \in StateStep => q \in StateRequest
  BY <1>1, AdminRequestParts
<1>4. ASSUME NEW draft \in LabDrafts, Lab!AskForDraft(a, draft)
      PROVE  Goes
  <2> DEFINE r == [step |-> "version", draft |-> draft]
  <2>1. r \in Lab!LabRequest /\ AdminKnows(r)
    BY DEF Lab!LabRequest, AdminKnows
  <2> QED
    BY <1>4, <2>1 DEF Lab!AskForDraft
<1>5. ASSUME NEW id \in Lab!Versions, NEW to \in Lab!LabPublicationState,
             Lab!AskForState(a, id, to)
      PROVE  Goes
  <2> DEFINE r == [step |-> "definition", id |-> id, to |-> to, unchecked |-> {}]
  <2>1. r \in StateRequest /\ AdminKnows(r)
    BY DEF StateRequest, StateStep, AdminKnows
  <2> QED
    BY <1>5, <2>1, AdminRequests DEF Lab!AskForState
<1>6. ASSUME NEW p \in Profiles, NEW to \in Lab!LabPublicationState,
             Lab!AskForProfileState(a, p, to)
      PROVE  Goes
  <2> DEFINE r == [step |-> "profile", profile |-> p, to |-> to]
  <2>1. r \in ProfileRequest /\ AdminKnows(r)
    BY DEF ProfileRequest, ProfileStep, AdminKnows
  <2> QED
    BY <1>6, <2>1, AdminRequests DEF Lab!AskForProfileState
<1>7. CASE Lab!ReadVersion(a)
  <2>1. PICK v \in 1..MaxLabVersion :
          Lab!GoOn(a, [step |-> "insert", draft |-> q.draft, id |-> <<q.draft.lab, v>>])
    BY <1>7 DEF Lab!ReadVersion
  <2>2. q.draft \in LabDrafts
    BY <1>1, <1>7, AdminRequestParts DEF Lab!ReadVersion, Lab!Working
  <2>3. <<q.draft.lab, v>> \in Lab!Versions
    BY <2>2, LabAssumption DEF Lab!LabAuthoringConstants, Lab!Versions
  <2> DEFINE r == [step |-> "insert", draft |-> q.draft, id |-> <<q.draft.lab, v>>]
  <2>4. r \in InsertRequest /\ AdminKnows(r)
    BY <2>2, <2>3 DEF InsertRequest, AdminKnows
  <2> QED
    BY <2>1, <2>4, AdminRequests
<1>8. CASE Lab!ReadDefinition(a)
  <2>1. q \in StateRequest /\ q.step = "definition"
    BY <1>3, <1>8 DEF Lab!ReadDefinition, Lab!Working, StateStep
  <2>2. CASE Lab!GoOn(a, Lab!Idle)
    BY <1>2, <2>2
  <2>3. CASE /\ definitions[q.id] # Absent /\ q.to # "published"
             /\ Lab!GoOn(a, [q EXCEPT !.step = "update"])
    <3> DEFINE r == [q EXCEPT !.step = "update"]
    <3>1. r \in StateRequest /\ r.step = "update" /\ r.id = q.id /\ r.to = q.to
      BY <2>1, StateRequestMoves DEF StateRequest, StateStep
    <3> HIDE DEF r
    <3>2. AdminKnows(r)
      BY <2>3, <3>1 DEF AdminKnows
    <3> QED
      BY <2>3, <3>1, <3>2, AdminRequests DEF r
  <2>4. CASE /\ definitions[q.id] # Absent
             /\ Lab!GoOn(a, [q EXCEPT !.step = "curriculum",
                                      !.unchecked = {definitions[q.id].body.mission}
                                                    \cup definitions[q.id].body.competencies])
    <3>1. PICK u : u = {definitions[q.id].body.mission} \cup definitions[q.id].body.competencies
      OBVIOUS
    <3>2. u \in SUBSET Lab!Curriculum
      BY <2>1, <2>4, <3>1, ProfileOfType
         DEF StateRequest, Lab!Definition, Lab!Body, Lab!Curriculum
    <3>3. PICK r : r = [q EXCEPT !.step = "curriculum", !.unchecked = u]
      OBVIOUS
    <3>4. r \in StateRequest /\ r.step = "curriculum" /\ r.id = q.id
      BY <2>1, <3>2, <3>3 DEF StateRequest, StateStep
    <3>5. AdminKnows(r)
      BY <2>4, <3>4 DEF AdminKnows
    <3> QED
      BY <2>4, <3>1, <3>3, <3>4, <3>5, AdminRequests
  <2> QED
    BY <1>8, <2>2, <2>3, <2>4 DEF Lab!ReadDefinition
<1>9. CASE Lab!CheckReference(a)
  <2>1. q \in StateRequest /\ q.step = "curriculum" /\ definitions[q.id] # Absent
    BY <1>1, <1>3, <1>9 DEF Lab!CheckReference, Lab!Working, StateStep, AdminKnows
  <2>2. PICK x \in q.unchecked :
          \/ Lab!GoOn(a, Lab!Idle)
          \/ Lab!GoOn(a, [q EXCEPT !.unchecked = q.unchecked \ {x}])
    BY <1>9 DEF Lab!CheckReference
  <2> DEFINE u == q.unchecked \ {x}
             r == [q EXCEPT !.unchecked = u]
  <2>3. u \in SUBSET Lab!Curriculum
    BY <2>1 DEF StateRequest
  <2> HIDE DEF u
  <2>4. r \in StateRequest /\ r.step = "curriculum" /\ r.id = q.id
    BY <2>1, <2>3, OneChecked
  <2> HIDE DEF r
  <2>5. AdminKnows(r)
    BY <2>1, <2>4 DEF AdminKnows
  <2> QED
    BY <1>2, <2>2, <2>4, <2>5, AdminRequests DEF r, u
<1>10. CASE Lab!ReferencesChecked(a)
  <2>1. q \in StateRequest /\ q.step = "curriculum" /\ definitions[q.id] # Absent
    BY <1>1, <1>3, <1>10 DEF Lab!ReferencesChecked, Lab!Working, StateStep, AdminKnows
  <2> DEFINE r == [q EXCEPT !.step = "checks"]
  <2>2. r \in StateRequest /\ r.step = "checks" /\ r.id = q.id
    BY <2>1, StateRequestMoves DEF StateRequest, StateStep
  <2> HIDE DEF r
  <2>3. AdminKnows(r)
    BY <2>1, <2>2 DEF AdminKnows
  <2> QED
    BY <1>10, <2>2, <2>3, AdminRequests DEF Lab!ReferencesChecked, r
<1>11. CASE Lab!ReadChecks(a)
  <2> DEFINE p == ProfileOf(q.id)
             r == [q EXCEPT !.step = "update"]
  <2>1. q \in StateRequest /\ q.step = "checks" /\ definitions[q.id] # Absent
    BY <1>1, <1>3, <1>11 DEF Lab!ReadChecks, Lab!Working, StateStep, AdminKnows
  <2>2. r \in StateRequest /\ r.step = "update" /\ r.id = q.id
    BY <2>1, StateRequestMoves DEF StateRequest, StateStep
  <2> HIDE DEF r
  <2>3. CASE \E k \in Lab!PublishedChecks(p) : checks[p][k].required
    <3>1. Anchored(p)
      BY <2>3 DEF Anchored, Lab!PublishedChecks
    <3>2. AdminKnows(r)
      BY <2>1, <2>2, <3>1 DEF AdminKnows
    <3>3. Lab!GoOn(a, r)
      BY <1>11, <2>3 DEF Lab!ReadChecks, ProfileOf, r
    <3> QED
      BY <2>2, <3>2, <3>3, AdminRequests
  <2>4. CASE ~\E k \in Lab!PublishedChecks(p) : checks[p][k].required
    BY <1>2, <1>11, <2>4 DEF Lab!ReadChecks, ProfileOf
  <2> QED
    BY <2>3, <2>4
<1>12. CASE Lab!ReadProfile(a)
  <2> DEFINE r == [q EXCEPT !.step = "update profile"]
  <2>1. q \in ProfileRequest
    BY <1>1, <1>12, AdminRequestParts DEF Lab!ReadProfile, Lab!Working, ProfileStep
  <2>2. r \in ProfileRequest /\ r.step = "update profile"
    BY <2>1 DEF ProfileRequest, ProfileStep
  <2> HIDE DEF r
  <2>3. AdminKnows(r)
    BY <2>2 DEF AdminKnows
  <2>4. Lab!GoOn(a, r) \/ Lab!GoOn(a, Lab!Idle)
    BY <1>12 DEF Lab!ReadProfile, r
  <2> QED
    BY <1>2, <2>2, <2>3, <2>4, AdminRequests
<1>13. CASE Lab!LoseRequest(a)
  BY <1>2, <1>13 DEF Lab!LoseRequest
<1> QED
  BY <1>4, <1>5, <1>6, <1>7, <1>8, <1>9, <1>10, <1>11, <1>12, <1>13

\* A student's request that goes on without writing.
LEMMA StudentGoesOn ==
    ASSUME LabInv, NEW t \in Tabs,
           \/ \E id \in Lab!Versions : Lab!ChooseDefinition(t, id)
           \/ \E i \in DOMAIN sessions : Lab!AskForValidation(t, i)
           \/ Lab!ReadProfileOf(t) \/ Lab!ReadPublishedChecks(t) \/ Lab!Probe(t) \/ Lab!LoseTab(t)
    PROVE  \E r \in Lab!StudentRequest : StudentKnows(r) /\ Lab!Turns(t, r)
<1> DEFINE q == tab[t]
           Goes == \E r \in Lab!StudentRequest : StudentKnows(r) /\ Lab!Turns(t, r)
<1>1. q \in Lab!StudentRequest /\ StudentKnows(q) /\ StudentSession(q)
  BY LabWork, StudentRequestParts
<1>2. Lab!Idle \in Lab!StudentRequest /\ StudentKnows(Lab!Idle)
  BY IdleKnows DEF Lab!StudentRequest
<1>3. ASSUME NEW id \in Lab!Versions, Lab!ChooseDefinition(t, id)
      PROVE  Goes
  <2> DEFINE r == [step |-> "request", id |-> id]
  <2>1. r \in Lab!StudentRequest /\ StudentKnows(r)
    BY DEF Lab!StudentRequest, StudentKnows
  <2> QED
    BY <1>3, <2>1 DEF Lab!ChooseDefinition
<1>4. ASSUME NEW i \in DOMAIN sessions, Lab!AskForValidation(t, i)
      PROVE  Goes
  <2> DEFINE r == [step |-> "definition", session |-> i]
  <2>1. i \in Nat
    BY DEF LabInv, Lab!LabAuthoringTypeOK
  <2>2. r \in Lab!StudentRequest /\ StudentKnows(r)
    BY <2>1 DEF Lab!StudentRequest, StudentKnows
  <2> QED
    BY <1>4, <2>2 DEF Lab!AskForValidation
<1>5. CASE Lab!ReadProfileOf(t)
  <2> DEFINE d == sessions[q.session].definition
  <2>1. q.step = "definition" /\ q.session \in DOMAIN sessions /\ q.session \in Nat
    BY <1>1, <1>5 DEF Lab!ReadProfileOf, Lab!At, StudentKnows, StudentSession
  <2>2. d \in Lab!Versions
    <3>1. sessions \in Seq([definition : Lab!Versions, usable : BOOLEAN, run : Nat])
      BY DEF LabInv, Lab!LabAuthoringTypeOK
    <3>2. q.session \in 1..Len(sessions)
      BY <2>1, <3>1
    <3>3. sessions[q.session] \in [definition : Lab!Versions, usable : BOOLEAN, run : Nat]
      BY <3>1, <3>2, ElementOfSeq
    <3> QED
      BY <3>3
  <2>3. CASE Lab!Visible(d)
    <3> DEFINE r == [step |-> "read", session |-> q.session, profile |-> ProfileOf(d)]
    <3>1. Anchored(ProfileOf(d)) /\ ProfileOf(d) \in Profiles
      BY <2>2, <2>3, ProfileOfType DEF LabInv, Lab!Visible
    <3>2. r \in Lab!StudentRequest /\ StudentKnows(r)
      BY <2>1, <3>1 DEF Lab!StudentRequest, StudentKnows
    <3>3. Lab!Turns(t, r)
      BY <1>5, <2>3 DEF Lab!ReadProfileOf, ProfileOf
    <3> QED
      BY <3>2, <3>3
  <2>4. CASE ~Lab!Visible(d)
    BY <1>2, <1>5, <2>4 DEF Lab!ReadProfileOf
  <2> QED
    BY <2>3, <2>4
<1>6. CASE Lab!ReadPublishedChecks(t)
  <2> DEFINE p == q.profile
             C == Lab!PublishedChecks(p)
             required == [k \in C |-> checks[p][k].required]
             r == [step |-> "probe", session |-> q.session, required |-> required]
  <2>1. q.session \in Nat /\ p \in Profiles /\ Anchored(p)
    BY <1>1, <1>6 DEF Lab!ReadPublishedChecks, Lab!At, StudentKnows, StudentSession
  <2>2. CASE C # {}
    <3>1. C \in SUBSET Checks /\ \A k \in C : checks[p][k] # Absent
      BY DEF Lab!PublishedChecks, Lab!ChecksOf
    <3>2. \A k \in C : checks[p][k] \in Lab!Check
      BY <2>1, <3>1 DEF LabInv, Lab!LabAuthoringTypeOK
    <3>3. required \in [C -> BOOLEAN]
      BY <3>2 DEF Lab!Check
    <3>4. \E k \in C : checks[p][k].required
      BY <2>1, <2>2 DEF Anchored
    <3>5. DOMAIN required = C /\ \E k \in DOMAIN required : required[k]
      BY <3>4
    <3> HIDE DEF required, C
    <3>6. r \in Lab!StudentRequest
      BY <2>1, <3>1, <3>3 DEF Lab!StudentRequest
    <3>7. r.step = "probe" /\ r.required = required
      OBVIOUS
    <3>8. Lab!Turns(t, r)
      BY <1>6, <2>2 DEF Lab!ReadPublishedChecks, required, C
    <3> HIDE DEF r
    <3>9. StudentKnows(r)
      BY <3>5, <3>7 DEF StudentKnows
    <3> QED
      BY <3>6, <3>8, <3>9
  <2>3. CASE C = {}
    BY <1>2, <1>6, <2>3 DEF Lab!ReadPublishedChecks
  <2> QED
    BY <2>2, <2>3
<1>7. CASE Lab!Probe(t)
  <2>1. q.step = "probe" /\ q.session \in Nat
    BY <1>1, <1>7 DEF Lab!Probe, Lab!At, StudentSession
  <2>2. PICK C \in SUBSET Checks : q.required \in [C -> BOOLEAN]
    BY <1>1, <2>1 DEF StudentSession
  <2>3. PICK m \in C : q.required[m]
    BY <1>1, <2>1, <2>2 DEF StudentKnows
  <2>4. PICK outcome \in [C -> Lab!Outcome] :
          Lab!Turns(t, [step |-> "store", session |-> q.session,
                        results |-> [k \in C |-> [required |-> q.required[k],
                                                  state |-> outcome[k]]]])
    BY <1>7, <2>2 DEF Lab!Probe
  <2> DEFINE results == [k \in C |-> [required |-> q.required[k], state |-> outcome[k]]]
             r == [step |-> "store", session |-> q.session, results |-> results]
  <2>5. results \in [C -> [required : BOOLEAN, state : Lab!Outcome]]
    BY <2>2, <2>4
  <2>6. results \in Lab!Verdicts /\ DOMAIN results = C /\ results[m].required
    BY <2>3, <2>5 DEF Lab!Verdicts
  <2> HIDE DEF results
  <2>7. r \in Lab!StudentRequest /\ r.step = "store" /\ r.results = results
    BY <2>1, <2>6 DEF Lab!StudentRequest
  <2>8. Lab!Turns(t, r)
    BY <2>4 DEF results
  <2> HIDE DEF r
  <2>9. StudentKnows(r)
    BY <2>3, <2>6, <2>7 DEF StudentKnows
  <2> QED
    BY <2>7, <2>8, <2>9
<1>8. CASE Lab!LoseTab(t)
  BY <1>2, <1>8 DEF Lab!LoseTab
<1> QED
  BY <1>3, <1>4, <1>5, <1>6, <1>7, <1>8

-----------------------------------------------------------------------------
(* What each step does to the tables.                                       *)

\* Definitions are inserted once and keep their body; only a request that
\* found a required check published writes "published".
LEMMA DefinitionsNext ==
    ASSUME LabInv, NEW a \in Admins, Lab!InsertDraft(a) \/ Lab!UpdateDefinition(a)
    PROVE  /\ definitions' \in [Lab!Versions -> Lab!Definition \cup {Absent}]
           /\ \A d \in Lab!Versions : definitions[d] # Absent =>
                definitions'[d] # Absent /\ definitions'[d].body = definitions[d].body
           /\ \A d \in Lab!Versions : definitions'[d] # Absent /\ definitions'[d].state = "published" =>
                /\ definitions[d] # Absent
                /\ Anchored(ProfileOf(d))
<1> DEFINE q == labReq[a]
<1>1. q \in Lab!LabRequest /\ AdminKnows(q)
  BY LabWork
<1>2. definitions \in [Lab!Versions -> Lab!Definition \cup {Absent}]
  BY DEF LabInv, Lab!LabAuthoringTypeOK
<1>3. \A d \in Lab!Versions : definitions[d] # Absent /\ definitions[d].state = "published" =>
         Anchored(ProfileOf(d))
  BY DEF LabInv, Lab!Visible
<1>4. CASE Lab!InsertDraft(a)
  <2>1. q \in InsertRequest
    BY <1>1, <1>4, AdminRequestParts DEF Lab!InsertDraft, Lab!Working
  <2>2. q.id \in Lab!Versions /\ q.draft.body \in Lab!Body
    BY <2>1, LabAssumption DEF InsertRequest, Lab!LabAuthoringConstants
  <2>3. PICK new : new = [body |-> q.draft.body, state |-> "draft"]
    OBVIOUS
  <2>4. new \in Lab!Definition /\ new.state = "draft" /\ new # Absent
    BY <2>2, <2>3, LabAssumption
       DEF Lab!Definition, Lab!LabPublicationState, Lab!LabAuthoringConstants
  <2>5. \/ UNCHANGED definitions
        \/ definitions[q.id] = Absent /\ definitions' = [definitions EXCEPT ![q.id] = new]
    BY <1>4, <2>3 DEF Lab!InsertDraft
  <2> QED
    BY <1>2, <1>3, <2>2, <2>4, <2>5
<1>5. CASE Lab!UpdateDefinition(a)
  <2>1. q \in StateRequest /\ definitions[q.id] # Absent
        /\ (q.to = "published" => Anchored(ProfileOf(q.id)))
    BY <1>1, <1>5, AdminRequestParts
       DEF Lab!UpdateDefinition, Lab!Working, StateStep, AdminKnows
  <2>2. q.id \in Lab!Versions /\ q.to \in Lab!LabPublicationState
        /\ definitions[q.id] \in Lab!Definition
    BY <1>2, <2>1 DEF StateRequest
  <2>3. PICK new : new = [definitions[q.id] EXCEPT !.state = q.to]
    OBVIOUS
  <2>4. /\ new \in Lab!Definition /\ new.state = q.to /\ new # Absent
        /\ new.body = definitions[q.id].body
    BY <2>2, <2>3, LabAssumption DEF Lab!Definition, Lab!LabAuthoringConstants
  <2>5. definitions' = [definitions EXCEPT ![q.id] = new]
    BY <1>2, <1>5, <2>2, <2>3 DEF Lab!UpdateDefinition
  <2> QED
    BY <1>2, <1>3, <2>1, <2>2, <2>4, <2>5
<1> QED
  BY <1>4, <1>5

\* A check is never removed, and keeps whether it is required; all checks of a
\* profile are moved at once.
LEMMA ChecksNext ==
    ASSUME LabInv, NEW a \in Admins,
           \/ \E addition \in Additions : Lab!AddChecks(a, addition)
           \/ Lab!UpdateProfile(a)
    PROVE  /\ checks' \in [Profiles -> [Checks -> Lab!Check \cup {Absent}]]
           /\ \A p \in Profiles : Anchored(p) => Anchored(p)'
<1>1. checks \in [Profiles -> [Checks -> Lab!Check \cup {Absent}]]
  BY DEF LabInv, Lab!LabAuthoringTypeOK
<1>2. ASSUME NEW p \in Profiles, NEW after \in [Checks -> Lab!Check \cup {Absent}],
             checks' = [checks EXCEPT ![p] = after],
             \A k \in Checks : checks[p][k] # Absent =>
                after[k] # Absent /\ after[k].required = checks[p][k].required,
             \/ \A k \in Checks : /\ checks[p][k] # Absent => after[k] = checks[p][k]
                                  /\ checks[p][k] = Absent /\ after[k] # Absent =>
                                        after[k].state # "published"
             \/ \E to : \A k \in Checks : after[k] # Absent => after[k].state = to
      PROVE  /\ checks' \in [Profiles -> [Checks -> Lab!Check \cup {Absent}]]
             /\ \A o \in Profiles : Anchored(o) => Anchored(o)'
  <2>1. checks' \in [Profiles -> [Checks -> Lab!Check \cup {Absent}]]
    BY <1>1, <1>2
  <2>2. ASSUME NEW o \in Profiles, Anchored(o)
        PROVE  Anchored(o)'
    <3>1. CASE o # p
      <4>1. checks'[o] = checks[o]
        BY <1>1, <1>2, <3>1
      <4> QED
        BY <2>2, <4>1 DEF Anchored, Lab!ChecksOf, Lab!PublishedChecks
    <3>2. CASE o = p
      <4>1. checks'[o] = after
        BY <1>1, <1>2, <3>2
      <4>2. PICK k \in Checks :
              /\ checks[o][k] # Absent /\ checks[o][k].required
              /\ (\E j \in Checks : checks[o][j] # Absent /\ checks[o][j].state = "published") =>
                    checks[o][k].state = "published"
        BY <2>2 DEF Anchored, Lab!ChecksOf, Lab!PublishedChecks
      <4>3. after[k] # Absent /\ after[k].required
        BY <1>2, <3>2, <4>2
      <4>4. (\E j \in Checks : after[j] # Absent /\ after[j].state = "published") =>
               after[k].state = "published"
        BY <1>2, <3>2, <4>2, <4>3
      <4> QED
        BY <4>1, <4>2, <4>3, <4>4 DEF Anchored, Lab!ChecksOf, Lab!PublishedChecks
    <3> QED
      BY <3>1, <3>2
  <2> QED
    BY <2>1, <2>2
<1>3. ASSUME NEW addition \in Additions, Lab!AddChecks(a, addition)
      PROVE  /\ checks' \in [Profiles -> [Checks -> Lab!Check \cup {Absent}]]
             /\ \A p \in Profiles : Anchored(p) => Anchored(p)'
  <2>1. addition \in Lab!Addition
    BY LabAssumption DEF Lab!LabAuthoringConstants
  <2> DEFINE p == addition.profile
             new == {k \in Checks : addition.required[k] # Absent}
             after == [k \in Checks |-> IF k \in new
                                        THEN [required |-> addition.required[k], state |-> "draft"]
                                        ELSE checks[p][k]]
  <2>2. p \in Profiles /\ \A k \in new : addition.required[k] \in BOOLEAN
    BY <2>1 DEF Lab!Addition
  <2>3. checks' = [checks EXCEPT ![p] = after]
    BY <1>1, <1>3, <2>2 DEF Lab!AddChecks
  <2>4. \A k \in new : checks[p][k] = Absent
    BY <1>3 DEF Lab!AddChecks, Lab!ChecksOf
  <2>5. \A k \in new : [required |-> addition.required[k], state |-> "draft"] \in Lab!Check
    BY <2>2 DEF Lab!Check, Lab!LabPublicationState
  <2>6. after \in [Checks -> Lab!Check \cup {Absent}]
    BY <1>1, <2>2, <2>5
  <2>7. \A k \in Checks : /\ checks[p][k] # Absent => after[k] = checks[p][k]
                          /\ checks[p][k] = Absent /\ after[k] # Absent => after[k].state # "published"
    BY <2>4
  <2> HIDE DEF after, new, p
  <2>8. \A k \in Checks : checks[p][k] # Absent =>
           after[k] # Absent /\ after[k].required = checks[p][k].required
    BY <2>7
  <2> QED
    BY <1>2, <2>2, <2>3, <2>6, <2>7, <2>8
<1>4. CASE Lab!UpdateProfile(a)
  <2> DEFINE q == labReq[a]
             p == q.profile
             after == [k \in Checks |-> IF checks[p][k] # Absent
                                        THEN [checks[p][k] EXCEPT !.state = q.to]
                                        ELSE checks[p][k]]
  <2>1. p \in Profiles /\ q.to \in Lab!LabPublicationState
    BY <1>4, LabWork, AdminRequestParts
       DEF Lab!UpdateProfile, Lab!Working, ProfileStep, ProfileRequest
  <2>2. checks' = [checks EXCEPT ![p] = after]
    BY <1>1, <1>4, <2>1 DEF Lab!UpdateProfile, Lab!ChecksOf
  <2>3. ASSUME NEW k \in Checks, checks[p][k] # Absent
        PROVE  /\ after[k] \in Lab!Check /\ after[k] # Absent
               /\ after[k].required = checks[p][k].required
               /\ after[k].state = q.to
    <3>1. checks[p][k] \in Lab!Check
      BY <1>1, <2>1, <2>3
    <3>2. PICK moved : moved = [checks[p][k] EXCEPT !.state = q.to]
      OBVIOUS
    <3>3. /\ moved \in Lab!Check /\ moved.state = q.to
          /\ moved.required = checks[p][k].required
      BY <2>1, <3>1, <3>2 DEF Lab!Check
    <3> QED
      BY <2>3, <3>2, <3>3, LabAssumption DEF Lab!LabAuthoringConstants
  <2>4. \A k \in Checks : checks[p][k] = Absent => after[k] = Absent
    OBVIOUS
  <2>5. after \in [Checks -> Lab!Check \cup {Absent}]
    BY <2>3, <2>4
  <2>6. \A k \in Checks : after[k] # Absent => after[k].state = q.to
    BY <2>3, <2>4
  <2> HIDE DEF after, p
  <2>7. \A k \in Checks : checks[p][k] # Absent =>
           after[k] # Absent /\ after[k].required = checks[p][k].required
    BY <2>3
  <2>8. \E to : \A k \in Checks : after[k] # Absent => after[k].state = to
    BY <2>6
  <2> QED
    BY <1>2, <2>1, <2>2, <2>5, <2>7, <2>8
<1> QED
  BY <1>3, <1>4

SessionRow == [definition : Lab!Versions, usable : BOOLEAN, run : Nat]
RunRow == [state : Lab!RunState, results : Lab!Verdicts \cup {Absent}]

LEMMA RowsType ==
    ASSUME LabInv
    PROVE  /\ sessions \in Seq(SessionRow) /\ runs \in Seq(RunRow)
           /\ \A i \in DOMAIN sessions : sessions[i] \in SessionRow
           /\ \A i \in DOMAIN runs : runs[i] \in RunRow
<1>1. sessions \in Seq(SessionRow) /\ runs \in Seq(RunRow)
  BY DEF LabInv, Lab!LabAuthoringTypeOK, SessionRow, RunRow
<1> QED
  BY <1>1, ElementOfSeq

\* Replacing a row of a sequence, or none where there is no such row.
LEMMA RowReplaced ==
    ASSUME NEW S, NEW s \in Seq(S), NEW i, NEW e, i \in DOMAIN s => e \in S
    PROVE  /\ [s EXCEPT ![i] = e] \in Seq(S)
           /\ DOMAIN [s EXCEPT ![i] = e] = DOMAIN s
<1>1. CASE i \in DOMAIN s
  BY <1>1, ExceptSeq
<1>2. CASE i \notin DOMAIN s
  <2>1. [s EXCEPT ![i] = e] = s
    BY <1>2
  <2> QED
    BY <2>1
<1> QED
  BY <1>1, <1>2

\* Sessions are added and updated, never removed.
LEMMA SessionsNext ==
    ASSUME LabInv,
           \/ \E t \in Tabs : Lab!InsertSession(t) \/ Lab!ReferToRun(t)
           \/ \E i \in DOMAIN sessions : Lab!EndSession(i)
    PROVE  /\ sessions' \in Seq(SessionRow)
           /\ DOMAIN sessions \subseteq DOMAIN sessions'
<1>1. /\ sessions \in Seq(SessionRow)
      /\ \A i \in DOMAIN sessions : sessions[i] \in SessionRow
  BY RowsType
<1>2. ASSUME NEW t \in Tabs, Lab!InsertSession(t)
      PROVE  /\ sessions' \in Seq(SessionRow)
             /\ DOMAIN sessions \subseteq DOMAIN sessions'
  <2>1. tab[t].id \in Lab!Versions
    BY <1>2, LabWork, StudentRequestParts DEF Lab!InsertSession, Lab!At, StudentSession
  <2>2. PICK new : new = [definition |-> tab[t].id, usable |-> TRUE, run |-> 0]
    OBVIOUS
  <2>3. new \in SessionRow
    BY <2>1, <2>2 DEF SessionRow
  <2>4. sessions' = sessions \/ sessions' = Append(sessions, new)
    BY <1>2, <2>2 DEF Lab!InsertSession
  <2> QED
    BY <1>1, <2>3, <2>4, AppendProperties
<1>3. ASSUME NEW t \in Tabs, Lab!ReferToRun(t)
      PROVE  /\ sessions' \in Seq(SessionRow)
             /\ DOMAIN sessions \subseteq DOMAIN sessions'
  <2> DEFINE n == tab[t].session
  <2>1. tab[t].run \in Nat
    BY <1>3, LabWork, StudentRequestParts DEF Lab!ReferToRun, Lab!At, StudentSession
  <2>2. PICK e : e = [sessions[n] EXCEPT !.run = tab[t].run]
    OBVIOUS
  <2>3. n \in DOMAIN sessions => e \in SessionRow
    BY <1>1, <2>1, <2>2 DEF SessionRow
  <2>4. sessions' = [sessions EXCEPT ![n] = e]
    BY <1>3, <2>2 DEF Lab!ReferToRun
  <2> QED
    BY <1>1, <2>3, <2>4, RowReplaced
<1>4. ASSUME NEW i \in DOMAIN sessions, Lab!EndSession(i)
      PROVE  /\ sessions' \in Seq(SessionRow)
             /\ DOMAIN sessions \subseteq DOMAIN sessions'
  <2>1. PICK e : e = [sessions[i] EXCEPT !.usable = FALSE]
    OBVIOUS
  <2>2. e \in SessionRow
    BY <1>1, <2>1 DEF SessionRow
  <2>3. sessions' = [sessions EXCEPT ![i] = e]
    BY <1>4, <2>1 DEF Lab!EndSession
  <2> QED
    BY <1>1, <2>2, <2>3, RowReplaced
<1> QED
  BY <1>2, <1>3, <1>4

\* A run is stored with the state its results call for, and the results that
\* are stored after it are those.
LEMMA RunsNext ==
    ASSUME LabInv, NEW t \in Tabs, Lab!StoreRun(t) \/ Lab!StoreResults(t)
    PROVE  /\ runs' \in Seq(RunRow)
           /\ \A i \in DOMAIN runs : i \in DOMAIN runs' /\ runs'[i].state = runs[i].state
           /\ Lab!PassedShowsSomething'
           /\ \E r \in Lab!StudentRequest : StudentKnows(r)' /\ tab' = [tab EXCEPT ![t] = r]
<1> DEFINE q == tab[t]
<1>1. q \in Lab!StudentRequest /\ StudentKnows(q) /\ StudentSession(q)
  BY LabWork, StudentRequestParts
<1>2. /\ runs \in Seq(RunRow) /\ Len(runs) \in Nat
      /\ \A i \in DOMAIN runs : runs[i] \in RunRow
  BY RowsType
<1>3. \A i \in DOMAIN runs : runs[i].state = "passed" /\ runs[i].results # Absent =>
        \E k \in DOMAIN runs[i].results :
            runs[i].results[k].required /\ runs[i].results[k].state = "passed"
  BY DEF LabInv, Lab!PassedShowsSomething
<1>4. CASE Lab!StoreRun(t)
  <2>1. /\ q.step = "store" /\ q.session \in Nat /\ q.results \in Lab!Verdicts
        /\ \E k \in DOMAIN q.results : q.results[k].required
    BY <1>1, <1>4 DEF Lab!StoreRun, Lab!At, StudentKnows, StudentSession
  <2>2. PICK new : new = [state |-> Lab!Derived(q.results), results |-> Absent]
    OBVIOUS
  <2>3. new \in RunRow /\ new.state = Lab!Derived(q.results) /\ new.results = Absent
    BY <2>2 DEF RunRow, Lab!Derived, Lab!RunState
  <2>4. runs' = Append(runs, new)
    BY <1>4, <2>2 DEF Lab!StoreRun
  <2>5. /\ runs' \in Seq(RunRow) /\ DOMAIN runs' = 1..Len(runs) + 1
        /\ \A i \in 1..Len(runs) : runs'[i] = runs[i]
        /\ runs'[Len(runs) + 1] = new
    BY <1>2, <2>3, <2>4, AppendProperties
  <2>6. PICK r : r = [step |-> "results", session |-> q.session, results |-> q.results,
                      run |-> Len(runs) + 1]
    OBVIOUS
  <2>7. r.step = "results" /\ r.results = q.results /\ r.run = Len(runs) + 1
    BY <2>6
  <2>8. r \in Lab!StudentRequest
    BY <1>2, <2>1, <2>6 DEF Lab!StudentRequest
  <2>9. tab' = [tab EXCEPT ![t] = r]
    BY <1>4, <2>6 DEF Lab!StoreRun
  <2>10. StudentKnows(r)'
    BY <1>2, <2>1, <2>3, <2>5, <2>7 DEF StudentKnows
  <2>11. \A i \in DOMAIN runs' : runs'[i].results # Absent =>
            i \in DOMAIN runs /\ runs'[i] = runs[i]
    BY <1>2, <2>3, <2>5
  <2>12. Lab!PassedShowsSomething'
    BY <1>3, <2>11 DEF Lab!PassedShowsSomething
  <2>13. \A i \in DOMAIN runs : i \in DOMAIN runs' /\ runs'[i].state = runs[i].state
    BY <1>2, <2>5
  <2> QED
    BY <2>5, <2>8, <2>9, <2>10, <2>12, <2>13
<1>5. CASE Lab!StoreResults(t)
  <2> DEFINE n == q.run
  <2>1. /\ q.step = "results" /\ q.session \in Nat /\ q.results \in Lab!Verdicts /\ n \in Nat
        /\ \E k \in DOMAIN q.results : q.results[k].required
        /\ n \in DOMAIN runs /\ runs[n].state = Lab!Derived(q.results)
    BY <1>1, <1>5 DEF Lab!StoreResults, Lab!At, StudentKnows, StudentSession
  <2>2. PICK e : e = [runs[n] EXCEPT !.results = q.results]
    OBVIOUS
  <2>3. e \in RunRow /\ e.state = runs[n].state /\ e.results = q.results
    BY <1>2, <2>1, <2>2 DEF RunRow
  <2>4. runs' = [runs EXCEPT ![n] = e]
    BY <1>5, <2>2 DEF Lab!StoreResults
  <2>5. /\ runs' \in Seq(RunRow) /\ DOMAIN runs' = DOMAIN runs
        /\ runs'[n] = e
        /\ \A i \in DOMAIN runs : i # n => runs'[i] = runs[i]
    BY <1>2, <2>1, <2>3, <2>4, RowReplaced
  <2>6. PICK r : r = [step |-> "reference", session |-> q.session, run |-> n]
    OBVIOUS
  <2>7. r \in Lab!StudentRequest /\ r.step = "reference"
    BY <2>1, <2>6 DEF Lab!StudentRequest
  <2>8. StudentKnows(r)'
    BY <2>7 DEF StudentKnows
  <2>9. tab' = [tab EXCEPT ![t] = r]
    BY <1>5, <2>6 DEF Lab!StoreResults
  <2>10. ASSUME e.state = "passed"
         PROVE  \E k \in DOMAIN e.results : e.results[k].required /\ e.results[k].state = "passed"
    <3>1. Lab!Derived(q.results) = "passed"
      BY <2>1, <2>3, <2>10
    <3>2. \A k \in DOMAIN q.results : q.results[k].required => q.results[k].state = "passed"
      BY <3>1 DEF Lab!Derived
    <3> QED
      BY <2>1, <2>3, <3>2
  <2>11. Lab!PassedShowsSomething'
    BY <1>3, <2>5, <2>10 DEF Lab!PassedShowsSomething
  <2>12. \A i \in DOMAIN runs : i \in DOMAIN runs' /\ runs'[i].state = runs[i].state
    BY <2>3, <2>5
  <2> QED
    BY <2>5, <2>7, <2>8, <2>9, <2>11, <2>12
<1> QED
  BY <1>4, <1>5

-----------------------------------------------------------------------------
(* The invariant.                                                           *)

\* The steps, by the table they write.
LEMMA LabFrames ==
    ASSUME [Lab!LabAuthoringNext]_Lab!labAuthoringVars
    PROVE  /\ UNCHANGED definitions
              \/ \E a \in Admins : Lab!InsertDraft(a) \/ Lab!UpdateDefinition(a)
           /\ UNCHANGED checks
              \/ \E a \in Admins : \/ \E addition \in Additions : Lab!AddChecks(a, addition)
                                   \/ Lab!UpdateProfile(a)
           /\ UNCHANGED curriculum \/ \E x \in Lab!Curriculum : Lab!MoveCurriculum(x)
           /\ \/ UNCHANGED sessions
              \/ \E t \in Tabs : Lab!InsertSession(t) \/ Lab!ReferToRun(t)
              \/ \E i \in DOMAIN sessions : Lab!EndSession(i)
           /\ UNCHANGED runs \/ \E t \in Tabs : Lab!StoreRun(t) \/ Lab!StoreResults(t)
<1>1. ASSUME NEW a \in Admins, NEW r, Lab!GoOn(a, r)
      PROVE  UNCHANGED <<definitions, checks, curriculum, sessions, runs>>
  BY <1>1 DEF Lab!GoOn, Lab!published, Lab!student
<1>2. ASSUME NEW t \in Tabs, NEW r, Lab!Turns(t, r)
      PROVE  UNCHANGED <<definitions, checks, curriculum, sessions, runs>>
  BY <1>2 DEF Lab!Turns, Lab!published
<1>3. CASE Lab!Authoring
  <2>1. UNCHANGED <<sessions, runs>>
    BY <1>1, <1>3 DEF Lab!Authoring, Lab!AskForDraft, Lab!AddChecks, Lab!AskForState,
       Lab!AskForProfileState, Lab!ReadVersion, Lab!InsertDraft, Lab!ReadDefinition,
       Lab!CheckReference, Lab!ReferencesChecked, Lab!ReadChecks, Lab!UpdateDefinition,
       Lab!ReadProfile, Lab!UpdateProfile, Lab!LoseRequest, Lab!MoveCurriculum, Lab!student
  <2>2. UNCHANGED definitions
        \/ \E a \in Admins : Lab!InsertDraft(a) \/ Lab!UpdateDefinition(a)
    BY <1>1, <1>3 DEF Lab!Authoring, Lab!AskForDraft, Lab!AddChecks, Lab!AskForState,
       Lab!AskForProfileState, Lab!ReadVersion, Lab!ReadDefinition, Lab!CheckReference,
       Lab!ReferencesChecked, Lab!ReadChecks, Lab!ReadProfile, Lab!UpdateProfile,
       Lab!LoseRequest, Lab!MoveCurriculum
  <2>3. UNCHANGED checks
        \/ \E a \in Admins : \/ \E addition \in Additions : Lab!AddChecks(a, addition)
                             \/ Lab!UpdateProfile(a)
    BY <1>1, <1>3 DEF Lab!Authoring, Lab!AskForDraft, Lab!InsertDraft, Lab!AskForState,
       Lab!AskForProfileState, Lab!ReadVersion, Lab!ReadDefinition, Lab!CheckReference,
       Lab!ReferencesChecked, Lab!ReadChecks, Lab!ReadProfile, Lab!UpdateDefinition,
       Lab!LoseRequest, Lab!MoveCurriculum
  <2>4. UNCHANGED curriculum \/ \E x \in Lab!Curriculum : Lab!MoveCurriculum(x)
    BY <1>1, <1>3 DEF Lab!Authoring, Lab!AskForDraft, Lab!AddChecks, Lab!AskForState,
       Lab!AskForProfileState, Lab!ReadVersion, Lab!InsertDraft, Lab!ReadDefinition,
       Lab!CheckReference, Lab!ReferencesChecked, Lab!ReadChecks, Lab!UpdateDefinition,
       Lab!ReadProfile, Lab!UpdateProfile, Lab!LoseRequest
  <2> QED
    BY <2>1, <2>2, <2>3, <2>4
<1>4. CASE Lab!Studying
  <2>1. UNCHANGED <<definitions, checks, curriculum>>
    BY <1>2, <1>4 DEF Lab!Studying, Lab!ChooseDefinition, Lab!AskForValidation,
       Lab!InsertSession, Lab!ReadProfileOf, Lab!ReadPublishedChecks, Lab!Probe,
       Lab!StoreRun, Lab!StoreResults, Lab!ReferToRun, Lab!LoseTab, Lab!EndSession, Lab!published
  <2>2. \/ UNCHANGED sessions
        \/ \E t \in Tabs : Lab!InsertSession(t) \/ Lab!ReferToRun(t)
        \/ \E i \in DOMAIN sessions : Lab!EndSession(i)
    <3>1. ASSUME NEW t \in Tabs,
                 \/ \E id \in Lab!Versions : Lab!ChooseDefinition(t, id)
                 \/ \E i \in DOMAIN sessions : Lab!AskForValidation(t, i)
                 \/ Lab!ReadProfileOf(t) \/ Lab!ReadPublishedChecks(t) \/ Lab!Probe(t)
                 \/ Lab!LoseTab(t)
          PROVE  UNCHANGED sessions
      BY <1>2, <3>1 DEF Lab!ChooseDefinition, Lab!AskForValidation,
         Lab!ReadProfileOf, Lab!ReadPublishedChecks, Lab!Probe, Lab!LoseTab
    <3>2. ASSUME NEW t \in Tabs, Lab!StoreRun(t) \/ Lab!StoreResults(t)
          PROVE  UNCHANGED sessions
      BY <3>2 DEF Lab!StoreRun, Lab!StoreResults
    <3> QED
      BY <1>4, <3>1, <3>2, Zenon DEF Lab!Studying
  <2>3. UNCHANGED runs \/ \E t \in Tabs : Lab!StoreRun(t) \/ Lab!StoreResults(t)
    BY <1>2, <1>4 DEF Lab!Studying, Lab!ChooseDefinition, Lab!AskForValidation,
       Lab!InsertSession, Lab!ReadProfileOf, Lab!ReadPublishedChecks, Lab!Probe,
       Lab!ReferToRun, Lab!LoseTab, Lab!EndSession
  <2> QED
    BY <2>1, <2>2, <2>3
<1>5. CASE UNCHANGED Lab!labAuthoringVars
  BY <1>5 DEF Lab!labAuthoringVars, Lab!published, Lab!student
<1> QED
  BY <1>3, <1>4, <1>5 DEF Lab!LabAuthoringNext

\* Rows and what is visible of them, in any step.
LEMMA LabTables ==
    ASSUME LabInv, [Lab!LabAuthoringNext]_Lab!labAuthoringVars
    PROVE  /\ LabStays
           /\ definitions' \in [Lab!Versions -> Lab!Definition \cup {Absent}]
           /\ checks' \in [Profiles -> [Checks -> Lab!Check \cup {Absent}]]
           /\ curriculum' \subseteq Lab!Curriculum
           /\ sessions' \in Seq(SessionRow) /\ runs' \in Seq(RunRow)
           /\ \A d \in Lab!Versions : Lab!Visible(d)' =>
                 definitions[d] # Absent /\ Anchored(ProfileOf(d))
           /\ Lab!PassedShowsSomething'
<1>1. /\ definitions' \in [Lab!Versions -> Lab!Definition \cup {Absent}]
      /\ \A d \in Lab!Versions : definitions[d] # Absent =>
            definitions'[d] # Absent /\ definitions'[d].body = definitions[d].body
      /\ \A d \in Lab!Versions : definitions'[d] # Absent /\ definitions'[d].state = "published" =>
            definitions[d] # Absent /\ Anchored(ProfileOf(d))
  <2>1. CASE UNCHANGED definitions
    BY <2>1 DEF LabInv, Lab!LabAuthoringTypeOK, Lab!Visible
  <2>2. CASE \E a \in Admins : Lab!InsertDraft(a) \/ Lab!UpdateDefinition(a)
    BY <2>2, DefinitionsNext
  <2> QED
    BY <2>1, <2>2, LabFrames
<1>2. /\ checks' \in [Profiles -> [Checks -> Lab!Check \cup {Absent}]]
      /\ \A p \in Profiles : Anchored(p) => Anchored(p)'
  <2>1. CASE UNCHANGED checks
    BY <2>1 DEF LabInv, Lab!LabAuthoringTypeOK, Anchored, Lab!ChecksOf, Lab!PublishedChecks
  <2>2. ASSUME NEW a \in Admins, \/ \E addition \in Additions : Lab!AddChecks(a, addition)
                                 \/ Lab!UpdateProfile(a)
        PROVE  /\ checks' \in [Profiles -> [Checks -> Lab!Check \cup {Absent}]]
               /\ \A p \in Profiles : Anchored(p) => Anchored(p)'
    BY <2>2, ChecksNext
  <2> QED
    BY <2>1, <2>2, LabFrames
<1>3. curriculum' \subseteq Lab!Curriculum
  BY LabFrames DEF LabInv, Lab!LabAuthoringTypeOK, Lab!MoveCurriculum
<1>4. sessions' \in Seq(SessionRow) /\ DOMAIN sessions \subseteq DOMAIN sessions'
  BY LabFrames, SessionsNext, RowsType
<1>5. /\ runs' \in Seq(RunRow)
      /\ \A i \in DOMAIN runs : i \in DOMAIN runs' /\ runs'[i].state = runs[i].state
      /\ Lab!PassedShowsSomething'
  <2>1. CASE UNCHANGED runs
    BY <2>1, RowsType DEF LabInv, Lab!PassedShowsSomething
  <2>2. CASE \E t \in Tabs : Lab!StoreRun(t) \/ Lab!StoreResults(t)
    BY <2>2, RunsNext
  <2> QED
    BY <2>1, <2>2, LabFrames
<1> QED
  BY <1>1, <1>2, <1>3, <1>4, <1>5 DEF LabStays, Lab!Visible

\* The requests, in any step.
LEMMA LabRequestsNext ==
    ASSUME LabInv, [Lab!LabAuthoringNext]_Lab!labAuthoringVars
    PROVE  \/ UNCHANGED labReq
           \/ \E a \in Admins : \E r \in Lab!LabRequest :
                 AdminKnows(r) /\ labReq' = [labReq EXCEPT ![a] = r]
<1>1. ASSUME NEW a \in Admins, Lab!End(a)
      PROVE  \E r \in Lab!LabRequest : AdminKnows(r) /\ labReq' = [labReq EXCEPT ![a] = r]
  BY <1>1, AdminRequests, IdleKnows DEF Lab!End
<1>2. ASSUME NEW a \in Admins, NEW r \in Lab!LabRequest, AdminKnows(r), Lab!GoOn(a, r)
      PROVE  \E s \in Lab!LabRequest : AdminKnows(s) /\ labReq' = [labReq EXCEPT ![a] = s]
  BY <1>2 DEF Lab!GoOn
<1>3. ASSUME NEW a \in Admins,
             Lab!InsertDraft(a) \/ Lab!UpdateDefinition(a) \/ Lab!UpdateProfile(a)
      PROVE  \E r \in Lab!LabRequest : AdminKnows(r) /\ labReq' = [labReq EXCEPT ![a] = r]
  BY <1>1, <1>3 DEF Lab!InsertDraft, Lab!UpdateDefinition, Lab!UpdateProfile
<1>4. ASSUME NEW a \in Admins, NEW addition \in Additions, Lab!AddChecks(a, addition)
      PROVE  UNCHANGED labReq
  BY <1>4 DEF Lab!AddChecks
<1>5. CASE Lab!Authoring
  <2>1. CASE \E x \in Lab!Curriculum : Lab!MoveCurriculum(x)
    BY <2>1 DEF Lab!MoveCurriculum
  <2>2. ASSUME NEW a \in Admins,
               \/ \E draft \in LabDrafts : Lab!AskForDraft(a, draft)
               \/ \E id \in Lab!Versions, to \in Lab!LabPublicationState :
                     Lab!AskForState(a, id, to)
               \/ \E p \in Profiles, to \in Lab!LabPublicationState :
                     Lab!AskForProfileState(a, p, to)
               \/ Lab!ReadVersion(a) \/ Lab!ReadDefinition(a) \/ Lab!CheckReference(a)
               \/ Lab!ReferencesChecked(a) \/ Lab!ReadChecks(a) \/ Lab!ReadProfile(a)
               \/ Lab!LoseRequest(a)
        PROVE  \E r \in Lab!LabRequest : AdminKnows(r) /\ labReq' = [labReq EXCEPT ![a] = r]
    <3>1. PICK r \in Lab!LabRequest : AdminKnows(r) /\ Lab!GoOn(a, r)
      BY <2>2, AdminGoesOn, Zenon
    <3> QED
      BY <3>1, <1>2
  <2> QED
    BY <1>3, <1>4, <1>5, <2>1, <2>2, Zenon DEF Lab!Authoring
<1>6. CASE Lab!Studying
  <2>1. ASSUME NEW t \in Tabs, NEW r, Lab!Turns(t, r)
        PROVE  UNCHANGED labReq
    BY <2>1 DEF Lab!Turns
  <2>2. ASSUME NEW t \in Tabs,
               \/ \E id \in Lab!Versions : Lab!ChooseDefinition(t, id)
               \/ \E i \in DOMAIN sessions : Lab!AskForValidation(t, i)
               \/ Lab!ReadProfileOf(t) \/ Lab!ReadPublishedChecks(t) \/ Lab!Probe(t)
               \/ Lab!LoseTab(t)
        PROVE  UNCHANGED labReq
    BY <2>1, <2>2, StudentGoesOn, Zenon
  <2>3. ASSUME NEW t \in Tabs, \/ Lab!InsertSession(t) \/ Lab!StoreRun(t)
                               \/ Lab!StoreResults(t) \/ Lab!ReferToRun(t)
        PROVE  UNCHANGED labReq
    BY <2>3 DEF Lab!InsertSession, Lab!StoreRun, Lab!StoreResults, Lab!ReferToRun
  <2>4. ASSUME NEW i \in DOMAIN sessions, Lab!EndSession(i)
        PROVE  UNCHANGED labReq
    BY <2>4 DEF Lab!EndSession
  <2> QED
    BY <1>6, <2>2, <2>3, <2>4, Zenon DEF Lab!Studying
<1>7. CASE UNCHANGED Lab!labAuthoringVars
  BY <1>7 DEF Lab!labAuthoringVars
<1> QED
  BY <1>5, <1>6, <1>7 DEF Lab!LabAuthoringNext

LEMMA LabTabsNext ==
    ASSUME LabInv, [Lab!LabAuthoringNext]_Lab!labAuthoringVars
    PROVE  \/ UNCHANGED tab
           \/ \E t \in Tabs : \E r \in Lab!StudentRequest :
                 StudentKnows(r)' /\ tab' = [tab EXCEPT ![t] = r]
<1>1. ASSUME NEW r \in Lab!StudentRequest, StudentKnows(r)
      PROVE  StudentKnows(r)'
  BY <1>1, LabTables, StudentKnowsStays
<1>2. Lab!Idle \in Lab!StudentRequest /\ StudentKnows(Lab!Idle)'
  BY <1>1, IdleKnows DEF Lab!StudentRequest
<1>3. CASE Lab!Authoring
  <2>1. ASSUME NEW a \in Admins, NEW r, Lab!GoOn(a, r)
        PROVE  UNCHANGED tab
    BY <2>1 DEF Lab!GoOn, Lab!student
  <2>2. ASSUME NEW a \in Admins,
               \/ \E draft \in LabDrafts : Lab!AskForDraft(a, draft)
               \/ \E id \in Lab!Versions, to \in Lab!LabPublicationState :
                     Lab!AskForState(a, id, to)
               \/ \E p \in Profiles, to \in Lab!LabPublicationState :
                     Lab!AskForProfileState(a, p, to)
               \/ Lab!ReadVersion(a) \/ Lab!ReadDefinition(a) \/ Lab!CheckReference(a)
               \/ Lab!ReferencesChecked(a) \/ Lab!ReadChecks(a) \/ Lab!ReadProfile(a)
               \/ Lab!LoseRequest(a)
        PROVE  UNCHANGED tab
    BY <2>1, <2>2, AdminGoesOn, Zenon
  <2>3. ASSUME NEW a \in Admins,
               \/ \E addition \in Additions : Lab!AddChecks(a, addition)
               \/ Lab!InsertDraft(a) \/ Lab!UpdateDefinition(a) \/ Lab!UpdateProfile(a)
        PROVE  UNCHANGED tab
    BY <2>3 DEF Lab!AddChecks, Lab!InsertDraft, Lab!UpdateDefinition, Lab!UpdateProfile,
       Lab!student
  <2>4. ASSUME NEW x \in Lab!Curriculum, Lab!MoveCurriculum(x)
        PROVE  UNCHANGED tab
    BY <2>4 DEF Lab!MoveCurriculum, Lab!student
  <2> QED
    BY <1>3, <2>2, <2>3, <2>4, Zenon DEF Lab!Authoring
<1>4. CASE Lab!Studying
  <2>1. ASSUME NEW t \in Tabs,
               \/ \E id \in Lab!Versions : Lab!ChooseDefinition(t, id)
               \/ \E i \in DOMAIN sessions : Lab!AskForValidation(t, i)
               \/ Lab!ReadProfileOf(t) \/ Lab!ReadPublishedChecks(t) \/ Lab!Probe(t)
               \/ Lab!LoseTab(t)
        PROVE  \E r \in Lab!StudentRequest : StudentKnows(r)' /\ tab' = [tab EXCEPT ![t] = r]
    <3>1. PICK r \in Lab!StudentRequest : StudentKnows(r) /\ Lab!Turns(t, r)
      BY <2>1, StudentGoesOn, Zenon
    <3>2. StudentKnows(r)'
      BY <1>1, <3>1
    <3> QED
      BY <3>1, <3>2 DEF Lab!Turns
  <2>2. ASSUME NEW t \in Tabs, Lab!InsertSession(t) \/ Lab!ReferToRun(t)
        PROVE  \E r \in Lab!StudentRequest : StudentKnows(r)' /\ tab' = [tab EXCEPT ![t] = r]
    BY <1>2, <2>2 DEF Lab!InsertSession, Lab!ReferToRun
  <2>3. ASSUME NEW t \in Tabs, Lab!StoreRun(t) \/ Lab!StoreResults(t)
        PROVE  \E r \in Lab!StudentRequest : StudentKnows(r)' /\ tab' = [tab EXCEPT ![t] = r]
    BY <2>3, RunsNext
  <2>4. ASSUME NEW i \in DOMAIN sessions, Lab!EndSession(i)
        PROVE  UNCHANGED tab
    BY <2>4 DEF Lab!EndSession
  <2> QED
    BY <1>4, <2>1, <2>2, <2>3, <2>4, Zenon DEF Lab!Studying
<1>5. CASE UNCHANGED Lab!labAuthoringVars
  BY <1>5 DEF Lab!labAuthoringVars, Lab!student
<1> QED
  BY <1>3, <1>4, <1>5 DEF Lab!LabAuthoringNext

LEMMA LabInvInit == Lab!LabAuthoringInit => LabInv
<1> SUFFICES ASSUME Lab!LabAuthoringInit
             PROVE  LabInv
  OBVIOUS
<1>1. Lab!LabAuthoringTypeOK
  BY AdminRequests DEF Lab!LabAuthoringInit, Lab!LabAuthoringTypeOK, Lab!StudentRequest
<1>2. \A d \in Lab!Versions : ~Lab!Visible(d)
  BY DEF Lab!LabAuthoringInit, Lab!Visible
<1>3. /\ \A a \in Admins : AdminKnows(labReq[a])
      /\ \A t \in Tabs : StudentKnows(tab[t])
  BY IdleKnows DEF Lab!LabAuthoringInit
<1>4. Lab!PassedShowsSomething
  BY DEF Lab!LabAuthoringInit, Lab!PassedShowsSomething
<1> QED
  BY <1>1, <1>2, <1>3, <1>4 DEF LabInv

LEMMA LabInvNext == LabInv /\ [Lab!LabAuthoringNext]_Lab!labAuthoringVars => LabInv'
<1> SUFFICES ASSUME LabInv, [Lab!LabAuthoringNext]_Lab!labAuthoringVars
             PROVE  LabInv'
  OBVIOUS
<1>1. LabStays
  BY LabTables
<1>2. labReq \in [Admins -> Lab!LabRequest] /\ tab \in [Tabs -> Lab!StudentRequest]
  BY DEF LabInv, Lab!LabAuthoringTypeOK
<1>3. labReq' \in [Admins -> Lab!LabRequest] /\ \A a \in Admins : AdminKnows(labReq'[a])
  <2>1. CASE UNCHANGED labReq
    BY <1>2, <2>1, LabWork
  <2>2. ASSUME NEW a \in Admins, NEW r \in Lab!LabRequest, AdminKnows(r),
               labReq' = [labReq EXCEPT ![a] = r]
        PROVE  labReq' \in [Admins -> Lab!LabRequest] /\ \A b \in Admins : AdminKnows(labReq'[b])
    BY <1>2, <2>2, LabWork
  <2> QED
    BY <2>1, <2>2, LabRequestsNext
<1>4. \A a \in Admins : AdminKnows(labReq[a])'
  <2> SUFFICES ASSUME NEW a \in Admins
               PROVE  AdminKnows(labReq[a])'
    OBVIOUS
  <2>1. PICK r : r = labReq'[a]
    OBVIOUS
  <2>2. r \in Lab!LabRequest /\ AdminKnows(r)
    BY <1>3, <2>1
  <2>3. AdminKnows(r)'
    BY <1>1, <2>2, AdminKnowsStays
  <2> QED
    BY <2>1, <2>3 DEF AdminKnows
<1>5. tab' \in [Tabs -> Lab!StudentRequest] /\ \A t \in Tabs : StudentKnows(tab[t])'
  <2>1. CASE UNCHANGED tab
    <3> SUFFICES ASSUME NEW t \in Tabs
                 PROVE  tab' \in [Tabs -> Lab!StudentRequest] /\ StudentKnows(tab[t])'
      BY <1>2, <2>1
    <3>1. PICK r : r = tab[t]
      OBVIOUS
    <3>2. StudentKnows(r)'
      BY <1>1, <3>1, LabWork, StudentKnowsStays
    <3> QED
      BY <1>2, <2>1, <3>1, <3>2 DEF StudentKnows
  <2>2. ASSUME NEW t \in Tabs, NEW r \in Lab!StudentRequest, StudentKnows(r)',
               tab' = [tab EXCEPT ![t] = r]
        PROVE  tab' \in [Tabs -> Lab!StudentRequest] /\ \A u \in Tabs : StudentKnows(tab[u])'
    <3>1. tab' \in [Tabs -> Lab!StudentRequest]
      BY <1>2, <2>2
    <3>2. ASSUME NEW u \in Tabs
          PROVE  StudentKnows(tab[u])'
      <4>1. PICK q : q = tab'[u]
        OBVIOUS
      <4>2. StudentKnows(q)'
        <5>1. CASE u = t
          BY <1>2, <2>2, <4>1, <5>1
        <5>2. CASE u # t
          <6>1. q = tab[u]
            BY <1>2, <2>2, <4>1, <5>2
          <6> QED
            BY <1>1, <6>1, LabWork, StudentKnowsStays
        <5> QED
          BY <5>1, <5>2
      <4> QED
        BY <4>1, <4>2 DEF StudentKnows
    <3> QED
      BY <3>1, <3>2
  <2> QED
    BY <2>1, <2>2, LabTabsNext
<1>6. Lab!LabAuthoringTypeOK'
  BY <1>3, <1>5, LabTables DEF Lab!LabAuthoringTypeOK, SessionRow, RunRow
<1>7. \A d \in Lab!Versions : Lab!Visible(d)' => Anchored(ProfileOf(d))'
  <2> SUFFICES ASSUME NEW d \in Lab!Versions, Lab!Visible(d)'
               PROVE  Anchored(ProfileOf(d))'
    OBVIOUS
  <2>1. definitions[d] # Absent /\ Anchored(ProfileOf(d))
    BY LabTables
  <2>2. PICK p : p = ProfileOf(d)
    OBVIOUS
  <2>3. p \in Profiles /\ p = ProfileOf(d)'
    BY <1>1, <2>1, <2>2, ProfileOfType DEF LabStays, ProfileOf
  <2>4. Anchored(p)'
    BY <1>1, <2>1, <2>2, <2>3 DEF LabStays
  <2> QED
    BY <2>3, <2>4 DEF Anchored, Lab!ChecksOf, Lab!PublishedChecks
<1>8. Lab!PassedShowsSomething'
  BY LabTables
<1> QED
  BY <1>4, <1>5, <1>6, <1>7, <1>8 DEF LabInv

LEMMA LabInvHolds == Lab!LabAuthoringSpec => []LabInv
BY LabInvInit, LabInvNext, PTL DEF Lab!LabAuthoringSpec

LEMMA LabHalf == BothSpec => Lab!LabAuthoringSpec
<1>1. BothInit => Lab!LabAuthoringInit
  BY DEF BothInit
<1>2. [BothNext]_<<half, vars, alone, labSide>> => [Lab!LabAuthoringNext]_Lab!labAuthoringVars
  BY DEF BothNext, labSide, Lab!labAuthoringVars, Lab!published, Lab!student
<1> QED
  BY <1>1, <1>2, PTL DEF BothSpec, Lab!LabAuthoringSpec

-----------------------------------------------------------------------------
\* The rows of a lab, its profile's checks and a student's sessions and runs,
\* and every request on its way between them, are what the handlers say.
THEOREM LabAuthoringTypeCorrect == Lab!LabAuthoringSpec => []Lab!LabAuthoringTypeOK
BY LabInvHolds, PTL DEF LabInv

\* A validation that counts as passed saw a required check pass, however many
\* administrators add checks to a profile, publish and retire it, and publish
\* definitions on what they read of it earlier (transitionLabDefinitionState,
\* transitionLabValidationProfileState, deriveLabValidationState).
THEOREM PassedMeansDemonstrated == BothSpec => []PassedShowsSomething
<1>1. LabInv => PassedShowsSomething
  BY DEF LabInv, PassedShowsSomething
<1> QED
  BY <1>1, LabInvHolds, LabHalf, PTL
=============================================================================

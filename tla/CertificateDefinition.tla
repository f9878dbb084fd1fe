----------------------- MODULE CertificateDefinition -----------------------
(***************************************************************************)
(* Authoring of Certificate Definitions                                    *)
(* (services/api/src/certificate-admin.ts over migration 20260813000700).  *)
(*                                                                         *)
(* Every handler reads first and writes in a later transaction, and the    *)
(* UPDATE it ends with names the definition only, not the state that was   *)
(* read.  What the database checks again is done in a row trigger, under   *)
(* the lock of the row being written: Guard takes the lock and runs the    *)
(* triggers, Commit makes the write visible and releases it.               *)
(***************************************************************************)
EXTENDS DefinitionRows, Sequences, Relation

CONSTANTS
    StableIds,
    MaxVersion,     \* bound: no stable id gets more versions than this
    Admins,         \* founder_admin requests that may be in flight together
    Edits,          \* changes of one definition administrators may ask for
    Drafts          \* new versions administrators may ask for

\* unique (stable_id, version)
Versions == StableIds \X (1..MaxVersion)

\* A request names a definition and the statements it leads to; a create names
\* a stable id, and its statements are the insert and then the requirements.
EditInput == [id : Versions, patches : {<<patch>> : patch \in Patch}]

DraftInput ==
    [stable : StableIds, terms : Terms, requires : SUBSET Competencies,
     policies : SUBSET Policies]

ASSUME CertificateDefinitionAssumption ==
    /\ Definitions = Versions
    /\ MaxVersion \in Nat
    /\ NoDefinition \notin Definitions
    /\ Absent \notin Row
    /\ Edits \subseteq EditInput
    /\ Drafts \subseteq DraftInput

VARIABLES
    published,      \* SUBSET Competencies: competencies that are published
    req             \* [Admins -> Request]: where each request stands

vars == <<row, published, req>>

Idle == [step |-> "idle"]

EditStep == {"read", "requirements", "competencies", "guard", "commit"}

Patches == {<<patch>> : patch \in Patch} \cup {<<p, q>> : p, q \in Patch}

Editing(step) ==
    [step : step, id : Definitions, patches : Patches, unchecked : SUBSET Competencies]

Creating ==
    [step : {"version"}, draft : Drafts] \cup
    [step : {"insert"}, draft : Drafts, id : Definitions]

Request == {Idle} \cup Editing(EditStep) \cup Creating

TypeOK ==
    /\ row \in [Definitions -> Row \cup {Absent}]
    /\ published \in SUBSET Competencies
    /\ req \in [Admins -> Request]

-----------------------------------------------------------------------------
Init ==
    /\ RowsInit
    /\ published = {}
    /\ req = [a \in Admins |-> Idle]

Patching(a) == Head(req[a].patches)

Working(a, step) == req[a].step = step

Stop(a) ==
    /\ req' = [req EXCEPT ![a] = Idle]
    /\ UNCHANGED <<row, published>>

Goto(a, step) ==
    /\ req' = [req EXCEPT ![a].step = step]
    /\ UNCHANGED <<row, published>>

\* The committed supersession links, and where following them leads.
Successor(d) == IF Exists(d) THEN row[d].successor ELSE NoDefinition

Leads ==
    TransitiveClosure([d, f \in Definitions |-> Successor(d) = f], Definitions)

\* validateCertificateDefinitionSupersession and the database's bounded walk:
\* from s on, the chain comes back to d or never ends.
WalkFails(d, s) ==
    \E f \in Definitions :
        /\ f = s \/ Leads[<<s, f>>]
        /\ f = d \/ Leads[<<f, f>>]

ReceiveEdit(a, input) ==
    /\ req[a] = Idle
    /\ req' = [req EXCEPT ![a] = [step |-> "read", id |-> input.id,
                                  patches |-> input.patches, unchecked |-> {}]]
    /\ UNCHANGED <<row, published>>

\* guard_certificate_definition_material_freeze lets an equal value pass; the
\* replacement functions refuse a published parent whatever the new rows are.
Frozen(old, patch) ==
    /\ old.state = "published"
    /\ \/ Sets(patch, "terms") /\ patch.terms # old.terms
       \/ Sets(patch, "requires")
       \/ Sets(patch, "policies")

\* The row as the handler reads it, and what is refused on that reading.
Refused(a) ==
    LET d     == req[a].id
        patch == Patching(a)
    IN  \/ ~Exists(d)
        \/ Sets(patch, "state") /\ ~ValidTransition(row[d].state, patch.state)
        \/ Frozen(row[d], patch)
        \/ Sets(patch, "successor") /\ (\/ ~Exists(patch.successor)
                                        \/ WalkFails(d, patch.successor))

ReadRow(a) ==
    /\ Working(a, "read")
    /\ IF Refused(a) THEN Stop(a)
       ELSE IF Sets(Patching(a), "state") /\ Patching(a).state = "published"
            THEN Goto(a, "requirements")
            ELSE Goto(a, "guard")

\* validateCertificateDefinitionForPublication: the requirements are read once,
\* then each competency of them in a query of its own.
ReadRequirements(a) ==
    /\ Working(a, "requirements")
    /\ IF row[req[a].id].requires = {}
       THEN Stop(a)
       ELSE /\ req' = [req EXCEPT ![a].step = "competencies",
                                  ![a].unchecked = row[req[a].id].requires]
            /\ UNCHANGED <<row, published>>

\* The code collects every issue before it gives up; the first decides.
CheckCompetency(a) ==
    /\ Working(a, "competencies")
    /\ \E c \in req[a].unchecked :
          IF c \in published
          THEN /\ req' = [req EXCEPT ![a].unchecked = @ \ {c}]
               /\ UNCHANGED <<row, published>>
          ELSE Stop(a)

CompetenciesChecked(a) ==
    /\ Working(a, "competencies")
    /\ req[a].unchecked = {}
    /\ Goto(a, "guard")

\* Mutant: the row trigger's transaction locks nothing.
Unlocked(d, a) == FALSE

\* Another transaction holds the row until it commits.
Locked(d, a) ==
    \E b \in Admins \ {a} : Working(b, "commit") /\ req[b].id = d

\* The supersession trigger fires on every UPDATE of a superseded definition;
\* the replacement functions update child rows only.
Guard(a) ==
    LET d     == req[a].id
        new   == Patched(row[d], Patching(a))
        update == ~Sets(Patching(a), "requires") /\ ~Sets(Patching(a), "policies")
    IN  /\ Working(a, "guard")
        /\ ~Locked(d, a)
        /\ IF \/ Frozen(row[d], Patching(a))
              \/ update /\ new.successor # NoDefinition /\ WalkFails(d, new.successor)
           THEN Stop(a)
           ELSE Goto(a, "commit")

Commit(a) ==
    /\ Working(a, "commit")
    /\ row' = [row EXCEPT ![req[a].id] = Patched(@, Patching(a))]
    /\ req' = [req EXCEPT ![a] = IF Len(req[a].patches) = 1 THEN Idle
                                 ELSE [req[a] EXCEPT !.step = "read",
                                                     !.patches = Tail(req[a].patches)]]
    /\ UNCHANGED published

ReceiveDraft(a, draft) ==
    /\ req[a] = Idle
    /\ req' = [req EXCEPT ![a] = [step |-> "version", draft |-> draft]]
    /\ UNCHANGED <<row, published>>

\* nextCertificateDefinitionVersion: max(version) + 1
NextVersion(stable) ==
    LET taken == {v \in 1..MaxVersion : Exists(<<stable, v>>)}
    IN  CHOOSE n \in 1..(MaxVersion + 1) :
            taken \subseteq 1..(n - 1) /\ (n = 1 \/ n - 1 \in taken)

ReadVersion(a) ==
    LET draft == req[a].draft
    IN  /\ Working(a, "version")
        /\ NextVersion(draft.stable) <= MaxVersion
        /\ req' = [req EXCEPT ![a] = [step |-> "insert", draft |-> draft,
                                      id |-> <<draft.stable, NextVersion(draft.stable)>>]]
        /\ UNCHANGED <<row, published>>

\* The requirements of a new draft are set by further calls of the handlers
\* that replace them, each only when there is something to set.
Remaining(draft) ==
    (IF draft.requires = {} THEN <<>> ELSE <<[requires |-> draft.requires]>>)
        \o (IF draft.policies = {} THEN <<>> ELSE <<[policies |-> draft.policies]>>)

InsertDraft(a) ==
    LET draft == req[a].draft
        d     == req[a].id
    IN  /\ Working(a, "insert")
        /\ IF Exists(d)
           THEN Stop(a)
           ELSE /\ CreateRow(d, draft.terms)
                /\ req' = [req EXCEPT ![a] =
                             IF Remaining(draft) = <<>> THEN Idle
                             ELSE [step |-> "read", id |-> d,
                                   patches |-> Remaining(draft), unchecked |-> {}]]
                /\ UNCHANGED published

\* The request is cut off before its next round trip; an open transaction is
\* rolled back, statements already committed stay.
Lose(a) == req[a] # Idle /\ Stop(a)

\* curriculum_publish_learning_path_tree; no path takes publication back.
PublishCompetency(c) ==
    /\ c \notin published
    /\ published' = published \cup {c}
    /\ UNCHANGED <<row, req>>

Next ==
    \/ \E a \in Admins :
          \/ \E input \in Edits : ReceiveEdit(a, input)
          \/ \E draft \in Drafts : ReceiveDraft(a, draft)
          \/ ReadRow(a) \/ ReadRequirements(a) \/ CheckCompetency(a)
          \/ CompetenciesChecked(a) \/ Guard(a) \/ Commit(a)
          \/ ReadVersion(a) \/ InsertDraft(a)
          \/ Lose(a)
    \/ \E c \in Competencies : PublishCompetency(c)

Spec == Init /\ [][Next]_vars
-----------------------------------------------------------------------------
\* What a published version means never changes under its certificates, not
\* even through an edit that was checked while the version was still a draft.
PublishedFrozen ==
    [][\A d \in Definitions :
          Exists(d) /\ row[d].state = "published" =>
              Exists(d)' /\ SameMeaning(row[d], row'[d])]_vars

\* A published definition requires something, and only published competencies.
PublishedIsSupported ==
    \A d \in Definitions :
        Exists(d) /\ row[d].state = "published" =>
            row[d].requires # {} /\ row[d].requires \subseteq published

\* Supersession never closes a circle.
NoDefinitionCycle == \A d \in Definitions : ~Leads[<<d, d>>]

\* A published definition leaves publication only into retirement.
NeverPulledBack ==
    [][\A d \in Definitions :
          Exists(d) /\ row[d].state = "published" =>
              row'[d].state \in {"published", "retired"}]_vars

\* Authoring implements the indivisible row changes of DefinitionRows.
ImplementsRows == RowsSpec
=============================================================================

--------------------------- MODULE DefinitionRows ---------------------------
(***************************************************************************)
(* What the database promises of Certificate Definitions, whoever writes   *)
(* to it (migration 20260813000700): a definition version is created once, *)
(* as a draft, and is then changed one column at a time; while it is       *)
(* published, what a certificate means does not change.                    *)
(*                                                                         *)
(* terms stands for the material scalars (issuer, effective date, expiry,  *)
(* verification), requires and policies for the two sets of child rows.    *)
(* All requirement rows are taken to be required = true.                   *)
(***************************************************************************)
EXTENDS Naturals, FiniteSets

CONSTANTS
    Definitions,    \* definition versions
    Terms, Competencies, Policies,
    Absent, NoDefinition

DefinitionState == {"draft", "review", "published", "retired"}

Row ==
    [state : DefinitionState, terms : Terms, requires : SUBSET Competencies,
     policies : SUBSET Policies, successor : Definitions \cup {NoDefinition}]

\* isValidCertificateDefinitionTransition
ValidTransition(from, to) ==
    \/ from = to
    \/ <<from, to>> \in {<<"draft", "review">>, <<"draft", "retired">>,
                         <<"review", "draft">>, <<"review", "published">>,
                         <<"review", "retired">>, <<"published", "retired">>,
                         <<"retired", "draft">>}

\* What one statement sets.
Patch ==
    [state : DefinitionState] \cup [terms : Terms] \cup [requires : SUBSET Competencies]
        \cup [policies : SUBSET Policies] \cup [successor : Definitions]

Sets(patch, column) == column \in DOMAIN patch

Patched(old, patch) ==
    [state     |-> IF Sets(patch, "state") THEN patch.state ELSE old.state,
     terms     |-> IF Sets(patch, "terms") THEN patch.terms ELSE old.terms,
     requires  |-> IF Sets(patch, "requires") THEN patch.requires ELSE old.requires,
     policies  |-> IF Sets(patch, "policies") THEN patch.policies ELSE old.policies,
     successor |-> IF Sets(patch, "successor") THEN patch.successor ELSE old.successor]

NewDraft(terms) ==
    [state |-> "draft", terms |-> terms, requires |-> {}, policies |-> {},
     successor |-> NoDefinition]

\* What a certificate issued under a version says of it.
SameMeaning(r, s) ==
    r.terms = s.terms /\ r.requires = s.requires /\ r.policies = s.policies

VARIABLE row      \* [Definitions -> Row \cup {Absent}]: certificate_definitions

Exists(d) == row[d] # Absent

CreateRow(d, terms) ==
    /\ ~Exists(d)
    /\ row' = [row EXCEPT ![d] = NewDraft(terms)]

UpdateRow(d, patch) ==
    /\ Exists(d)
    /\ row[d].state = "published" => SameMeaning(row[d], Patched(row[d], patch))
    /\ Sets(patch, "successor") => patch.successor # d /\ Exists(patch.successor)
    /\ row' = [row EXCEPT ![d] = Patched(row[d], patch)]

RowsInit == row = [d \in Definitions |-> Absent]

RowsNext ==
    \E d \in Definitions :
        \/ \E terms \in Terms : CreateRow(d, terms)
        \/ \E patch \in Patch : UpdateRow(d, patch)

RowsSpec == RowsInit /\ [][RowsNext]_row
=============================================================================

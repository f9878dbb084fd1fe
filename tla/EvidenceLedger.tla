--------------------------- MODULE EvidenceLedger ---------------------------
(***************************************************************************)
(* What Evidence ingestion promises, whatever engine hands results over    *)
(* and however often: a source event has at most one Evidence Record,      *)
(* written once; its competency links stay within the mapping it was       *)
(* recorded under; and an event is marked consumed only when the record    *)
(* and all its links are there.  Each step is indivisible.                 *)
(***************************************************************************)
CONSTANTS
    Sources,        \* source events: assessment attempts or validation runs
    Results,        \* results a source engine can report
    Competencies,
    NoEvidence

\* What a record proves: the result, and the mapping it is linked by.
Proof == [result : Results, mapping : SUBSET Competencies]

ConsumptionState == {"none", "consumed", "skipped", "failed"}

VARIABLES
    evidence,       \* [Sources -> Proof \cup {NoEvidence}]
    links,          \* evidence_competency_links
    consumption     \* the consumption row of each source event

ledgerVars == <<evidence, links, consumption>>

LedgerInit ==
    /\ evidence = [s \in Sources |-> NoEvidence]
    /\ links = {}
    /\ consumption = [s \in Sources |-> "none"]

Recorded(s) == evidence[s] # NoEvidence

Complete(s) == Recorded(s) /\ {s} \X evidence[s].mapping \subseteq links

Record(s, p) ==
    /\ ~Recorded(s)
    /\ evidence' = [evidence EXCEPT ![s] = p]
    /\ UNCHANGED <<links, consumption>>

Link(s, c) ==
    /\ Recorded(s)
    /\ c \in evidence[s].mapping
    /\ links' = links \cup {<<s, c>>}
    /\ UNCHANGED <<evidence, consumption>>

Consume(s) ==
    /\ Complete(s)
    /\ consumption' = [consumption EXCEPT ![s] = "consumed"]
    /\ UNCHANGED <<evidence, links>>

Skip(s) ==
    /\ ~Recorded(s)
    /\ consumption' = [consumption EXCEPT ![s] = "skipped"]
    /\ UNCHANGED <<evidence, links>>

\* A failure may be recorded at any time, even after a success of another
\* worker: the row tells what the last one to write saw.
Fail(s) ==
    /\ consumption' = [consumption EXCEPT ![s] = "failed"]
    /\ UNCHANGED <<evidence, links>>

LedgerNext ==
    \E s \in Sources :
        \/ \E p \in Proof : Record(s, p)
        \/ \E c \in Competencies : Link(s, c)
        \/ Consume(s)
        \/ Skip(s)
        \/ Fail(s)

LedgerSpec == LedgerInit /\ [][LedgerNext]_ledgerVars
=============================================================================

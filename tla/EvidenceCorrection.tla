------------------------- MODULE EvidenceCorrection -------------------------
(***************************************************************************)
(* Evidence review as the API service and the database carry it out        *)
(* (services/api/src/evidence-correction.ts, appendEvidenceCorrection, and *)
(* the table and triggers of migration 20260813000500).                    *)
(*                                                                         *)
(* One correction request is several database round trips, each its own    *)
(* READ COMMITTED transaction: look the idempotency key up, read the       *)
(* history and replay it, insert the next event, and, when the insert hits *)
(* a unique constraint, look the key up again.  The insert is two steps:   *)
(* the BEFORE INSERT trigger walks the supersession chain over what is     *)
(* committed at that moment, and only then are the unique constraints      *)
(* enforced and the row made visible.  Requests of several administrators  *)
(* interleave between any two steps, and any of them may be cut off.       *)
(***************************************************************************)
EXTENDS EvidenceRules, Relation

CONSTANTS
    Evidence,     \* Evidence Records
    Owner,        \* [Evidence -> student]
    Admins,       \* founder_admin requests that may be in flight together
    Keys, NoKey,  \* idempotency keys; NoKey: the caller sent none
    Inputs,       \* correction inputs administrators may send
    MaxHistory    \* bound: a history this long takes no further event

CorrectionInput ==
    [evidence : Evidence, action : CorrectionAction, expected : EvidenceState,
     target : Evidence \cup {NoEvidence}, key : Keys \cup {NoKey}]

ASSUME EvidenceCorrectionAssumption ==
    /\ NoEvidence \notin Evidence
    /\ NoKey \notin Keys
    /\ Inputs \subseteq CorrectionInput
    /\ MaxHistory \in Nat

VARIABLES
    log,          \* [Evidence -> Seq(Event)]: evidence_correction_events
    req           \* [Admins -> Request]: where each request stands

vars == <<log, req>>

Event ==
    [seq : Nat, action : CorrectionAction, prev : EvidenceState,
     new : EvidenceState, target : Evidence \cup {NoEvidence},
     key : Keys \cup {NoKey}]

\* What a request holds between two round trips: its input, and from the
\* moment the history is read, how long it was and the state it replayed to.
InFlight(step) ==
    [step : step, input : Inputs, seen : Nat, state : EvidenceState]

Waiting == {"lookup", "load", "guard", "commit", "lookupAgain"}

Outcome == {"created", "existing", "stale", "denied", "conflict", "failed"}

Idle == [step |-> "idle"]

Answer(input, outcome) == [step |-> "answered", input |-> input, outcome |-> outcome]

Request ==
    {Idle} \cup InFlight(Waiting) \cup [step : {"answered"}, input : Inputs, outcome : Outcome]

TypeOK ==
    /\ log \in [Evidence -> Seq(Event)]
    /\ req \in [Admins -> Request]

-----------------------------------------------------------------------------
Init ==
    /\ log = [e \in Evidence |-> <<>>]
    /\ req = [a \in Admins |-> Idle]

\* validateCreateEvidenceCorrectionInput, the clauses on action and target.
WellFormed(input) ==
    /\ input.target # input.evidence
    /\ input.action = "supersede" => input.target # NoEvidence

KeyUsed(e, key) == key # NoKey /\ \E i \in DOMAIN log[e] : log[e][i].key = key

Finish(a, outcome) ==
    /\ req' = [req EXCEPT ![a] = Answer(req[a].input, outcome)]
    /\ UNCHANGED log

Goto(a, step) ==
    /\ req' = [req EXCEPT ![a].step = step]
    /\ UNCHANGED log

Receive(a, input) ==
    /\ req[a] = Idle
    /\ WellFormed(input)
    /\ req' = [req EXCEPT ![a] =
                 [step |-> IF input.key = NoKey THEN "load" ELSE "lookup",
                  input |-> input, seen |-> 0, state |-> "active"]]
    /\ UNCHANGED log

LookupKey(a) ==
    /\ req[a].step = "lookup"
    /\ IF KeyUsed(req[a].input.evidence, req[a].input.key)
       THEN Finish(a, "existing")
       ELSE Goto(a, "load")

\* Mutant: only the expected state is compared, the transition is not judged.
LoadHistoryUnjudged(a) ==
    LET input   == req[a].input
        history == log[input.evidence]
    IN  /\ req[a].step = "load"
        /\ EffectiveState(history) = input.expected
        /\ req' = [req EXCEPT ![a].step = "guard",
                              ![a].seen = Len(history),
                              ![a].state = EffectiveState(history)]
        /\ UNCHANGED log

\* The history is read once; everything up to the insert is decided on it.
LoadHistory(a) ==
    LET input   == req[a].input
        history == log[input.evidence]
        state   == EffectiveState(history)
        permitted == Permitted(state, UnderReview(history), input.action,
                               input.target # NoEvidence)
        foreign == input.target # NoEvidence /\ Owner[input.target] # Owner[input.evidence]
    IN  /\ req[a].step = "load"
        /\ \/ /\ ~Replays(history)
              /\ Finish(a, "failed")
           \/ /\ Replays(history) /\ state # input.expected
              /\ Finish(a, "stale")
           \/ /\ Replays(history) /\ state = input.expected
              /\ ~permitted \/ foreign
              /\ Finish(a, "denied")
           \/ /\ Replays(history) /\ state = input.expected
              /\ permitted /\ ~foreign
              /\ req' = [req EXCEPT ![a].step = "guard",
                                    ![a].seen = Len(history),
                                    ![a].state = state]
              /\ UNCHANGED log

\* guard_evidence_correction_event: x is superseded by y in some committed
\* event; a restore that undid the supersession is not taken into account.
Supersedes(x, y) == \E i \in DOMAIN log[x] : log[x][i].target = y

Leads(x, y) ==
    \/ x = y
    \/ TransitiveClosure([p, q \in Evidence |-> Supersedes(p, q)], Evidence)[x, y]

\* The trigger re-reads owners and walks the chain; a refusal is not a
\* unique violation, so the caller only sees a failed dependency.
GuardInsert(a) ==
    LET input == req[a].input
    IN  /\ req[a].step = "guard"
        /\ IF input.target # NoEvidence /\ Leads(input.target, input.evidence)
           THEN Finish(a, "failed")
           ELSE Goto(a, "commit")

\* Mutant: the table without unique (evidence_id, sequence_number).
NothingTaken(e, n) == FALSE

SequenceTaken(e, n) == \E i \in DOMAIN log[e] : log[e][i].seq = n

\* unique (evidence_id, sequence_number), unique (evidence_id, idempotency_key)
CommitInsert(a) ==
    LET input == req[a].input
        event == [seq |-> req[a].seen + 1, action |-> input.action,
                  prev |-> req[a].state,
                  new |-> NextState(req[a].state, input.action),
                  target |-> input.target, key |-> input.key]
    IN  /\ req[a].step = "commit"
        /\ Len(log[input.evidence]) < MaxHistory
        /\ ~SequenceTaken(input.evidence, event.seq)
        /\ ~KeyUsed(input.evidence, input.key)
        /\ log' = [log EXCEPT ![input.evidence] = Append(@, event)]
        /\ req' = [req EXCEPT ![a] = Answer(input, "created")]

RejectInsert(a) ==
    LET input == req[a].input
    IN  /\ req[a].step = "commit"
        /\ \/ SequenceTaken(input.evidence, req[a].seen + 1)
           \/ KeyUsed(input.evidence, input.key)
        /\ IF input.key = NoKey
           THEN Finish(a, "conflict")
           ELSE Goto(a, "lookupAgain")

\* Mutant: every unique violation of a keyed request is taken for its replay.
PresumeReplay(a) ==
    /\ req[a].step = "lookupAgain"
    /\ Finish(a, "existing")

LookupKeyAgain(a) ==
    /\ req[a].step = "lookupAgain"
    /\ Finish(a, IF KeyUsed(req[a].input.evidence, req[a].input.key)
                 THEN "existing" ELSE "conflict")

\* The answer reaches the administrator, who may then send the same input
\* again or another one.
Respond(a) ==
    /\ req[a].step = "answered"
    /\ req' = [req EXCEPT ![a] = Idle]
    /\ UNCHANGED log

\* The connection or the service process is lost between two round trips;
\* the administrator learns nothing and may retry.
Lose(a) ==
    /\ req[a].step \in Waiting
    /\ req' = [req EXCEPT ![a] = Idle]
    /\ UNCHANGED log

Next ==
    \E a \in Admins :
        \/ \E input \in Inputs : Receive(a, input)
        \/ LookupKey(a) \/ LoadHistory(a)
        \/ GuardInsert(a) \/ CommitInsert(a) \/ RejectInsert(a)
        \/ LookupKeyAgain(a)
        \/ Respond(a) \/ Lose(a)

Spec == Init /\ [][Next]_vars
-----------------------------------------------------------------------------
\* Every committed history replays, although no constraint of the database
\* compares an event's recorded predecessor with the event before it: only
\* the sequence number read before the insert stands between two racing
\* administrators and an incoherent history.
HistoriesReplay == \A e \in Evidence : Replays(log[e])

\* A key is applied once per record, however often and however concurrently
\* the same request is retried, with answers lost on the way.
OneEventPerKey ==
    \A e \in Evidence : \A i, j \in DOMAIN log[e] :
        log[e][i].key = log[e][j].key /\ log[e][i].key # NoKey => i = j

\* The replacement a reader is shown belongs to the effective state: a record
\* names the Evidence superseding it exactly while it is superseded, through
\* reviews opened on it and restores that undo the supersession.
ReplacementMatchesState ==
    \A e \in Evidence :
        EffectiveState(log[e]) = "superseded" <=> SupersededBy(log[e]) # NoEvidence

\* A success answer is backed by the database: a created or existing event
\* answered for a keyed request is in the history under that key.
AnswersAreBacked ==
    \A a \in Admins :
        req[a].step = "answered" /\ req[a].outcome \in {"created", "existing"} =>
            \E i \in DOMAIN log[req[a].input.evidence] :
                LET event == log[req[a].input.evidence][i]
                IN  /\ event.key = req[a].input.key
                    /\ req[a].outcome = "created" => event.action = req[a].input.action

\* Supersession never closes a circle: no record is superseded, directly or
\* through others, by a record that it supersedes.
NoSupersessionCycle ==
    \A e, f \in Evidence : ~(Supersedes(e, f) /\ Leads(f, e))

KeysOf(history) == {history[i].key : i \in DOMAIN history} \ {NoKey}

\* The service implements the indivisible corrections of EvidenceTrust.
Abs == INSTANCE EvidenceTrust
         WITH trust  <- [e \in Evidence |-> EffectiveState(log[e])],
              review <- [e \in Evidence |-> UnderReview(log[e])],
              spent  <- [e \in Evidence |-> KeysOf(log[e])],
              corrections <- [e \in Evidence |-> Len(log[e])]

ImplementsTrust == Abs!AbsSpec
=============================================================================

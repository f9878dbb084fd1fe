----------------------------- MODULE PacketJourney -----------------------------
(***************************************************************************)
(* The packet-journey activity of a lesson: what an author may write, what *)
(* the server sends at each support level, what the observation model      *)
(* makes of a learner's progress, and which control the one-beat pane      *)
(* offers.  Pure operators: the state of one journey is a record           *)
(*                                                                         *)
(*   revealed   how many stages have been shown                            *)
(*   predicted  the stages whose prediction is committed                   *)
(*   answered   the knowledge checks answered                              *)
(*   applied    the remediation applied, or NoAction                       *)
(*   beat       the beat on screen                                         *)
(*                                                                         *)
(* A journey is [stages, fault, actions, confirmation]: stages a sequence  *)
(* of [outcome, asks, explains, checks], fault the stage it stops at (0    *)
(* for none), actions a function to "resolves the fault".  Wording, the    *)
(* topology, options and verdicts are left out: nothing below reads them.  *)
(***************************************************************************)
EXTENDS Naturals, Sequences, FiniteSets, SequencesExt

CONSTANT NoAction

-----------------------------------------------------------------------------
(* Authoring and the server's projection.                                  *)

WithholdsAnswers(level) == level \in {"challenge_me", "prove_it"}
WithholdsEntireInteraction(level) == level = "prove_it"

ValidStages(j) ==
    /\ j.stages # << >> /\ j.stages \in Seq(ToSet(j.stages))
    /\ \A i \in DOMAIN j.stages :
          /\ DOMAIN j.stages[i] = {"outcome", "asks", "explains", "checks"}
          /\ j.stages[i].checks \in Seq(ToSet(j.stages[i].checks))
          /\ j.stages[i].outcome \in {"proceeds", "stops"}

ValidFault(j) ==
    /\ j.fault \in 0..Len(j.stages)
    /\ j.fault # 0 => j.stages[j.fault].outcome = "stops"

ValidActions(j) == (j.fault # 0) <=> \E a \in DOMAIN j.actions : j.actions[a]

ValidJourney(j) ==
    ValidStages(j) /\ ValidFault(j) /\ ValidActions(j) /\ NoAction \notin DOMAIN j.actions

(* A required activity may not be withheld entirely. *)
ValidInteractionStep(step) ==
    /\ ValidJourney(step.journey)
    /\ ~(step.required /\ WithholdsEntireInteraction(step.level))

(* What the learner receives: at a withholding level no reasons, checks,   *)
(* actions or confirmation.                                                *)
Projected(j, level) ==
    IF WithholdsAnswers(level)
    THEN [stages       |-> [i \in DOMAIN j.stages |->
                              [j.stages[i] EXCEPT !.explains = FALSE, !.checks = << >>]],
          fault        |-> j.fault,
          actions      |-> << >>,
          confirmation |-> FALSE]
    ELSE j

Sequencing(level) ==
    CASE level = "show_me" -> "demonstrate"
      [] level = "help_me" -> "guide"
      [] OTHER -> "commit_first"

-----------------------------------------------------------------------------
(* The observation model.                                                  *)

FaultResolved(p, s) == s.applied \in DOMAIN p.actions /\ p.actions[s.applied]

(* Mutant: any remediation lets the traffic on. *)
OutcomeOfAnyAction(p, s, i) ==
    IF i = p.fault /\ s.applied # NoAction THEN "proceeds" ELSE p.stages[i].outcome

Outcome(p, s, i) ==
    IF i = p.fault /\ FaultResolved(p, s) THEN "proceeds" ELSE p.stages[i].outcome

AtStop(p, s) == s.revealed > 0 /\ Outcome(p, s, s.revealed) = "stops"

AllRevealed(p, s) == s.revealed >= Len(p.stages)

Confirmed(p, s) == AllRevealed(p, s) /\ ~AtStop(p, s) /\ p.confirmation

ActionsAvailable(p, s) == AtStop(p, s) /\ ~FaultResolved(p, s)

Finished(p, s) == s.revealed > 0 /\ AllRevealed(p, s) /\ ~AtStop(p, s)

-----------------------------------------------------------------------------
(* What the learner is asked, and what may be revealed.                    *)

PendingPrediction(p, s) ==
    /\ ~AllRevealed(p, s)
    /\ p.stages[s.revealed + 1].asks
    /\ s.revealed + 1 \notin s.predicted

(* The latest revealed stage that authors checks, 0 for none.              *)
CheckedStage(p, s) ==
    LET asking == {i \in 1..s.revealed : p.stages[i].checks # << >>}
    IN  IF asking = {} THEN 0 ELSE CHOOSE i \in asking : \A k \in asking : k <= i

(* Its checks still open, as positions in authored order.                  *)
OpenChecks(p, s) ==
    IF CheckedStage(p, s) = 0 THEN {}
    ELSE LET checks == p.stages[CheckedStage(p, s)].checks
         IN  {k \in DOMAIN checks : checks[k] \notin s.answered}

CanAdvance(p, s, level) ==
    /\ ~AllRevealed(p, s)
    /\ ~AtStop(p, s)
    /\ Sequencing(level) = "commit_first" => ~PendingPrediction(p, s)

-----------------------------------------------------------------------------
(* The beats of the pane, in the order the learner meets them.             *)

(* What was just answered: a check of the stage on screen, until a         *)
(* remediation is applied, and the prediction about it.                    *)
ResolvedCheck(p, s) ==
    /\ s.revealed > 0
    /\ s.applied \notin DOMAIN p.actions
    /\ ToSet(p.stages[s.revealed].checks) \cap s.answered # {}

ResolvedPrediction(s) == s.revealed > 0 /\ s.revealed \in s.predicted

Beats(p, s, level) ==
    LET when(condition, kind) == IF condition THEN <<kind>> ELSE << >>
        shown == s.revealed > 0
        beats ==
            when(ResolvedCheck(p, s), "feedback")
            \o when(ResolvedPrediction(s), "feedback")
            \o when(shown, "observe")
            \o when(shown /\ p.stages[s.revealed].explains, "explain")
            \o when(AtStop(p, s) /\ p.fault # 0, "symptom")
            \o when(OpenChecks(p, s) # {}, "question")
            \o when(PendingPrediction(p, s), "question")
            \o when(ActionsAvailable(p, s) /\ DOMAIN p.actions # {}, "action")
    IN  IF Confirmed(p, s) THEN <<"done">>
        ELSE IF beats = << >> /\ CanAdvance(p, s, level) THEN <<"start">>
        ELSE beats

OnLastBeat(p, s, level) == s.beat = Len(Beats(p, s, level))

BeatKind(p, s, level) ==
    IF s.beat \in DOMAIN Beats(p, s, level) THEN Beats(p, s, level)[s.beat] ELSE "none"

(* The controls that move the network, each with its render condition.     *)
(* A pending prediction is what any question beat shows.                   *)
OffersPrediction(p, s, level) ==
    BeatKind(p, s, level) = "question" /\ PendingPrediction(p, s)
OffersCheck(p, s, level) ==
    /\ BeatKind(p, s, level) = "question"
    /\ ~PendingPrediction(p, s)
    /\ OpenChecks(p, s) # {}
OffersActions(p, s, level) ==
    BeatKind(p, s, level) = "action" /\ ActionsAvailable(p, s)
OffersAdvance(p, s, level) ==
    /\ OnLastBeat(p, s, level)
    /\ CanAdvance(p, s, level)
    /\ BeatKind(p, s, level) \notin {"question", "action"}

-----------------------------------------------------------------------------
(* The transitions.  A change the event token shows puts the learner back  *)
(* on the first beat.                                                      *)

InitialJourney ==
    [revealed |-> 0, predicted |-> {}, answered |-> {}, applied |-> NoAction, beat |-> 1]

Token(s) == <<s.revealed, s.applied, Cardinality(s.predicted), Cardinality(s.answered)>>

Shown(before, after) ==
    [after EXCEPT !.beat = IF Token(before) = Token(after) THEN before.beat ELSE 1]

(* Committing also reveals the stage the prediction is about. *)
CommitPrediction(p, s) ==
    Shown(s, [s EXCEPT !.predicted = @ \cup {s.revealed + 1}, !.revealed = @ + 1])

AnswerKnowledgeCheck(p, s) ==
    LET first == p.stages[CheckedStage(p, s)].checks[Min(OpenChecks(p, s))]
    IN  Shown(s, [s EXCEPT !.answered = @ \cup {first}])

Advance(p, s) == Shown(s, [s EXCEPT !.revealed = @ + 1])

(* Mutant: the first choice is final. *)
ApplyFirstAction(p, s, a) ==
    Shown(s, IF s.applied # NoAction THEN s ELSE [s EXCEPT !.applied = a])

(* Once, unless the model still offers a choice. *)
ApplyAction(p, s, a) ==
    Shown(s, IF s.applied # NoAction /\ ~ActionsAvailable(p, s) THEN s
             ELSE [s EXCEPT !.applied = a])

ResetJourney(s) == Shown(s, InitialJourney)

(* What one press of a control of the pane may leave.                      *)
JourneyMoves(p, s, level) ==
    (IF OffersPrediction(p, s, level) THEN {CommitPrediction(p, s)} ELSE {})
    \cup (IF OffersCheck(p, s, level) THEN {AnswerKnowledgeCheck(p, s)} ELSE {})
    \cup (IF OffersActions(p, s, level)
          THEN {ApplyAction(p, s, a) : a \in DOMAIN p.actions} ELSE {})
    \cup (IF OffersAdvance(p, s, level) THEN {Advance(p, s)} ELSE {})

BeatMoves(p, s, level) ==
    {[s EXCEPT !.beat = b] :
        b \in {s.beat - 1, s.beat + 1} \cap DOMAIN Beats(p, s, level)}
=============================================================================

------------------------------- MODULE TutorTurn -------------------------------
(***************************************************************************)
(* One turn of the Tutor.  First the pure contracts: which request is      *)
(* refused and for what, which approved content an answer may be built     *)
(* from, what a provider is sent, and what its output is turned into.  A   *)
(* text is what screening makes of it: "clean"; "credential", which        *)
(* redaction masks; "residue", in which a mask completes another           *)
(* credential shape; "blank".  Its length is kept where a bound counts it. *)
(*                                                                         *)
(* Then the turn: the caller resolves who owns the notes, and              *)
(* runTutorTurn takes the request through its checks, the grounding source *)
(* and a provider, each under a timer and the provider under a bounded     *)
(* retry.  Work that was given up on goes on until it ends by itself, and  *)
(* answers a turn that no longer listens.                                  *)
(***************************************************************************)
EXTENDS Naturals, Sequences, FiniteSets, SequencesExt

CONSTANTS
    Kinds,            \* the approved kinds of content, in order of precedence
    Tasks,            \* the task family of the contract
    QuestionLimit, ExcerptLimit, MaxExcerpts,
    MaxRefs, MaxSegments, TextBudget, SegmentLimit

Only(condition, value) == IF condition THEN <<value>> ELSE << >>

(* The entries at the positions to keep.                                   *)
Where(list, keep) == FlattenSeq([i \in DOMAIN list |-> Only(i \in keep, list[i])])

-----------------------------------------------------------------------------
(* Screening and redaction.                                                *)

Detected(text) == text \in {"credential", "residue"}

Redacted(text) == IF text = "credential" THEN "clean" ELSE text

-----------------------------------------------------------------------------
(* The request.                                                            *)

Repeats(refs, i) == \E k \in 1..(i - 1) : refs[k] = refs[i]

ValidRefs(refs) == Len(refs) <= MaxRefs /\ \A i \in DOMAIN refs : refs[i].kind \in ToSet(Kinds)

NormalizedRefs(refs) == Where(refs, {i \in DOMAIN refs : ~Repeats(refs, i)})

MayInclude(note, ownership) == note \in DOMAIN ownership /\ ownership[note] = "owned"

ExcerptRejections(excerpt, ownership) ==
    LET note == excerpt.note
    IN  Only(~excerpt.chosen \/ excerpt.text = "blank", "note_excerpt_missing_learner_action")
        \o Only(excerpt.size > ExcerptLimit, "note_excerpt_too_long")
        \o Only(~MayInclude(note, ownership),
                IF note \notin DOMAIN ownership \/ ownership[note] = "unavailable"
                THEN "note_ownership_unavailable" ELSE "cross_learner_reference")

(* Every check that fails, in the order of the checks: the first refuses.  *)
Rejections(input, ownership) ==
    LET texts == {input.question.text} \cup {input.excerpts[i].text : i \in DOMAIN input.excerpts}
    IN  Only(~input.supported, "contract_version_unsupported")
        \o Only(input.forbidden, "forbidden_input_field")
        \o Only(Detected(input.correlation), "correlation_id_invalid")
        \o Only(input.task \notin Tasks, "task_type_unsupported")
        \o Only(input.question.text = "blank", "question_missing")
        \o Only(input.question.size > QuestionLimit, "question_too_long")
        \o Only(~input.located, "lesson_identity_missing")
        \o Only(~ValidRefs(input.refs), "context_type_unsupported")
        \o Only(Len(input.excerpts) > MaxExcerpts, "note_excerpt_limit_exceeded")
        \o FlattenSeq([i \in DOMAIN input.excerpts |->
                          ExcerptRejections(input.excerpts[i], ownership)])
        \o Only(\E text \in texts : Detected(text), "secret_detected")

(* Lab state is knowable or not, never a verdict.                          *)
LabState(claim) == IF claim = "attested" THEN "available" ELSE "unavailable"

Assembled(input) ==
    [task |-> input.task, question |-> input.question, refs |-> NormalizedRefs(input.refs),
     excerpts |-> input.excerpts, lab |-> LabState(input.claim)]

-----------------------------------------------------------------------------
(* Grounding: what was asked for, by precedence, then as it was asked for, *)
(* as far as the bounds reach.                                             *)

RefOf(segment) == [kind |-> segment.kind, id |-> segment.id]

Ordered(refs, resolved) ==
    LET byKind == FlattenSeq([k \in DOMAIN Kinds |->
                      Where(refs, {i \in DOMAIN refs : refs[i].kind = Kinds[k]})])
    IN  FlattenSeq([i \in DOMAIN byKind |->
            Where(resolved, {n \in DOMAIN resolved : RefOf(resolved[n]) = byKind[i]})])

Clipped(segment) ==
    IF segment.size > SegmentLimit THEN [segment EXCEPT !.size = SegmentLimit] ELSE segment

(* A blank segment is passed over; one that does not fit ends the list.    *)
Take(acc, segment) ==
    IF ~acc.open \/ segment.text = "blank" THEN acc
    ELSE IF Len(acc.chosen) >= MaxSegments \/ segment.size > acc.budget
    THEN [acc EXCEPT !.open = FALSE]
    ELSE [acc EXCEPT !.chosen = Append(@, segment), !.budget = @ - segment.size]

Chosen(ordered) ==
    LET taken[i \in 0..Len(ordered)] ==
            IF i = 0 THEN [chosen |-> << >>, budget |-> TextBudget, open |-> TRUE]
            ELSE Take(taken[i - 1], Clipped(ordered[i]))
    IN  taken[Len(ordered)].chosen

Grounding(mode, segments, dropped) == [mode |-> mode, segments |-> segments, dropped |-> dropped]

Unreadable == Grounding("context_unavailable", << >>, 0)

SelectedGrounding(refs, resolved) ==
    LET ordered == Ordered(refs, resolved)
        chosen == Chosen(ordered)
    IN  IF refs = << >> THEN Grounding("general", << >>, 0)
        ELSE Grounding(IF chosen # << >> THEN "lesson_grounded" ELSE "context_unavailable",
                       chosen, Len(ordered) - Len(chosen))

-----------------------------------------------------------------------------
(* The prompt and the two gates over it.                                   *)

Prompt(request, grounding) ==
    [task     |-> request.task,
     question |-> [request.question EXCEPT !.text = Redacted(@)],
     mode     |-> grounding.mode,
     segments |-> [i \in DOMAIN grounding.segments |->
                      [grounding.segments[i] EXCEPT !.text = Redacted(@)]],
     excerpts |-> [i \in DOMAIN request.excerpts |->
                      [request.excerpts[i] EXCEPT !.text = Redacted(@)]],
     lab      |-> request.lab]

Texts(prompt) ==
    {prompt.question.text}
    \cup {prompt.segments[i].text : i \in DOMAIN prompt.segments}
    \cup {prompt.excerpts[i].text : i \in DOMAIN prompt.excerpts}

PromptRejected(prompt) == \E text \in Texts(prompt) : Detected(text)

Characters(prompt) ==
    LET total(sum, part) == sum + part.size
    IN  prompt.question.size + FoldLeft(total, 0, prompt.segments)
                             + FoldLeft(total, 0, prompt.excerpts)

Unsuitable(capabilities, prompt) ==
    Only(prompt.task \notin capabilities.tasks, "unsupported_capability")
    \o Only(Characters(prompt) > capabilities.context, "context_too_large")

-----------------------------------------------------------------------------
(* The response.                                                           *)

(* Only a segment that was selected and says where it comes from.          *)
Citable(segments) == {segments[i].id : i \in {k \in DOMAIN segments : segments[k].followable}}

(* Mutant: any requested content may be cited, read or not. *)
VerifiedAsClaimed(claimed, segments) == claimed

Verified(claimed, segments) == claimed \cap Citable(segments)

Uncertainty(grounding, cited, declared) ==
    CASE grounding.mode = "context_unavailable" -> "unavailable_context"
      [] grounding.mode = "general" -> "general"
      [] declared \/ cited = {} \/ grounding.dropped > 0 -> "partial"
      [] OTHER -> "grounded"

(* The local provider restates what it was sent, or, set to fail, leaves   *)
(* the answer out, claims an authority, or cites what it never saw.        *)
Composed(prompt) ==
    [authority |-> FALSE, answer |-> TRUE, uncertain |-> prompt.segments = << >>,
     claimed |-> {prompt.segments[i].id : i \in DOMAIN prompt.segments}]

LocalOutputs(prompt, unseen) ==
    LET composed == Composed(prompt)
    IN  {composed, [composed EXCEPT !.answer = FALSE], [composed EXCEPT !.authority = TRUE],
         [composed EXCEPT !.uncertain = FALSE, !.claimed = {unseen}]}

Malformed(output) == output.authority \/ ~output.answer

Answer(output, request, grounding) ==
    LET cited == Verified(output.claimed, grounding.segments)
    IN  [outcome |-> "answered", mode |-> grounding.mode, citations |-> cited,
         level |-> Uncertainty(grounding, cited, output.uncertain), lab |-> request.lab]

UnavailableResponse(request, mode) ==
    [outcome |-> "unavailable", mode |-> mode, citations |-> {},
     level |-> "unavailable_context", lab |-> request.lab]

DeferralResponse(request) ==
    [outcome |-> "deferred_to_deterministic", mode |-> "general", citations |-> {},
     level |-> "general", lab |-> request.lab]

-----------------------------------------------------------------------------
CONSTANTS
    Inputs,          \* the requests a lesson workspace may send
    OwnNotes,        \* the notes the caller's own client can see
    Resolutions,     \* what the grounding source may resolve to
    Outputs, Unseen, \* what another provider may complete with; content nobody sent
    Failures,        \* the failures a provider may report
    Capabilities,    \* what the provider advertises
    MaxAttempts

ASSUME TutorAssumption ==
    /\ MaxAttempts \in Nat \ {0}
    /\ Kinds \in Seq(ToSet(Kinds))
    /\ \A sent \in Inputs : sent.refs \in Seq(ToSet(sent.refs))
    /\ \A resolved \in Resolutions :
          /\ resolved \in Seq(ToSet(resolved))
          /\ \A i \in DOMAIN resolved :
                DOMAIN resolved[i] = {"kind", "id", "size", "text", "followable"}

VARIABLES
    input,       \* the request of this turn
    step,        \* where the turn stands
    ownership,   \* the answer to "whose note is it", per note asked about
    grounding,   \* the content selected
    attempts,    \* provider calls made
    lastError,
    working,     \* calls that have not ended, listened to or not
    outcome

turnVars == <<input, step, ownership, grounding, attempts, lastError, working, outcome>>

Request == Assembled(input)
NoOutcome == [status |-> "none"]

NotesAsked == {input.excerpts[i].note : i \in DOMAIN input.excerpts}

AskSource == [to |-> "source", refs |-> Request.refs]
Generate(n) == [to |-> "provider", attempt |-> n, prompt |-> Prompt(Request, grounding),
                aborted |-> FALSE]

TurnInit ==
    /\ input \in Inputs
    /\ step = "received"
    /\ ownership = << >>
    /\ grounding = Unreadable
    /\ attempts = 0
    /\ lastError = "provider_unavailable"
    /\ working = {}
    /\ outcome = NoOutcome

-----------------------------------------------------------------------------
(* Who owns the notes: one read as the caller, decided by the database.    *)

ResolveOwnership ==
    /\ step = "received"
    /\ \E verdict \in {[n \in NotesAsked |-> IF n \in OwnNotes THEN "owned" ELSE "not_owned"],
                       [n \in NotesAsked |-> "unavailable"]} : ownership' = verdict
    /\ step' = "resolved"
    /\ UNCHANGED <<input, grounding, attempts, lastError, working, outcome>>

-----------------------------------------------------------------------------
(* The turn ends in one of three ways.                                     *)

EndTurn(result) == step' = "done" /\ outcome' = result

Unavailable(error, mode, count) ==
    EndTurn([status |-> "unavailable", error |-> error, attempts |-> count,
         response |-> UnavailableResponse(Request, mode)])

(* Assembly, and all that happens before anything is waited for.           *)
Refuse ==
    /\ step = "resolved"
    /\ Rejections(input, ownership) # << >>
    /\ EndTurn([status |-> "refused", rejection |-> Head(Rejections(input, ownership))])
    /\ UNCHANGED <<input, ownership, grounding, attempts, lastError, working>>

Defer ==
    /\ step = "resolved"
    /\ Rejections(input, ownership) = << >>
    /\ input.deterministic
    /\ EndTurn([status |-> "answered", attempts |-> 0, response |-> DeferralResponse(Request)])
    /\ UNCHANGED <<input, ownership, grounding, attempts, lastError, working>>

Accept ==
    /\ step = "resolved"
    /\ Rejections(input, ownership) = << >>
    /\ ~input.deterministic
    /\ IF Request.refs = << >>
       THEN /\ grounding' = SelectedGrounding(<< >>, << >>)
            /\ step' = "grounded"
            /\ UNCHANGED working
       ELSE /\ working' = working \cup {AskSource}
            /\ step' = "grounding"
            /\ UNCHANGED grounding
    /\ UNCHANGED <<input, ownership, attempts, lastError, outcome>>

-----------------------------------------------------------------------------
(* The grounding source, under the timer.                                  *)

SourceResolves ==
    /\ step = "grounding"
    /\ \E resolved \in Resolutions : grounding' = SelectedGrounding(Request.refs, resolved)
    /\ working' = working \ {AskSource}
    /\ step' = "grounded"
    /\ UNCHANGED <<input, ownership, attempts, lastError, outcome>>

(* It says it is unavailable, rejects, or resolves to no list of segments. *)
SourceUnavailable ==
    /\ step = "grounding"
    /\ grounding' = Unreadable
    /\ working' = working \ {AskSource}
    /\ step' = "grounded"
    /\ UNCHANGED <<input, ownership, attempts, lastError, outcome>>

(* Mutant: the source is waited for without a timer. *)
SourceHoldsTheTurn == step = "grounding" /\ step' = "grounding" /\ UNCHANGED turnVars

(* No signal reaches the source: it works on. *)
SourceTimesOut ==
    /\ step = "grounding"
    /\ grounding' = Unreadable
    /\ step' = "grounded"
    /\ UNCHANGED <<input, ownership, attempts, lastError, working, outcome>>

-----------------------------------------------------------------------------
(* What is checked once the content is known, and the first call.          *)

NotSent ==
    /\ step = "grounded"
    /\ LET prompt == Prompt(Request, grounding)
           unfit == Unsuitable(Capabilities, prompt)
       IN  \/ /\ grounding.mode = "context_unavailable"
              /\ Unavailable("provider_unavailable", grounding.mode, 0)
           \/ /\ grounding.mode # "context_unavailable"
              /\ PromptRejected(prompt)
              /\ Unavailable("invalid_provider_response", grounding.mode, 0)
           \/ /\ grounding.mode # "context_unavailable"
              /\ ~PromptRejected(prompt)
              /\ unfit # << >>
              /\ Unavailable(Head(unfit), grounding.mode, 0)
    /\ UNCHANGED <<input, ownership, grounding, attempts, lastError, working>>

MaySend ==
    LET prompt == Prompt(Request, grounding)
    IN  /\ grounding.mode # "context_unavailable"
        /\ ~PromptRejected(prompt)
        /\ Unsuitable(Capabilities, prompt) = << >>

(* The first call, or another one when the pause after a failure is over.  *)
Call ==
    /\ (step = "grounded" /\ MaySend) \/ step = "pausing"
    /\ attempts' = attempts + 1
    /\ working' = working \cup {Generate(attempts + 1)}
    /\ step' = "calling"
    /\ UNCHANGED <<input, ownership, grounding, lastError, outcome>>

-----------------------------------------------------------------------------
(* The provider, under the timer.                                          *)

CurrentCall == Generate(attempts)

IsRetryable(error) == error \in {"provider_unavailable", "timeout", "rate_limited"}

MayRetry(count, error) == count < MaxAttempts /\ IsRetryable(error)

Failed(error) ==
    /\ lastError' = error
    /\ IF MayRetry(attempts, error)
       THEN step' = "pausing" /\ UNCHANGED outcome
       ELSE Unavailable(error, grounding.mode, attempts)
    /\ UNCHANGED <<input, ownership, grounding, attempts>>

(* What the provider makes of the prompt, judged before it is shown.       *)
ProviderCompletes ==
    /\ step = "calling"
    /\ working' = working \ {CurrentCall}
    /\ \E output \in Outputs \cup LocalOutputs(CurrentCall.prompt, Unseen) :
          IF Malformed(output)
          THEN Unavailable("invalid_provider_response", grounding.mode, attempts)
          ELSE EndTurn([status |-> "answered", attempts |-> attempts,
                    response |-> Answer(output, Request, grounding)])
    /\ UNCHANGED <<input, ownership, grounding, attempts, lastError>>

ProviderFails ==
    /\ step = "calling"
    /\ working' = working \ {CurrentCall}
    /\ \E error \in Failures : Failed(error)

ProviderTimesOut ==
    /\ step = "calling"
    /\ working' = (working \ {CurrentCall}) \cup {[CurrentCall EXCEPT !.aborted = TRUE]}
    /\ Failed("timeout")

(* Work nobody listens to any more ends, whatever it ends with.            *)
LateEnd ==
    /\ \E call \in working :
          /\ ~(step = "grounding" /\ call = AskSource) /\ ~(step = "calling" /\ call = CurrentCall)
          /\ working' = working \ {call}
    /\ UNCHANGED <<input, step, ownership, grounding, attempts, lastError, outcome>>

Finished == step = "done" /\ working = {} /\ UNCHANGED turnVars

TurnNext ==
    \/ ResolveOwnership
    \/ Refuse \/ Defer \/ Accept
    \/ SourceResolves \/ SourceUnavailable \/ SourceTimesOut
    \/ NotSent \/ Call
    \/ ProviderCompletes \/ ProviderFails \/ ProviderTimesOut
    \/ LateEnd
    \/ Finished

TurnSpec == TurnInit /\ [][TurnNext]_turnVars

(* The event loop runs what is ready and timers fire.  Neither the source  *)
(* nor the provider has to answer.                                         *)
Progress == Refuse \/ Defer \/ Accept \/ NotSent \/ Call \/ SourceTimesOut \/ ProviderTimesOut

FairTurnSpec == TurnSpec /\ WF_turnVars(Progress)

-----------------------------------------------------------------------------
(* Properties.                                                             *)

ProviderCalls == {call \in working : call.to = "provider"}

TurnTypeOK ==
    /\ step \in {"received", "resolved", "grounding", "grounded", "calling", "pausing", "done"}
    /\ attempts \in 0..MaxAttempts
    /\ DOMAIN ownership \subseteq NotesAsked
    /\ grounding.mode \in {"general", "lesson_grounded", "context_unavailable"}
    /\ outcome.status \in {"none", "refused", "answered", "unavailable"}

(* Nothing reaches a provider that had not passed every check: no question *)
(* a deterministic engine decides, no excerpt the learner did not choose   *)
(* or whose note was not attested as theirs, no credential, no content     *)
(* beyond what was asked for, and no question about a lesson without any.  *)
SentIsPermitted ==
    \A call \in ProviderCalls :
        /\ ~input.deterministic
        /\ \A i \in DOMAIN call.prompt.excerpts :
              call.prompt.excerpts[i].chosen /\ call.prompt.excerpts[i].note \in OwnNotes
        /\ \A text \in Texts(call.prompt) : ~Detected(text)
        /\ \A i \in DOMAIN call.prompt.segments :
              RefOf(call.prompt.segments[i]) \in ToSet(input.refs)
        /\ input.refs # << >> => call.prompt.segments # << >>

(* "Answering a lesson question from no lesson content" does not happen,   *)
(* and an answer says that it comes from the lesson only when it points at *)
(* content that was asked for and none that was found was left out.        *)
AnswersAreGrounded ==
    outcome.status = "answered" /\ ~input.deterministic =>
        LET response == outcome.response
            shown == {grounding.segments[i].id : i \in DOMAIN grounding.segments}
        IN  /\ response.mode = "general" <=> input.refs = << >>
            /\ response.citations \subseteq shown \cap {input.refs[i].id : i \in DOMAIN input.refs}
            /\ response.level = "grounded" => response.citations # {} /\ grounding.dropped = 0

(* Given up on is told so: of the calls still running at most one was not  *)
(* aborted, and none once the turn is over, however many were made.        *)
OneLiveCall ==
    /\ \A one, other \in ProviderCalls : one = other \/ one.aborted \/ other.aborted
    /\ step # "calling" => \A call \in ProviderCalls : call.aborted

(* Another attempt follows only a failure that may pass, and the answer    *)
(* shown is the last attempt's, never one that came after its timeout.     *)
AttemptsAreEarned ==
    [][/\ attempts' # attempts =>
             attempts' <= MaxAttempts /\ (attempts > 0 => IsRetryable(lastError))
       /\ (outcome' # outcome /\ outcome'.status = "answered" /\ attempts > 0) =>
             \E call \in working \ working' : call.attempt = attempts /\ ~call.aborted
      ]_turnVars

(* A turn ends even if neither the source nor the provider ever answers.   *)
TurnEnds == step = "resolved" ~> step = "done"
=============================================================================

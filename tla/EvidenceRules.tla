--------------------------- MODULE EvidenceRules ---------------------------
(***************************************************************************)
(* The pure rules of Evidence review                                       *)
(* (packages/shared-types/src/evidence-correction.ts): which corrections   *)
(* are permitted, and how a history of correction events is replayed into  *)
(* the effective state.                                                    *)
(*                                                                         *)
(* A history is the sequence of a record's events in the order the reader  *)
(* sorts them, by sequence number.  An event is                            *)
(*   [seq, action, prev, new, target, key].                                *)
(* The code's replay is a loop that stops at the first incoherent event.   *)
(* Until it stops, the state before event i is the successor recorded by   *)
(* event i - 1, and the review flag is decided by event i - 1's action, so *)
(* the loop is stated here event by event instead of as a fold.            *)
(***************************************************************************)
EXTENDS Naturals, Sequences, FiniteSets

CONSTANT NoEvidence

EvidenceState == {"active", "invalidated", "superseded"}

CorrectionAction ==
    {"place_under_review", "confirm", "invalidate", "supersede", "restore"}

\* evaluateCorrectionTransition: is the decision `allowed`?
Permitted(state, underReview, action, hasTarget) ==
    /\ hasTarget <=> action = "supersede"
    /\ action = "confirm" => underReview
    /\ action \in {"invalidate", "supersede"} => state = "active"
    /\ action = "restore" => state # "active"

\* The decision's nextState and nextUnderReview.
NextState(state, action) ==
    CASE action = "invalidate" -> "invalidated"
      [] action = "supersede"  -> "superseded"
      [] action = "restore"    -> "active"
      [] OTHER                 -> state

NextReview(action) == action = "place_under_review"

\* State and review flag after the first i events; evidence_records.state,
\* the origin of the replay, is always active (createCanonicalEvidence).
StateAt(history, i) == IF i = 0 THEN "active" ELSE history[i].new
ReviewAt(history, i) == i # 0 /\ NextReview(history[i].action)

\* resolveEffectiveEvidenceState: sequenceValid.
Replays(history) ==
    \A i \in DOMAIN history :
        LET event == history[i]
        IN  /\ event.seq = i
            /\ event.prev = StateAt(history, i - 1)
            /\ Permitted(event.prev, ReviewAt(history, i - 1), event.action,
                         event.target # NoEvidence)
            /\ event.new = NextState(event.prev, event.action)

EffectiveState(history) == StateAt(history, Len(history))
UnderReview(history) == ReviewAt(history, Len(history))

\* Mutant: a restore does not clear the replacement.
EverSupersededBy(history) ==
    LET last == {i \in DOMAIN history :
                    /\ history[i].action = "supersede"
                    /\ \A j \in DOMAIN history :
                          history[j].action = "supersede" => j <= i}
    IN  IF last = {} THEN NoEvidence
        ELSE history[CHOOSE i \in last : TRUE].target

\* supersededByEvidenceId: set by the last supersede not followed by a restore.
SupersededBy(history) ==
    LET last == {i \in DOMAIN history :
                    /\ history[i].action \in {"supersede", "restore"}
                    /\ \A j \in DOMAIN history :
                          history[j].action \in {"supersede", "restore"} => j <= i}
    IN  IF last = {} THEN NoEvidence
        ELSE history[CHOOSE i \in last : TRUE].target

\* isEffectivelyTrustedEvidence
Trusted(history) == Replays(history) /\ EffectiveState(history) = "active"
=============================================================================

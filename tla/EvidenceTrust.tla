--------------------------- MODULE EvidenceTrust ---------------------------
(***************************************************************************)
(* What Evidence review promises, without requests, reads or sequence      *)
(* numbers: every Evidence Record has a trust state and a review flag, a   *)
(* correction is one indivisible permitted transition of that pair, which  *)
(* the number of the record's corrections gives away, and an idempotency   *)
(* key is spent by at most one correction of a record.                     *)
(***************************************************************************)
EXTENDS EvidenceRules

CONSTANTS Evidence, Keys, NoKey

VARIABLES trust,     \* [Evidence -> EvidenceState]
          review,    \* [Evidence -> BOOLEAN]
          spent,     \* [Evidence -> SUBSET Keys]
          corrections    \* [Evidence -> Nat]: rows in the correction history

absVars == <<trust, review, spent, corrections>>

AbsInit ==
    /\ trust = [e \in Evidence |-> "active"]
    /\ review = [e \in Evidence |-> FALSE]
    /\ spent = [e \in Evidence |-> {}]
    /\ corrections = [e \in Evidence |-> 0]

Correct(e, action, key) ==
    /\ Permitted(trust[e], review[e], action, action = "supersede")
    /\ key \notin spent[e]
    /\ trust' = [trust EXCEPT ![e] = NextState(@, action)]
    /\ review' = [review EXCEPT ![e] = NextReview(action)]
    /\ spent' = [spent EXCEPT ![e] = @ \cup ({key} \ {NoKey})]
    /\ corrections' = [corrections EXCEPT ![e] = @ + 1]

AbsNext ==
    \E e \in Evidence, action \in CorrectionAction, key \in Keys \cup {NoKey} :
        Correct(e, action, key)

AbsSpec == AbsInit /\ [][AbsNext]_absVars
=============================================================================

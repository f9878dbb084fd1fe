----------------------------- MODULE RecordView -----------------------------
(***************************************************************************)
(* A view of a student's own records (apps/web/src/certificates and        *)
(* apps/web/src/evidence): it loads when it is mounted and whenever its    *)
(* filters or its access token change, and the cleanup of the effect       *)
(* aborts the request before.  An aborted request shows nothing, but its   *)
(* finally clause runs like any other, some time later.                    *)
(***************************************************************************)
EXTENDS Naturals, Sequences, SequencesExt

CONSTANT Nothing    \* shown before the first answer

ViewOf(Load, Shown) ==
    [loads : Seq(Load), aborted : Nat, loading : BOOLEAN, failed : BOOLEAN,
     shown : Shown \cup {Nothing}]

Unused == [loads |-> <<>>, aborted |-> 0, loading |-> FALSE, failed |-> FALSE,
           shown |-> Nothing]

\* Mutant: the request before is left to end as it may.
BesideTheOthers(view, load) ==
    [view EXCEPT !.loads = Append(@, load), !.loading = TRUE, !.failed = FALSE]

\* The effect runs (again): its cleanup aborts, then it sends its own request.
Reloaded(view, load) ==
    [view EXCEPT !.loads = <<load>>, !.aborted = @ + Len(view.loads),
                 !.loading = TRUE, !.failed = FALSE]

\* An answer, or an error, reaches the view; what was shown stays after an
\* error.
Landed(view, i, answer) ==
    [view EXCEPT !.loads = RemoveAt(@, i), !.loading = FALSE, !.shown = answer]

FailedLoad(view, i) ==
    [view EXCEPT !.loads = RemoveAt(@, i), !.loading = FALSE, !.failed = TRUE]

\* The finally clause of an aborted request.
Settled(view) == [view EXCEPT !.aborted = @ - 1, !.loading = FALSE]
=============================================================================

-------------------------- MODULE MCLearningProgress --------------------------
(***************************************************************************)
(* An instance of LearningProgress for TLC: three missions in two modules; *)
(* the second builds on the first, the third on what an assessment shows.  *)
(***************************************************************************)
EXTENDS LearningProgress, TLC

CONSTANTS m1, m2, m3, q1, r1, r2

ThePath == << << <<m1, m2>>, <<m3>> >> >>
NeedsOf == [m \in {m1, m2, m3} |-> IF m = m2 THEN {m1} ELSE {}]
RequiresOf == [m \in {m1, m2, m3} |-> IF m = m3 THEN {q1} ELSE {}]

\* The count the page shows and the target it is given agree on the same tree
\* and rows, for every set of published and of completed missions.  (The state
\* of the path does not follow the count: a module whose missions are all
\* retired keeps its course in progress.)
ASSUME CountsAgree ==
    \A there, done \in SUBSET Missions :
        LET rows == [m \in Missions |-> [NoRow EXCEPT !.state =
                        IF m \in done THEN "completed" ELSE "not_started"]]
            summary == Summary(TreeOf(there), rows)
            target == SelectResumeTarget(TreeOf(there), rows)
        IN  /\ summary.completed = summary.total <=> target.reason = "path_complete"
            /\ summary.state = "completed" => target.reason = "path_complete"

\* Two tabs record while nobody asks for guidance, one while somebody does; and
\* the page is opened while a transaction may still begin.
Busy == {r \in Requests : req[r] # Idle}
OneWhileReading ==
    /\ Cardinality(Busy') > 1 => ~\E g \in Guides : guide'[g] # Idle
    /\ ~Reading /\ Reading' => clock < MaxClock
MCSpec == Init /\ [][Next /\ OneWhileReading]_vars
Tabs == Permutations({r1, r2})
=============================================================================

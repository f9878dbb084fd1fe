---------------------------- MODULE MCMissionLesson ----------------------------
(* Two missions.  One with a required journey with a fault, whose second   *)
(* version asks the same question with another answer and waits on a       *)
(* journey that ends in a stop.  One that waits on a challenge, sent       *)
(* without its remediation.                                                *)
EXTENDS MissionLesson

CONSTANTS lesson1, lesson2, bad, good, hop, left, right, Level, AskedAfterStop

Stage(outcome, asks, asked) ==
    [outcome |-> outcome, asks |-> asks, explains |-> FALSE, checks |-> asked]

Broken ==
    [stages       |-> <<Stage("stops", FALSE, <<hop>>),
                        Stage("proceeds", AskedAfterStop, << >>),
                        Stage("proceeds", TRUE, << >>)>>,
     fault        |-> 1,
     actions      |-> [a \in {bad, good} |-> a = good],
     confirmation |-> TRUE]

EndsStopped ==
    [stages       |-> <<Stage("stops", FALSE, << >>)>>,
     fault        |-> 0,
     actions      |-> << >>,
     confirmation |-> TRUE]

Waiting(level, journey) ==
    [kind |-> "interaction", required |-> TRUE, level |-> level, journey |-> journey]

Walk == Waiting(Level, Broken)

Transfer(key) ==
    [kind |-> "near_transfer",
     questions |-> <<[id |-> "q", multiple |-> FALSE, options |-> {left, right}, key |-> key]>>]

Prose == [kind |-> "prose"]

TheMissions == {lesson1, lesson2}
TheLessons ==
    lesson1 :> <<<<Walk, Transfer({left}), Prose>>,
                 <<Prose, Transfer({right}), Waiting(Level, EndsStopped)>>>>
    @@ lesson2 :> <<<<Waiting("challenge_me", Broken)>>>>
ThePublished == lesson1 :> {1} @@ lesson2 :> {1}
=============================================================================

----------------------- MODULE MCCertificateIssuance -----------------------
(* Instances of CertificateIssuance for TLC. *)
EXTENDS CertificateIssuance, TLC

CONSTANTS d1, d2, e1, e2, c1, c2, s1, s2, p1, t1, r1, r2

LegalMoves == {<<from, to>> \in DefinitionState \X DefinitionState : ValidTransition(from, to)}

\* Administrators who leave a retired definition retired.
NoReopening == {move \in LegalMoves : move[1] = "retired" => move[2] = "retired"}

OneStudent == [e \in Evidence |-> s1]
\* The second record is somebody else's.
TwoStudents == [e \in Evidence |-> IF e = e2 THEN s2 ELSE s1]
OneSource == [e \in Evidence |-> p1]
AllLinks == Evidence \X Competencies

AskForFirst == {[student |-> s1, definition |-> d1]}
AskForAny == Subject

\* The student's record may serve two competencies, the other's one of them.
FewLinks == {<<e1, c1>>, <<e1, c2>>, <<e2, c1>>}

\* The whole life of the first definition, whose successor stays a draft.
LifeOfFirst ==
    {d1} \X ([state : DefinitionState] \cup [requires : {{c1}, {c1, c2}}]
                \cup [policies : {{p1}}] \cup [successor : {d2}])
\* Only the student's own record is reviewed.
OwnReviews == {e1} \X {"invalidate", "place_under_review"}
OwnInvalidation == {<<e1, "invalidate">>}

AllWrites == Definitions \X Patch

RequestSymmetry == Permutations(Requests)
=============================================================================

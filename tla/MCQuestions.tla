---------------------------- MODULE MCQuestions ----------------------------
(* Model values and symmetry for the runs of Questions.                    *)
EXTENDS QuestionsContract, TLC

CONSTANTS c1, c2

OneCall == {c1}
TwoCalls == {c1, c2}
Interchangeable == Permutations(Calls)
=============================================================================

---------------------------- MODULE MCRefinement ----------------------------
(***************************************************************************)
(* Refinement on small instances.  A behaviour has a focus: the calls made *)
(* in it and the room they are given.                                      *)
(***************************************************************************)
EXTENDS Refinement, TLC

CONSTANTS q1, q2, q3, t1, t2, x, y, c1, c2

Twins == Permutations({c1, c2})

\* No question; one; one behind another; two and one behind the first.
NoQuestions == <<>>
OneQuestion == q1 :> {}
TwoRounds == q1 :> {} @@ q2 :> {q1}
ThreeQuestions == q1 :> {} @@ q2 :> {} @@ q3 :> {q1}
AllShapes == {NoQuestions, OneQuestion, TwoRounds, ThreeQuestions}

\* A truth changed, left out and added beside another.
OneList == {t1 :> x}
SomeLists == {t1 :> x, t1 :> y, t1 :> x @@ t2 :> x, t2 :> x}

AllOps == {"refine", "questions", "answer", "truths", "approve", "fail",
           "retry", "purge", "drop"}

VARIABLE focus

\* Two callers and the orders of a story: refine, return, answer, fail, retry.
OfOrders == INSTANCE Refinement WITH
    Ops <- {"refine", "questions", "answer", "fail", "retry"},
    Shapes <- {NoQuestions, OneQuestion}, TruthLists <- OneList,
    MaxOrders <- 3, MaxSets <- 2, MaxDrafts <- 0

\* A chain of attempts, with late returns and purged inputs.
OfRetries == INSTANCE Refinement WITH
    Ops <- {"refine", "questions", "truths", "fail", "retry", "purge"},
    Shapes <- {NoQuestions}, TruthLists <- OneList,
    MaxOrders <- 3, MaxSets <- 1, MaxDrafts <- 1

\* Rounds of answers and deferrals.
OfRounds == INSTANCE Refinement WITH
    Ops <- {"refine", "questions", "answer"},
    Shapes <- {ThreeQuestions}, TruthLists <- OneList,
    MaxOrders <- 2, MaxSets <- 1, MaxDrafts <- 0

\* Drafts submitted, superseded and approved, and the story dropped.
OfTruths == INSTANCE Refinement WITH
    Ops <- {"refine", "questions", "truths", "approve", "drop"},
    Shapes <- {NoQuestions}, TruthLists <- SomeLists,
    MaxOrders <- 2, MaxSets <- 2, MaxDrafts <- 3

\* A story's life: asked, decided, refined and asked again.
OfStory == INSTANCE Refinement WITH
    Ops <- {"refine", "questions", "answer", "truths", "approve"},
    Shapes <- {NoQuestions, TwoRounds}, TruthLists <- OneList,
    MaxOrders <- 2, MaxSets <- 2, MaxDrafts <- 2

MCInit == Init /\ focus \in {"orders", "retries", "rounds", "truths", "story"}

MCNext ==
    /\ UNCHANGED focus
    /\ CASE focus = "orders" -> OfOrders!Next
         [] focus = "retries" -> OfRetries!Next
         [] focus = "rounds" -> OfRounds!Next
         [] focus = "truths" -> OfTruths!Next
         [] focus = "story" -> OfStory!Next

MCSpec == MCInit /\ [][MCNext]_<<vars, focus>>
=============================================================================

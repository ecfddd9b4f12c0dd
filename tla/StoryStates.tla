---------------------------- MODULE StoryStates ----------------------------
(***************************************************************************)
(* What refining promises the owner of a story, without orders, calls or   *)
(* documents: the story is asked, drafted and refined, an open set is left *)
(* only by answering or deferring its questions, and truths change only by *)
(* an approval from a story whose questions are all settled.               *)
(***************************************************************************)
EXTENDS Integers, FiniteSets

CONSTANT QuestionSets   \* the questions a set may ask

VARIABLES
    state,   \* "unrefined", "asking", "drafting" or "refined"
    open,    \* the open questions of the latest set
    given    \* how many times truths were approved

vars == <<state, open, given>>

Init == state = "unrefined" /\ open = {} /\ given = 0

\* A new set, never while a question is open.
Ask(Q) ==
    /\ state # "asking"
    /\ state' = IF Q = {} THEN "drafting" ELSE "asking"
    /\ open' = Q
    /\ UNCHANGED given

\* Some open questions are answered or deferred.
Decide(Q) ==
    /\ state = "asking" /\ Q # {} /\ Q \subseteq open
    /\ open' = open \ Q
    /\ state' = IF open' = {} THEN "drafting" ELSE "asking"
    /\ UNCHANGED given

\* A draft of the latest set is approved, perhaps one approved before.
Approve ==
    /\ state \in {"drafting", "refined"}
    /\ state' = "refined"
    /\ given' = given + 1
    /\ UNCHANGED open

Next == (\E Q \in QuestionSets : Ask(Q)) \/ (\E Q \in SUBSET open : Decide(Q)) \/ Approve

Spec == Init /\ [][Next]_vars
=============================================================================

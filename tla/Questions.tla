----------------------------- MODULE Questions -----------------------------
(***************************************************************************)
(* Question sets as the `questions` view holds them and as a read derives  *)
(* them (baley-core questions/).  A set is asked in rounds: a question is  *)
(* asked once every question it depends on is answered; a question the     *)
(* owner deferred is settled without an answer, so what depends on it can  *)
(* only be deferred in turn.  Nothing derived is stored.                   *)
(*                                                                         *)
(* A set's questions are the domain of its dependencies.  Wording, the     *)
(* recommended answer and whether an answer takes it are left out: a       *)
(* story's set does not depend on them.                                    *)
(***************************************************************************)
EXTENDS Integers, FiniteSets

NoOne == [how |-> "open", round |-> 0]

\* The document questions.opened makes: every question open.
OpenedSet(deps) ==
    [deps |-> deps, settled |-> [q \in DOMAIN deps |-> NoOne],
     abandoned |-> FALSE]

\* judge_set: dependencies stay within the set, and no question waits on
\* itself through any chain of them (a set of questions each of which
\* depends on another of them is what a cycle leaves).
JudgeSet(deps) ==
    /\ \A q \in DOMAIN deps : deps[q] \subseteq DOMAIN deps
    /\ \A S \in SUBSET DOMAIN deps :
           (\A q \in S : deps[q] \cap S # {}) => S = {}

-----------------------------------------------------------------------------
(* round_of *)

Asked(set) == DOMAIN set.settled
OpenQuestions(set) == {q \in Asked(set) : set.settled[q].how = "open"}
AnsweredQuestions(set) == {q \in Asked(set) : set.settled[q].how = "answered"}

\* The questions of the current round.
Current(set) == {q \in OpenQuestions(set) : set.deps[q] \subseteq AnsweredQuestions(set)}

\* One more than the highest round recorded.
RoundNumber(set) ==
    LET Rounds == {0} \cup {set.settled[q].round : q \in Asked(set)}
    IN  1 + CHOOSE r \in Rounds : \A s \in Rounds : s <= r

IsOpen(set) == ~set.abandoned /\ OpenQuestions(set) # {}
IsClosed(set) == ~set.abandoned /\ OpenQuestions(set) = {}

-----------------------------------------------------------------------------
(* judge_answers.  A call settles the questions of DOMAIN items, each       *)
(* "answered" or "deferred", all of them in one round and each judged       *)
(* against the round as it stood before the call.                           *)

\* Mutant: an answer made askable by another answer of the call is taken.
JudgeAnswersOpen(set, items) ==
    /\ ~set.abandoned
    /\ DOMAIN items # {}
    /\ DOMAIN items \subseteq OpenQuestions(set)

JudgeAnswers(set, items) ==
    /\ ~set.abandoned
    /\ DOMAIN items # {}
    /\ DOMAIN items \subseteq OpenQuestions(set)
    /\ \A q \in DOMAIN items : items[q] = "answered" => q \in Current(set)

\* The set's document after the call's events, given round r.
Settle(set, items, r) ==
    [set EXCEPT !.settled = [q \in Asked(set) |->
        IF q \in DOMAIN items THEN [how |-> items[q], round |-> r]
                              ELSE set.settled[q]]]

\* closed_facts: the call leaves no question open.
Closes(set, items) == OpenQuestions(set) \subseteq DOMAIN items

=============================================================================

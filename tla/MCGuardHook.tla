---------------------------- MODULE MCGuardHook ----------------------------
(***************************************************************************)
(* GuardHook on one instance.  A behaviour is about one of two things, its *)
(* focus: deliveries of calls that share an id or have none, or three      *)
(* commits of one checkout, each under an id of its own, while complete    *)
(* and torn settings replace each other.                                   *)
(***************************************************************************)
EXTENDS GuardHook, TLC

CONSTANTS d1, d2, d3, d4, e1, e2, e3, c1, x, y, z, here, main

Asking == [on |-> "ask", hard |-> FALSE, protected |-> {main}]
Refusing == [on |-> "refuse", hard |-> TRUE, protected |-> {main}]
Allowing == [on |-> "allow", hard |-> FALSE, protected |-> {main}]
AllPolicies == {Asking, Refusing, Allowing}

ToolOf == [i \in Inputs |-> CASE i = x -> "commit" [] i = y -> "asked"
                              [] OTHER -> "path"]
OneCheckout == [i \in Inputs |-> here]

\* A commit delivered twice, its id used again for a path call, and a push
\* without an id; and three commits.
Redelivered == {d1, d2, d3, d4}
Commits == {e1, e2, e3}
CallIds == [d \in Deliveries |-> CASE d = d4 -> None
                                   [] d \in Commits -> d [] OTHER -> c1]
InputsOf ==
    [d \in Deliveries |-> CASE d \in {d1, d2} \cup Commits -> x
                            [] d = d3 -> z [] d = d4 -> y]

VARIABLE focus

OfCalls == INSTANCE GuardHook WITH
    Deliveries <- Redelivered, Policies <- {Asking}, MaxChanges <- 1
OfCommits == INSTANCE GuardHook WITH
    Deliveries <- Commits, Policies <- {Refusing, Allowing}

\* The call without an id comes in place of the one that reuses an id.
Three == \E d \in {d3, d4} : proc[d].pc = "idle"

\* A killed process leaves nothing that a later commit would read.
Killed == \E d \in Deliveries : proc[d].pc = "killed"

MCInit ==
    /\ Init
    /\ \/ focus = "calls" /\ files \in {Asking, Torn}
       \/ focus = "commits" /\ files # Asking

MCNext ==
    /\ UNCHANGED focus
    /\ \/ focus = "calls" /\ OfCalls!Next /\ Three'
       \/ focus = "commits" /\ OfCommits!Next /\ ~Killed'

MCSpec == MCInit /\ [][MCNext]_<<vars, focus>>

Twins == Permutations({d1, d2}) \cup Permutations(Commits)
=============================================================================

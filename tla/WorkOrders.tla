----------------------------- MODULE WorkOrders -----------------------------
(***************************************************************************)
(* Work orders as the `work_order` view holds them: what each event of a   *)
(* worker's order makes of the documents, and what a retry is judged on    *)
(* (baley-core work_order/).  The orders are those of one subject, in the  *)
(* order they were issued; an order's id is its place.                     *)
(*                                                                         *)
(* Route, instruction evidence and input bodies are left out, except the   *)
(* question set a drafting order's `questions` input names, and whether a  *)
(* purge released an input.                                                *)
(***************************************************************************)
EXTENDS Integers, Sequences

NoOrder == 0

IssuedOrder(kind, set, parent) ==
    [kind |-> kind, set |-> set, parent |-> parent, child |-> NoOrder,
     state |-> "pending", returns |-> {}, released |-> FALSE]

\* work_order.issued: the new order's document, and its parent's child.
Issued(orders, kind, set, parent) ==
    Append([o \in DOMAIN orders |->
                IF o = parent THEN [orders[o] EXCEPT !.child = Len(orders) + 1]
                              ELSE orders[o]],
           IssuedOrder(kind, set, parent))

\* work_order.failed.
Failed(orders, o) == [orders EXCEPT ![o].state = "failed"]

\* answer: a return names the order.  A pending order becomes answered, a
\* failed one stays failed and keeps the return.
Answered(orders, o, return) ==
    [orders EXCEPT ![o].returns = @ \cup {return},
                   ![o].state = IF @ = "pending" THEN "answered" ELSE @]

\* A purge released an input body the order's event references; another order
\* that references it too need not be released at once.
Released(orders, o) == [orders EXCEPT ![o].released = TRUE]

Pending(orders) == {o \in DOMAIN orders : orders[o].state = "pending"}

\* The attempts before o, back to the first of its chain: what every set of
\* orders holds that has the parents of o and of its own.
HasParents(orders, o, S) ==
    \A p \in S \cup {o} : orders[p].parent = NoOrder \/ orders[p].parent \in S

Earlier(orders, o) ==
    {p \in DOMAIN orders :
        \A S \in SUBSET DOMAIN orders : HasParents(orders, o, S) => p \in S}

\* Mutant: only the order's own returns refuse its retry.
JudgeRetryAlone(orders, o) ==
    /\ orders[o].state = "failed"
    /\ orders[o].returns = {}
    /\ orders[o].child = NoOrder
    /\ ~orders[o].released

\* judge_retry: a failed order without a retry, no attempt of whose chain
\* has returned and whose inputs are all held.
JudgeRetry(orders, o) ==
    /\ orders[o].state = "failed"
    /\ orders[o].returns = {}
    /\ orders[o].child = NoOrder
    /\ \A p \in Earlier(orders, o) : orders[p].returns = {}
    /\ ~orders[o].released

=============================================================================

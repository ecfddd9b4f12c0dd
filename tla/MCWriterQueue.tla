--------------------------- MODULE MCWriterQueue ---------------------------
(***************************************************************************)
(* Instances of WriterQueue for TLC.  One of three processes has died      *)
(* before the behaviour begins.  What is left are two threads of one store *)
(* and one of another, each a command or a rebuild, or two guard threads   *)
(* of one store beside a writer that may stop for ever holding a lock.     *)
(***************************************************************************)
EXTENDS WriterQueue

CONSTANTS a1, a2, b1, g1, g2, A, B, G

Owners ==
    [t \in Threads |->
        CASE t \in {a1, a2} -> A [] t = b1 -> B [] OTHER -> G]

MCInit ==
    \E s \in {A, G} :
        AtRest([t \in Threads |-> IF StoreOf[t] = s THEN "gone" ELSE StartOf(t)],
               IF s = G THEN MaxTime ELSE 0)

MCSpec == MCInit /\ [][Next]_vars /\ Fairness
=============================================================================

------------------------------ MODULE MCAnchor ------------------------------
(***************************************************************************)
(* Anchor on small instances.                                              *)
(***************************************************************************)
EXTENDS Anchor, TLC

\* Next, where a copy is restored or time passes: a restored copy's lease has
\* already expired, so the clock adds nothing to what its history can come to.
MCNext ==
    \/ Work
    \/ Backup /\ MaxEra > 0
    \/ Tick /\ era = 0
    \/ Restore /\ now = 0
    \/ \E a \in flight : Land(a) \/ Lose(a)
    \/ \E p \in Procs :
        \/ \E r \in Requests : Begin(p, r)
        \/ \E a \in Anchors : AckVerify(p, a)
        \/ Step(p)
        \/ Renew(p)
        \/ Crash(p)

\* No command under way and no room for another: the instance ends there.
Finished ==
    /\ ~Room
    /\ \A p \in Procs : At(p, "idle")
    /\ UNCHANGED vars

MCSpec == Init /\ [][MCNext \/ Finished]_vars

\* Requests nothing is known of are as good as each other: numbered ones come
\* in their order.
Known(r) == outcome[r] # "none" \/ claim.req = r \/ \E p \in Procs : run[p].req = r

InOrder ==
    \A p \in Procs :
        run[p].req = None /\ run'[p].req # None =>
            \A r \in Requests : r < run'[p].req => Known(r)

\* One entry of other work is enough for commands to have a head to anchor.
WorkedOnce == Work => chain = <<>>

MCFairSpec ==
    Init /\ [][(MCNext \/ Finished) /\ InOrder /\ WorkedOnce]_vars /\ Fairness

Symmetry == Permutations(Procs) \cup Permutations(Requests)
=============================================================================

------------------------------ MODULE MCClaims ------------------------------
(***************************************************************************)
(* The command path with three requests, so that one can hold a claim, one *)
(* can contend for its tokens and one can reconcile it.  A behaviour is    *)
(* either long with one digest, or short with digests that differ.         *)
(***************************************************************************)
EXTENDS Claims, TLC

CONSTANTS d1, ShortEvents

VARIABLE focus

Long == INSTANCE Claims WITH Digests <- {d1}
Short == INSTANCE Claims WITH MaxEvents <- ShortEvents

MCInit == Init /\ focus \in {"claims", "digests"}

MCNext ==
    /\ UNCHANGED focus
    /\ \/ focus = "claims" /\ Long!Next
       \/ focus = "digests" /\ Short!Next

MCSpec == MCInit /\ [][MCNext]_<<vars, focus>>

Symmetry ==
    Permutations(Requests) \cup Permutations(Procs) \cup Permutations(Tokens)
=============================================================================

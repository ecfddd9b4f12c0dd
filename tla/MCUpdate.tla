------------------------------ MODULE MCUpdate ------------------------------
(***************************************************************************)
(* Update on one instance.  A behaviour is about two updaters that race,   *)
(* also across midnight, or about one updater on an installation whose     *)
(* stable path the owner replaces, twice at most and at any time.         *)
(***************************************************************************)
EXTENDS Update, TLC

CONSTANT p1

VARIABLE focus

Race == INSTANCE Update WITH Versions <- {1, 2}, MaxOwner <- 0
Owned == INSTANCE Update WITH Procs <- {p1}

MCInit == UpdateInit /\ focus \in {"race", "owner"}

MCNext ==
    /\ UNCHANGED focus
    /\ \/ focus = "race" /\ Race!UpdateNext
       \/ focus = "owner" /\ Owned!UpdateNext

MCSpec == MCInit /\ [][MCNext]_<<updateVars, focus>>
=============================================================================

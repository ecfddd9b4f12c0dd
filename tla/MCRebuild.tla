----------------------------- MODULE MCRebuild ------------------------------
(***************************************************************************)
(* Rebuild on small instances: processes of an older and a newer binary    *)
(* and a guard store.                                                      *)
(***************************************************************************)
EXTENDS Rebuild, TLC

CONSTANTS old, new, guard

\* Two normal stores of different binaries and a newer guard store.
NewGuardVersion == (old :> 1) @@ (new :> 2) @@ (guard :> 2)

Symmetry == Permutations(Keys)
=============================================================================

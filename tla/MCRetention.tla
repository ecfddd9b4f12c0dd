---------------------------- MODULE MCRetention ----------------------------
(***************************************************************************)
(* Retention on one instance: two outputs that differ only between their   *)
(* edges and so share one excerpt.  A behaviour is about one of three      *)
(* things, its focus: bodies two projects share, one export against the    *)
(* purges of two projects, or two exports of one project on one target.    *)
(***************************************************************************)
EXTENDS Retention, FiniteSets, TLC

CONSTANT X  \* the excerpt

OneExcerpt == [h \in Outputs |-> X]

VARIABLE focus

Sharing == INSTANCE Retention WITH Targets <- {}
Exporting == INSTANCE Retention WITH Classes <- {"output"}, Readers <- {}

Known == {h \in Outputs : body[h] # "none"}
Begun == {e \in Exports : export[e].pc # "idle"}
Active == {p \in Projects : log[p] # <<>>} \cup {export[e].project : e \in Begun}

MCInit == Init /\ focus \in {"sharing", "purged", "exported"}

MCNext ==
    /\ UNCHANGED focus
    /\ CASE focus = "sharing" -> Sharing!Next
         [] focus = "purged" ->
                Exporting!Next /\ Cardinality(Known') <= 1 /\ Cardinality(Begun') <= 1
         [] focus = "exported" ->
                Exporting!Next /\ Cardinality(Known') <= 1 /\ Cardinality(Active') <= 1

MCSpec == MCInit /\ [][MCNext]_<<vars, focus>>

Symmetry ==
    Permutations(Projects) \cup Permutations(Outputs) \cup Permutations(Exports)
=============================================================================

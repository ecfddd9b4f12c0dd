------------------------------- MODULE Truths -------------------------------
(***************************************************************************)
(* The versions of a story's truths (baley-core truth/version.rs, view.rs). *)
(* A truth list gives each of its ids a text.  A truth carried unchanged    *)
(* keeps its version; a changed or added one gets the number after the      *)
(* highest its id ever had, so evidence bound to an id and a version never  *)
(* comes to mean another text.                                              *)
(***************************************************************************)
EXTENDS Integers, FiniteSets

CONSTANTS TruthIds, NoText

\* The `truths` document before the first approval.
NoTruths == [truths |-> [i \in {} |-> NoText], kept |-> [i \in TruthIds |-> {}]]

\* Mutant: a re-added truth starts again, only the current list is read.
NextOfCurrent(doc, i) ==
    IF i \in DOMAIN doc.truths THEN doc.truths[i].version + 1 ELSE 1

\* One more than the highest version id i ever had, or 1.
NextVersion(doc, i) ==
    LET Held == {0} \cup doc.kept[i]
                \cup {doc.truths[j].version : j \in DOMAIN doc.truths \cap {i}}
    IN  1 + CHOOSE v \in Held : \A w \in Held : w <= v

\* versions: the version each truth of the list would be approved at.
Versions(doc, list) ==
    [i \in DOMAIN list |->
        [text |-> list[i],
         version |-> IF i \in DOMAIN doc.truths /\ doc.truths[i].text = list[i]
                     THEN doc.truths[i].version
                     ELSE NextVersion(doc, i)]]

\* TruthsProjector on story.refined: the list becomes current and every
\* version is kept.
Refined(given, doc) ==
    [truths |-> given,
     kept |-> [i \in TruthIds |->
                 doc.kept[i] \cup (IF i \in DOMAIN given THEN {given[i].version} ELSE {})]]

=============================================================================

----------------------------- MODULE Projection -----------------------------
(***************************************************************************)
(* What projectors make of a log: the documents of one generation of a     *)
(* project's views (baley-store-sqlite view.rs, fold and write_staged).    *)
(*                                                                         *)
(* An event puts or deletes the document of one key.  A body is abstracted *)
(* to what replay could get wrong: for each event, how often and by which  *)
(* projector version it was folded into the document since the document    *)
(* was last deleted.  A key whose body holds no event has no row.          *)
(***************************************************************************)
EXTENDS Integers, Sequences

CONSTANTS
    Keys,       \* document keys over all views
    Versions,   \* view set versions, each a binary's own
    MaxEvents   \* bound on the length of the log

ASSUME VersionsAssumption == Versions \subseteq Nat \ {0}
ASSUME MaxEventsAssumption == MaxEvents \in Nat

Seqs == 1..MaxEvents
NoRow == [i \in Seqs |-> <<>>]
NoRows == [k \in Keys |-> NoRow]
Docs == [Keys -> [Seqs -> Seq(Versions)]]

\* `ver` is the event's type version: a binary below it cannot read it.
Events == [key : Keys, op : {"put", "delete"}, ver : Versions]

Puts(log, i, k) == log[i].key = k /\ log[i].op = "put"
Deletes(log, i, k) == log[i].key = k /\ log[i].op = "delete"

\* The documents after the events in (a, b] are folded into docs by
\* projectors of version v: a command folds its own events this way, and
\* replay each batch.
Fold(docs, log, a, b, v) ==
    [k \in Keys |-> [i \in Seqs |->
        IF \E j \in (a + 1)..b : j > i /\ Deletes(log, j, k)
        THEN <<>>
        ELSE docs[k][i]
             \o (IF i \in (a + 1)..b /\ Puts(log, i, k)
                 THEN <<v>> ELSE <<>>)]]

\* The documents that projectors of version v make of the first n events.
Projected(log, n, v) == Fold(NoRows, log, 0, n, v)
=============================================================================

------------------------------- MODULE Views --------------------------------
(***************************************************************************)
(* What a project's views promise a reader (baley-store ledger.rs, the     *)
(* Views and Admin ports): one set of documents, always the whole log as   *)
(* one view set version's projectors make it.  Recording an event brings   *)
(* the documents along, and a change of version changes them all at once.  *)
(* Generations, markers, batches and cleanup are not visible here.         *)
(***************************************************************************)
EXTENDS Projection

VARIABLES
    log,      \* the project's events
    version,  \* the view set version readers see, 0 before the first
    view      \* the documents readers see

vars == <<log, version, view>>

Init ==
    /\ log = <<>>
    /\ version = 0
    /\ view = NoRows

Record(e) ==
    /\ version # 0
    /\ Len(log) < MaxEvents
    /\ log' = Append(log, e)
    /\ view' = Projected(log', Len(log'), version)
    /\ UNCHANGED version

Adopt(v) ==
    /\ log' = log
    /\ version' = v
    /\ view' = Projected(log, Len(log), v)

Next ==
    \/ \E e \in Events : Record(e)
    \/ \E v \in Versions : Adopt(v)

Spec == Init /\ [][Next]_vars
=============================================================================

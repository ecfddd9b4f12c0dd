----------------------------- MODULE Retention -----------------------------
(***************************************************************************)
(* Payload bodies and their references (baley-store-sqlite retention.rs,   *)
(* payload.rs, export.rs).  A body is stored once for all projects; each   *)
(* event that attaches it holds a reference of its own.  A reduction or a  *)
(* purge releases references of one project, and a body nobody requires    *)
(* any more becomes a tombstone.  Exports copy bodies out of the store's   *)
(* reach, and the bytes of a removed body stay in the file until a scrub   *)
(* completes.                                                              *)
(*                                                                         *)
(* Every command here is one transaction (see Claims for its request).  An *)
(* event attaches at most one body, and the command.completed event of     *)
(* each command is left out of the log.                                    *)
(***************************************************************************)
EXTENDS Integers, Sequences

CONSTANTS
    Projects,
    Outputs,     \* bodies longer than two excerpt edges
    Shorts,      \* the other bodies, excerpts among them
    Excerpt,     \* the first and last 64 KiB of an output, as a body
    Classes,     \* retention classes commands attach bodies under
    Readers,     \* processes that may hold a snapshot of the database open
    Exports,     \* runs of the export command
    Targets,     \* export target directories
    None,        \* no directory, report or project
    MaxLog       \* bound on the events of a project

Bodies == Outputs \cup Shorts

ASSUME BodiesAssumption ==
    /\ Outputs \cap Shorts = {}
    /\ Excerpt \in [Outputs -> Shorts]
    /\ Classes \subseteq {"record", "output", "material"}
ASSUME NoneAssumption == \A B \in SUBSET Bodies : None # B
ASSUME MaxLogAssumption == MaxLog \in Nat

VARIABLES
    body,     \* payload: the state of each body
    refs,     \* payload_ref
    log,      \* the events of each project
    marker,   \* scrub_pending in schema_meta
    residue,  \* purged bodies whose bytes may be in free pages or the WAL
    open,     \* the readers that hold a snapshot
    report,   \* the purge call of each project and what it reports
    export,   \* each export run and its export_record row
    disk      \* the bodies in each export target

store == <<body, refs, log, marker, residue>>
outside == <<export, disk>>
vars == <<store, open, report, outside>>

-----------------------------------------------------------------------------
Attached(h) == [type |-> "attached", hash |-> h]
Reduced(n, h) ==
    [type |-> "reduced", seq |-> n, original |-> h, excerpt |-> Excerpt[h]]

Ref(p, n, h, class) ==
    [project |-> p, seq |-> n, hash |-> h, class |-> class, released |-> 0]
Live(r) == r.released = 0

\* required: some project's unreleased reference needs body h.
Required(R, h) == \E r \in R : r.hash = h /\ Live(r)

\* R with the references in S released by event n.
Release(R, S, n) == (R \ S) \cup {[r EXCEPT !.released = n] : r \in S}

NextSeq(p) == Len(log[p]) + 1
Record(p, e) == Len(log[p]) < MaxLog /\ log' = [log EXCEPT ![p] = Append(@, e)]

NoExport == [pc |-> "idle", project |-> None, target |-> None,
             row |-> "none", head |-> 0]

Init ==
    /\ body = [h \in Bodies |-> "none"]
    /\ refs = {}
    /\ log = [p \in Projects |-> <<>>]
    /\ marker = FALSE
    /\ residue = {}
    /\ open = {}
    /\ report = [p \in Projects |-> None]
    /\ export = [e \in Exports |-> NoExport]
    /\ disk = [t \in Targets |-> None]

-----------------------------------------------------------------------------
(* Commands on bodies *)

\* Mutant: the same bytes bring a removed body back.
PutAgain(h) == {[body EXCEPT ![h] = "present"]}

\* put_payload: an absent body is stored, a present one is shared, and a
\* tombstone refuses the command. The tables a put may leave.
Put(h) ==
    IF body[h] \in {"none", "present"} THEN {[body EXCEPT ![h] = "present"]}
    ELSE {}

\* A command that attaches a body to its event.
Attach(p, h, class) ==
    /\ body' \in Put(h)
    /\ Record(p, Attached(h))
    /\ refs' = refs \cup {Ref(p, NextSeq(p), h, class)}
    /\ UNCHANGED <<marker, residue, open, report, outside>>

\* Mutant: another project's reference does not keep the body whole.
LastReferenceHere(p, R, h) == ~\E r \in R : r.project = p /\ r.hash = h /\ Live(r)

\* No reference of any project needs h whole after p's reduction.
LastReference(p, R, h) == ~Required(R, h)

\* reduce: one output reference is released for an excerpt of its body; the
\* body goes when that was the last reference to need it whole.
Reduce(p, r) ==
    LET h == r.hash
        n == NextSeq(p)
        R == Release(refs \cup {Ref(p, n, Excerpt[h], "record")}, {r}, n)
    IN  /\ r.project = p /\ r.class = "output" /\ Live(r)
        /\ h \in Outputs
        /\ body[h] = "present"
        /\ Record(p, Reduced(r.seq, h))
        /\ refs' = R
        /\ \E b \in Put(Excerpt[h]) :
              body' = IF LastReference(p, R, h)
                      THEN [b EXCEPT ![h] = "reduced"] ELSE b
        /\ UNCHANGED <<marker, residue, open, report, outside>>

\* What a purge of h by p releases: the project's references to h and those
\* its own reductions of h hold to the excerpt.
Own(p, h) ==
    {r \in refs :
        /\ r.project = p
        /\ Live(r)
        /\ \/ r.hash = h
           \/ LET e == log[p][r.seq]
              IN  e.type = "reduced" /\ e.original = h /\ e.excerpt = r.hash}

\* Mutant: an original survives the removal of its excerpt.
RemovedBodiesOnly(R, hashes) ==
    {h \in hashes : body[h] = "present" /\ ~Required(R, h)}

\* The loop of logical_purge: present bodies no longer required go, and with
\* an excerpt every original reduced to it. (An excerpt is never reduced.)
Removed(R, hashes) ==
    LET gone == {h \in hashes : body[h] = "present" /\ ~Required(R, h)}
    IN  gone \cup {h \in Outputs : /\ body[h] = "reduced"
                                   /\ Excerpt[h] \in gone
                                   /\ ~Required(R, h)}

\* Mutant: only exports that finished are looked at.
ReceivedFinished(R, b, e, h) ==
    /\ export[e].row = "kept"
    /\ \E r \in R :
        /\ r.project = export[e].project
        /\ r.hash = h \/ (b[r.hash] = "reduced" /\ Excerpt[r.hash] = h)
        /\ r.seq <= export[e].head
        /\ r.released = 0 \/ r.released > export[e].head

\* export_targets: the export received h, or an original now reduced to h,
\* by a reference live at its head; a pending one by any reference.
Received(R, b, e, h) ==
    \E r \in R :
        /\ r.project = export[e].project
        /\ r.hash = h \/ (b[r.hash] = "reduced" /\ Excerpt[r.hash] = h)
        /\ \/ export[e].row = "pending"
           \/ /\ export[e].row = "kept"
              /\ r.seq <= export[e].head
              /\ r.released = 0 \/ r.released > export[e].head

Unreachable(R, b, hashes) ==
    {export[e].target : e \in {e \in Exports :
        \E h \in hashes : Received(R, b, e, h)}}

Report(event, n, R, b) ==
    [pc |-> "scrub", seq |-> n, purged |-> event.removed, shared |-> event.shared,
     unreachable |-> Unreachable(R, b, event.removed \cup event.shared),
     scrubbed |-> FALSE]

\* The payload.purged event of p's purge of the requested hashes.
PurgedEvent(requested, own, removed) ==
    LET released == {r.hash : r \in own}
    IN  [type |-> "purged", requested |-> requested,
         released |-> {<<r.seq, r.hash>> : r \in own},
         removed |-> removed,
         shared |-> (released \ removed)
                        \cup {h \in requested \ removed : body[h] = "reduced"}]

\* logical_purge: one transaction, which also leaves the scrub's marker.
Purge(p, requested) ==
    LET n == NextSeq(p)
        own == UNION {Own(p, h) : h \in requested}
        R == Release(refs, own, n)
        removed == Removed(R, {r.hash : r \in own})
        b == [h \in Bodies |-> IF h \in removed THEN "purged" ELSE body[h]]
        event == PurgedEvent(requested, own, removed)
    IN  /\ report[p] = None
        /\ \A h \in requested : Own(p, h) # {}
        /\ Record(p, event)
        /\ refs' = R
        /\ body' = b
        /\ marker' = TRUE
        /\ residue' = residue \cup removed
        /\ report' = [report EXCEPT ![p] = Report(event, n, R, b)]
        /\ UNCHANGED <<open, outside>>

\* The same request again: its report is read from the event it recorded,
\* against the exports there are now.
ReplayPurge(p, n) ==
    /\ report[p] = None
    /\ log[p][n].type = "purged"
    /\ report' = [report EXCEPT ![p] = Report(log[p][n], n, refs, body)]
    /\ UNCHANGED <<store, open, outside>>

-----------------------------------------------------------------------------
(* The scrub: a purge runs it after its transaction, an owner on its own. *)

\* Mutant: the marker goes although the last checkpoint was busy.
ScrubIncompleteSettles ==
    /\ marker' = FALSE
    /\ UNCHANGED <<body, refs, log, residue>>

\* VACUUM failed, or a reader kept every truncating checkpoint busy.
ScrubIncomplete == UNCHANGED store

\* VACUUM and a truncating checkpoint nothing held back, then settle_scrub.
ScrubDone ==
    /\ open = {}
    /\ residue' = {}
    /\ marker' = FALSE
    /\ UNCHANGED <<body, refs, log>>

Scrub ==
    /\ ScrubDone \/ ScrubIncomplete
    /\ UNCHANGED <<open, report, outside>>

\* finish_purge: the scrub's result completes the report.
PurgeScrub(p) ==
    /\ report[p] # None
    /\ report[p].pc = "scrub"
    /\ \/ ScrubDone /\ report' = [report EXCEPT ![p].pc = "done",
                                                ![p].scrubbed = TRUE]
       \/ ScrubIncomplete /\ report' = [report EXCEPT ![p].pc = "done"]
    /\ UNCHANGED <<open, outside>>

\* The answer is read, or the process died before the scrub.
PurgeEnds(p) ==
    /\ report[p] # None
    /\ report' = [report EXCEPT ![p] = None]
    /\ UNCHANGED <<store, open, outside>>

\* A payload stream or another snapshot opens or closes.
Reader(i) ==
    /\ open' = IF i \in open THEN open \ {i} ELSE open \cup {i}
    /\ UNCHANGED <<store, report, outside>>

-----------------------------------------------------------------------------
(* Exports *)

\* export_with: the intent row before anything is created.
ExportBegin(e, p, t) ==
    /\ export[e].pc = "idle"
    /\ disk[t] = None
    /\ export' = [export EXCEPT ![e] = [pc |-> "copy", project |-> p,
                      target |-> t, row |-> "pending", head |-> 0]]
    /\ UNCHANGED <<store, open, report, disk>>

\* make_export: one snapshot of the bodies the project still references.
ExportCopy(e) ==
    LET p == export[e].project
        t == export[e].target
    IN  /\ export[e].pc = "copy"
        /\ disk[t] = None
        /\ disk' = [disk EXCEPT ![t] =
              {r.hash : r \in {r \in refs : r.project = p /\ Live(r)}}]
        /\ export' = [export EXCEPT ![e].pc = "settle", ![e].head = Len(log[p])]
        /\ UNCHANGED <<store, open, report>>

\* Mutant: any failed export removes the directory it was given.
ExportTakenRemoves(e) ==
    /\ export[e].pc = "copy"
    /\ disk[export[e].target] # None
    /\ disk' = [disk EXCEPT ![export[e].target] = None]
    /\ export' = [export EXCEPT ![e].pc = "forget"]
    /\ UNCHANGED <<store, open, report>>

\* Another export created the directory first: nothing of ours to remove.
ExportTaken(e) ==
    /\ export[e].pc = "copy"
    /\ disk[export[e].target] # None
    /\ export' = [export EXCEPT ![e].pc = "forget"]
    /\ UNCHANGED <<store, open, report, disk>>

\* The copy verified: its head makes the row final.
ExportSettle(e) ==
    /\ export[e].pc = "settle"
    /\ export' = [export EXCEPT ![e].pc = "done", ![e].row = "kept"]
    /\ UNCHANGED <<store, open, report, disk>>

\* The copy failed: it is removed if it can be, and only then its row.
ExportFails(e) ==
    /\ export[e].pc = "settle"
    /\ \/ /\ disk' = [disk EXCEPT ![export[e].target] = None]
          /\ export' = [export EXCEPT ![e].pc = "forget"]
       \/ /\ export' = [export EXCEPT ![e].pc = "done"]
          /\ UNCHANGED disk
    /\ UNCHANGED <<store, open, report>>

ExportForget(e) ==
    /\ export[e].pc = "forget"
    /\ export' = [export EXCEPT ![e].pc = "done", ![e].row = "none"]
    /\ UNCHANGED <<store, open, report, disk>>

\* The exporting process dies: row and directory stay as they are.
ExportDies(e) ==
    /\ export[e].pc \in {"copy", "settle", "forget"}
    /\ export' = [export EXCEPT ![e].pc = "done"]
    /\ UNCHANGED <<store, open, report, disk>>

-----------------------------------------------------------------------------
Next ==
    \/ Scrub
    \/ \E i \in Readers : Reader(i)
    \/ \E p \in Projects :
        \/ \E h \in Bodies, class \in Classes : Attach(p, h, class)
        \/ \E r \in refs : Reduce(p, r)
        \/ \E H \in SUBSET Bodies \ {{}} : Purge(p, H)
        \/ \E n \in DOMAIN log[p] : ReplayPurge(p, n)
        \/ PurgeScrub(p)
        \/ PurgeEnds(p)
    \/ \E e \in Exports :
        \/ \E p \in Projects, t \in Targets : ExportBegin(e, p, t)
        \/ ExportCopy(e) \/ ExportTaken(e) \/ ExportSettle(e)
        \/ ExportFails(e) \/ ExportForget(e) \/ ExportDies(e)

Spec == Init /\ [][Next]_vars

-----------------------------------------------------------------------------
(* Properties *)

\* Every reference names an event of its project and a body in the payload
\* table, and is released by a later event of that project.
TypeOK ==
    /\ body \in [Bodies -> {"none", "present", "reduced", "purged"}]
    /\ \A r \in refs :
        /\ r.project \in Projects
        /\ r.hash \in Bodies
        /\ r.class \in {"record", "output", "material"}
        /\ r.seq \in DOMAIN log[r.project]
        /\ r.released = 0 \/ r.released \in (r.seq + 1)..Len(log[r.project])
    /\ marker \in BOOLEAN
    /\ residue \subseteq Bodies
    /\ \A t \in Targets : disk[t] = None \/ disk[t] \subseteq Bodies

\* A body is stored whole exactly while some project's reference requires
\* it: one project's reduction or purge never takes a body from another, and
\* none is left behind.
BodyFollowsReferences ==
    \A h \in Bodies : body[h] = "present" <=> Required(refs, h)

\* A reduced body still has its excerpt, whoever else shares that excerpt and
\* purges it.
ReducedKeepsExcerpt ==
    \A h \in Outputs :
        body[h] = "reduced" => body[Excerpt[h]] = "present"

\* Event n of project p names the reference <<seq, hash>> as one it releases.
Names(p, n, seq, hash) ==
    LET e == log[p][n]
    IN  \/ e.type = "reduced" /\ e.seq = seq /\ e.original = hash
        \/ e.type = "purged" /\ <<seq, hash>> \in e.released

\* payload_ref.released_seq can be rebuilt from events alone: it is the one
\* event of the project that names the reference.
ReleasesFromLog ==
    \A r \in refs :
        \A n \in DOMAIN log[r.project] :
            Names(r.project, n, r.seq, r.hash) <=> n = r.released

\* There is no way back from a tombstone: a body that was reduced or purged
\* is never whole again, and a purged one is not reduced.
TombstonesStay ==
    [][\A h \in Bodies :
        /\ body[h] = "purged" => body'[h] = "purged"
        /\ body[h] = "reduced" => body'[h] \in {"reduced", "purged"}]_body

\* A purge report, replayed or new, names every export directory that holds
\* one of the bodies it removed or found shared: no export under way,
\* crashed or failed escapes it.
CopiesListed ==
    [][\A p \in Projects :
        report[p] = None /\ report'[p] # None =>
            \A t \in Targets :
                /\ disk[t] # None
                /\ disk[t] \cap (report'[p].purged \cup report'[p].shared) # {}
                => t \in report'[p].unreachable]_report

\* A finished export's row tells what its directory holds, the bodies its
\* project referenced at the row's head, and stays true: no other run that
\* was given the same directory takes the copy away or leaves its own there.
RowTellsCopy ==
    \A e \in Exports :
        export[e].row = "kept" =>
            disk[export[e].target] =
                {r.hash : r \in {r \in refs :
                    /\ r.project = export[e].project
                    /\ r.seq <= export[e].head
                    /\ r.released = 0 \/ r.released > export[e].head}}

\* Until the bytes of every purged body are out of the file the marker says
\* so, and a report of a complete scrub is true of the bodies it removed.
ScrubAccounted ==
    /\ residue # {} => marker
    /\ \A p \in Projects :
        report[p] # None /\ report[p].scrubbed =>
            report[p].purged \cap residue = {}

\* The references and the scrub's marker as later commands rely on them.
RetentionInv == TypeOK /\ ReleasesFromLog /\ ScrubAccounted

\* PurgeReport.shared: every hash a purge was asked for whose body is still
\* required by another reference is reported as kept.
KeptIsReported ==
    \A p \in Projects :
        \A n \in DOMAIN log[p] :
            log[p][n].type = "purged" =>
                \A h \in log[p][n].requested :
                    body[h] = "present" => h \in log[p][n].shared
=============================================================================

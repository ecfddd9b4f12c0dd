------------------------------ MODULE Rebuild -------------------------------
(***************************************************************************)
(* The generations of one project's views (baley-store-sqlite rebuild.rs   *)
(* and view.rs): commands fold into the live generation while a rebuild or *)
(* a verification replays the log into another one, batch by batch.        *)
(*                                                                         *)
(* Every batch, and every command, is one write transaction under the      *)
(* writer queue and one step here.  A rebuild or verification holds the    *)
(* maintenance lock from its first step to its last, so at most one is     *)
(* under way: `session` is its process's local state.  Commands never take *)
(* that lock.  A crash loses the session and nothing else.  A process runs *)
(* a binary of one view set version and is a normal store, or a guard      *)
(* store, which never takes the lock.                                      *)
(***************************************************************************)
EXTENDS Projection, FiniteSets

CONSTANTS
    Procs,        \* processes with the ledger open
    Guards,       \* those that opened it as a guard store
    Version,      \* the view set version of each process's binary
    None,         \* no process
    BatchEvents,  \* BATCH_EVENTS
    BatchRows,    \* BATCH_ROWS
    MaxGen        \* the highest generation number

ASSUME GuardsAssumption == Guards \subseteq Procs
ASSUME VersionAssumption == Version \in [Procs -> Versions]
ASSUME NoneAssumption == None \notin Procs
ASSUME BatchAssumption ==
    BatchEvents \in Nat \ {0} /\ BatchRows \in Nat \ {0}
ASSUME MaxGenAssumption == MaxGen \in Nat

VARIABLES
    log,       \* the event table
    live,      \* project_gen.live_gen, NoGen while there is no row
    building,  \* project_gen.building_gen, NoGen for null
    applied,   \* project_gen.building_applied_seq
    docs,      \* the view tables' rows, by generation
    stamp,     \* view_gen: a generation's view set version, 0 unstamped
    session,   \* the rebuild or verification under way
    differing  \* the keys the latest comparison reported

vars == <<log, live, building, applied, docs, stamp, session, differing>>
views == <<live, building, applied, docs, stamp>>

-----------------------------------------------------------------------------
Gens == 0..MaxGen
NoGen == -1

\* generations: the live generation counts as 0 before there is a row.
LiveOrZero == IF live = NoGen THEN 0 ELSE live

Rows(g) == {k \in Keys : docs[g][k] # NoRow}
Stored == {g \in Gens : stamp[g] # 0 \/ Rows(g) # {}}

Steps == {"ready", "stamp", "start", "orphan", "presweep", "create",
          "replay", "pin", "remove", "postsweep"}
Wants == {"rebuild", "verify", "catch_up"}

\* No session, and how the last one ended.
Idle(result) ==
    [pc |-> "idle", proc |-> None, want |-> result, doing |-> "none",
     gen |-> NoGen, after |-> NoGen]

\* A session: what its caller asked for (want), what it is now building for
\* (doing), the generation it works on and the sweep's cursor.
Sessions ==
    [pc : Steps, proc : Procs, want : Wants, doing : {"rebuild", "verify"},
     gen : Gens \cup {NoGen}, after : Gens \cup {NoGen}]

Readable(p, i) == log[i].ver <= Version[p]

\* judge_set: what the live views are to p's binary.
JudgeSet(p) ==
    IF live = NoGen THEN IF log = <<>> THEN "unstamped" ELSE "behind"
    ELSE IF stamp[live] > Version[p] THEN "newer"
    ELSE IF stamp[live] # Version[p] THEN "behind"
    ELSE "current"

-----------------------------------------------------------------------------
Init ==
    /\ log = <<>>
    /\ live = NoGen
    /\ building = NoGen
    /\ applied = 0
    /\ docs = [g \in Gens |-> NoRows]
    /\ stamp = [g \in Gens |-> 0]
    /\ session = Idle("none")
    /\ differing = {}

\* Mutant: a new command is not fenced on the live view set.
CommandUnfenced(p, e) ==
    /\ live # NoGen /\ stamp[live] # 0
    /\ \A i \in DOMAIN log : Readable(p, i)
    /\ e.ver <= Version[p]
    /\ Len(log) < MaxEvents
    /\ log' = Append(log, e)
    /\ docs' = [docs EXCEPT ![live] =
                    Fold(@, log', Len(log), Len(log'), Version[p])]
    /\ UNCHANGED <<live, building, applied, stamp, session, differing>>

\* A new command of p: fenced on the live views and on every stored event,
\* it appends its event and folds it into the live generation.
Command(p, e) ==
    /\ JudgeSet(p) = "current"
    /\ \A i \in DOMAIN log : Readable(p, i)
    /\ e.ver <= Version[p]
    /\ Len(log) < MaxEvents
    /\ log' = Append(log, e)
    /\ docs' = [docs EXCEPT ![live] =
                    Fold(@, log', Len(log), Len(log'), Version[p])]
    /\ UNCHANGED <<live, building, applied, stamp, session, differing>>

\* stamp_empty, rechecked under the queue.
StampEmpty(p) ==
    IF live = NoGen /\ log = <<>>
    THEN /\ live' = 0
         /\ stamp' = [stamp EXCEPT ![0] = Version[p]]
         /\ UNCHANGED <<log, building, applied, docs>>
    ELSE UNCHANGED <<log, views>>

\* catch_up on a guard store stamps an empty project without the
\* maintenance lock; views behind are answered NeedsRebuild.
GuardStamps(p) ==
    /\ p \in Guards
    /\ JudgeSet(p) = "unstamped"
    /\ StampEmpty(p)
    /\ UNCHANGED <<session, differing>>

-----------------------------------------------------------------------------
(* Sessions: the maintenance lock is held while session.pc # "idle" *)

Begin(p, want, pc) ==
    /\ p \notin Guards
    /\ session.pc = "idle"
    /\ session' = [pc |-> pc, proc |-> p, want |-> want, doing |-> "rebuild",
                   gen |-> NoGen, after |-> NoGen]
    /\ UNCHANGED <<log, views, differing>>

\* Admin::rebuild.
BeginRebuild(p) == Begin(p, "rebuild", "start")

\* Admin::verify_views, which brings the views forward first.
BeginVerify(p) == Begin(p, "verify", "ready")

\* catch_up of a read or a command that found the views not current.
BeginCatchUp(p) ==
    /\ JudgeSet(p) \in {"unstamped", "behind"}
    /\ Begin(p, "catch_up", "ready")

At(pc) == session.pc = pc /\ UNCHANGED <<log, differing>>

GoTo(pc) == session' = [session EXCEPT !.pc = pc]

\* The session is dropped, and the maintenance lock with it.
End(result) == session' = Idle(result)

\* The views are this binary's: a verification goes on to its own build.
Forwarded ==
    IF session.want = "verify"
    THEN session' = [session EXCEPT !.pc = "start", !.doing = "verify",
                                    !.gen = NoGen, !.after = NoGen]
    ELSE End("forwarded")

\* bring_current_held: judged in a read snapshot.
Ready ==
    /\ At("ready")
    /\ CASE JudgeSet(session.proc) = "current" -> Forwarded
         [] JudgeSet(session.proc) = "newer" -> End("failed")
         [] JudgeSet(session.proc) = "unstamped" -> GoTo("stamp")
         [] JudgeSet(session.proc) = "behind" -> GoTo("start")
    /\ UNCHANGED views

Stamp ==
    /\ At("stamp")
    /\ StampEmpty(session.proc)
    /\ Forwarded

\* start's first batch: the fence, and the marker a crash left.
Start ==
    LET fence == JudgeSet(session.proc) IN
    /\ At("start")
    /\ IF \/ fence = "newer"
          \/ session.doing = "verify" /\ (fence # "current" \/ building # NoGen)
       THEN End("failed")
       ELSE session' = [session EXCEPT
                !.gen = building,
                !.pc = IF session.doing = "verify" THEN "create"
                       ELSE IF building # NoGen THEN "orphan"
                       ELSE "presweep"]
    /\ UNCHANGED views

\* Mutant: the last batch of a removal leaves the stamps.
RemoveRowsKeepStamp(g, R, done, marker) ==
    /\ g # LiveOrZero
    /\ R \subseteq Rows(g)
    /\ Cardinality(R) <= BatchRows
    /\ R = {} => done
    /\ done => R = Rows(g) /\ Cardinality(R) < BatchRows
    /\ docs' = [docs EXCEPT ![g] =
                    [k \in Keys |-> IF k \in R THEN NoRow ELSE @[k]]]
    /\ UNCHANGED stamp
    /\ LET cleared == done /\ marker /\ building = g IN
       /\ building' = IF cleared THEN NoGen ELSE building
       /\ applied' = IF cleared THEN 0 ELSE applied
    /\ UNCHANGED live

\* One batch of remove_rows on generation g: it deletes the rows R and, if
\* it is done, the stamps and with `marker` the marker naming g. It stops
\* after BatchRows rows, or when its time is up once it removed one. The
\* live generation is refused.
RemoveRows(g, R, done, marker) ==
    /\ g # LiveOrZero
    /\ R \subseteq Rows(g)
    /\ Cardinality(R) <= BatchRows
    /\ R = {} => done
    /\ done => R = Rows(g) /\ Cardinality(R) < BatchRows
    /\ docs' = [docs EXCEPT ![g] =
                    [k \in Keys |-> IF k \in R THEN NoRow ELSE @[k]]]
    /\ stamp' = IF done THEN [stamp EXCEPT ![g] = 0] ELSE stamp
    /\ LET cleared == done /\ marker /\ building = g IN
       /\ building' = IF cleared THEN NoGen ELSE building
       /\ applied' = IF cleared THEN 0 ELSE applied
    /\ UNCHANGED live

\* A rebuild first removes the generation a crash left.
RemoveOrphan(R, done) ==
    /\ At("orphan")
    /\ RemoveRows(session.gen, R, done, TRUE)
    /\ IF done THEN GoTo("presweep") ELSE UNCHANGED session

\* sweep: the generations above its cursor that are neither live nor being
\* built, lowest first.
Sweepable ==
    {g \in Stored : g > session.after /\ g \notin {LiveOrZero, building}}

Sweep(g, R, done) ==
    /\ session.pc \in {"presweep", "postsweep"}
    /\ g \in Sweepable
    /\ \A h \in Sweepable : g <= h
    /\ RemoveRows(g, R, done, FALSE)
    /\ session' = IF done THEN [session EXCEPT !.after = g] ELSE session
    /\ UNCHANGED <<log, differing>>

Swept ==
    /\ session.pc \in {"presweep", "postsweep"}
    /\ Sweepable = {}
    /\ IF session.pc = "presweep" THEN GoTo("create")
       ELSE IF session.want = "rebuild" THEN End("rebuilt")
       ELSE Forwarded
    /\ UNCHANGED <<log, views, differing>>

\* Mutant: the lowest number nothing is stored in.
IsNextGenerationLowest(n) ==
    /\ n \notin Stored \cup {LiveOrZero}
    /\ \A g \in 0..(n - 1) : g \in Stored \cup {LiveOrZero}

\* next_generation: one above the live one and every one still stored.
IsNextGeneration(n) ==
    /\ n - 1 \in Stored \cup {LiveOrZero}
    /\ \A g \in Stored \cup {LiveOrZero} : g < n

\* start's last batch: the marker and the stamps of the new generation.
Create(n) ==
    /\ At("create")
    /\ IsNextGeneration(n)
    /\ live' = LiveOrZero
    /\ building' = n
    /\ applied' = 0
    /\ stamp' = [stamp EXCEPT ![n] = Version[session.proc]]
    /\ session' = [session EXCEPT !.pc = "replay", !.gen = n]
    /\ UNCHANGED docs

\* No generation number is left.
CreateFails ==
    /\ At("create")
    /\ IsNextGeneration(MaxGen + 1)
    /\ End("failed")
    /\ UNCHANGED views

\* Mutant: a batch that finds no event is not taken for caught up.
ReplayNeedsEvent(last) ==
    /\ building = session.gen
    /\ last \in (applied + 1)..Len(log)
    /\ last - applied <= BatchEvents
    /\ \A i \in (applied + 1)..last : Readable(session.proc, i)
    /\ docs' = [docs EXCEPT ![building] =
                    Fold(@, log, applied, last, Version[session.proc])]
    /\ UNCHANGED stamp

\* replay: the events in (applied, last], at least one if any is left, each
\* readable by this binary, folded into the generation being built. The
\* caller says what becomes of the marker.
Replay(last) ==
    /\ building = session.gen
    /\ last \in applied..Len(log)
    /\ last - applied <= BatchEvents
    /\ last = applied => applied = Len(log)
    /\ \A i \in (applied + 1)..last : Readable(session.proc, i)
    /\ docs' = [docs EXCEPT ![building] =
                    Fold(@, log, applied, last, Version[session.proc])]
    /\ UNCHANGED stamp

\* A batch of finish, or of compare's first loop, that leaves a tail.
ReplayBatch(last) ==
    /\ At("replay")
    /\ Replay(last)
    /\ last < Len(log)
    /\ applied' = last
    /\ UNCHANGED <<live, building, session>>

\* Each sweep starts with a cursor of its own.
Postsweep == session' = [session EXCEPT !.pc = "postsweep", !.after = NoGen]

\* Mutant: the flip uses the head an earlier turn read.
FinishStaleHead(last) ==
    /\ At("replay")
    /\ session.doing = "rebuild"
    /\ Replay(last)
    /\ last >= Len(log) - 1
    /\ live' = building
    /\ building' = NoGen
    /\ applied' = 0
    /\ Postsweep

\* The turn of finish that reaches the head makes the generation live.
Finish(last) ==
    /\ At("replay")
    /\ session.doing = "rebuild"
    /\ Replay(last)
    /\ last = Len(log)
    /\ live' = building
    /\ building' = NoGen
    /\ applied' = 0
    /\ Postsweep

\* compare's first loop has reached the head once.
CaughtUp(last) ==
    /\ At("replay")
    /\ session.doing = "verify"
    /\ Replay(last)
    /\ last = Len(log)
    /\ applied' = last
    /\ GoTo("pin")
    /\ UNCHANGED <<live, building>>

\* Mutant: the snapshot is pinned by a turn that did not reach the head.
PinAnywhere(last) ==
    /\ session.pc = "pin"
    /\ Replay(last)
    /\ applied' = last
    /\ differing' = {k \in Keys : docs'[building][k] # docs[live][k]}
    /\ GoTo("remove")
    /\ UNCHANGED <<log, live, building>>

\* compare's second loop: the turn that reaches the head pins the snapshot
\* the generations are compared in, before it releases the queue.
Pin(last) ==
    /\ session.pc = "pin"
    /\ Replay(last)
    /\ applied' = last
    /\ IF last = Len(log)
       THEN /\ differing' = {k \in Keys : docs'[building][k] # docs[live][k]}
            /\ GoTo("remove")
       ELSE UNCHANGED <<differing, session>>
    /\ UNCHANGED <<log, live, building>>

\* A failed replay: a verification still removes its scratch generation.
AbandonReplay ==
    /\ session.pc \in {"replay", "pin"}
    /\ IF session.doing = "verify" THEN GoTo("remove") ELSE End("failed")
    /\ UNCHANGED <<log, views, differing>>

\* The batch meets an event this binary cannot read.
ReplayUnreadable ==
    /\ AbandonReplay
    /\ \E i \in (applied + 1)..Len(log) :
          i <= applied + BatchEvents /\ ~Readable(session.proc, i)

\* verify_views removes its scratch generation and the marker.
RemoveScratch(R, done) ==
    /\ At("remove")
    /\ RemoveRows(session.gen, R, done, TRUE)
    /\ IF done THEN End("verified") ELSE UNCHANGED session

\* The process dies, or a batch outside replay fails: the lock is released
\* and what the session wrote stays.
Crash ==
    /\ session.pc # "idle"
    /\ End("failed")
    /\ UNCHANGED <<log, views, differing>>

RemovalStep ==
    \E R \in SUBSET Keys, done \in BOOLEAN :
        \/ RemoveOrphan(R, done)
        \/ \E g \in Gens : Sweep(g, R, done)
        \/ RemoveScratch(R, done)

ReplayStep ==
    \E last \in 0..Len(log) :
        \/ ReplayBatch(last)
        \/ Finish(last)
        \/ CaughtUp(last)
        \/ Pin(last)

\* One step of the session that is not a failure of storage.
SessionStep ==
    \/ Ready
    \/ Stamp
    \/ Start
    \/ RemovalStep
    \/ Swept
    \/ \E n \in Gens : Create(n)
    \/ CreateFails
    \/ ReplayStep
    \/ ReplayUnreadable

Next ==
    \/ \E p \in Procs, e \in Events : Command(p, e)
    \/ \E p \in Procs : GuardStamps(p)
    \/ \E p \in Procs : BeginRebuild(p) \/ BeginVerify(p) \/ BeginCatchUp(p)
    \/ SessionStep
    \/ AbandonReplay
    \/ Crash

Spec == Init /\ [][Next]_vars

\* A process under way with a rebuild or verification takes its next step;
\* it may also crash or fail, and no command ever has to come.
FairSpec == Spec /\ WF_vars(SessionStep)

-----------------------------------------------------------------------------
(* Properties *)

\* Every variable keeps its type. A session's record stays within the steps
\* of rebuild and verify_views and an idle one holds no lock, generation or
\* sweep cursor.
TypeOK ==
    /\ log \in Seq(Events) /\ Len(log) <= MaxEvents
    /\ live \in Gens \cup {NoGen}
    /\ building \in Gens \cup {NoGen}
    /\ applied \in 0..MaxEvents
    /\ docs \in [Gens -> Docs]
    /\ stamp \in [Gens -> Versions \cup {0}]
    /\ \/ session \in Sessions
       \/ \E result \in {"none", "forwarded", "rebuilt", "verified", "failed"} :
             session = Idle(result)
    /\ differing \subseteq Keys

\* The live generation holds exactly the whole log as its stamped version's
\* projectors make it, each event folded once: no command is lost across a
\* flip, folded twice or cut by a removal.
LiveIsProjected ==
    live # NoGen /\ stamp[live] # 0 =>
        docs[live] = Projected(log, Len(log), stamp[live])

\* While a session builds, its generation is the marker's, is not the live
\* one and holds exactly the events up to the marker's sequence, so the next
\* batch and the flip may go on from there.
BuildingIsPrefix ==
    session.pc \in {"replay", "pin"} =>
        /\ building = session.gen
        /\ building # live
        /\ stamp[building] = Version[session.proc]
        /\ applied <= Len(log)
        /\ docs[building] = Projected(log, applied, stamp[building])

\* The generations as readers and a resuming session rely on them.
GenerationsInv == TypeOK /\ LiveIsProjected /\ BuildingIsPrefix

\* A verification of views built by this code reports no key, whatever
\* commands ran while it replayed and however its turns were cut.
VerifyFindsNoDifference == differing = {}

\* A rebuild that reports success has left no other generation behind, an
\* earlier crash's included; and no generation without a marker is ever
\* stored above the live one, so cleanup that failed is only older rows.
OneGenerationLeft ==
    /\ session = Idle("rebuilt") => Stored \subseteq {live}
    /\ \A g \in Stored : g <= LiveOrZero \/ g = building

\* The live generation's number never comes back: a flip always moves it
\* up, across crashes, removals and reused scratch numbers, so a cursor
\* issued under one generation never matches a later one.
LiveGenerationGrows == [][live' >= live]_live

\* A rebuild or verification that started ends, with or without success: no
\* phase waits for something that cannot come.
SessionEnds == session.pc # "idle" ~> session.pc = "idle"

\* The views readers see never go back to an older binary's version.
ViewsNeverGoBackward ==
    [][live # NoGen => stamp'[live'] >= stamp[live]]_<<live, stamp>>

-----------------------------------------------------------------------------
(* What readers see of the generations *)

ReadersVersion == IF live = NoGen THEN 0 ELSE stamp[live]
ReadersView == IF live = NoGen THEN NoRows ELSE docs[live]

Promise == INSTANCE Views WITH version <- ReadersVersion, view <- ReadersView

\* Generations, markers, batches, crashes and cleanup are invisible: readers
\* see one set of documents that follows the log and changes version whole.
RefinesViews == Promise!Spec
=============================================================================

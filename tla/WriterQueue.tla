---------------------------- MODULE WriterQueue ----------------------------
(***************************************************************************)
(* The writer queue, the maintenance lock and the guard's deadline         *)
(* (baley-store-sqlite queue.rs, and store.rs and rebuild.rs where they    *)
(* take them).  A FileLock is an in-process mutex and then flock on one    *)
(* open file; flock belongs to the open file, so a store that holds it is  *)
(* granted it again.  A write takes the queue, then the store's write      *)
(* connection, then BEGIN IMMEDIATE.  A rebuild or a verification holds    *)
(* the maintenance lock and takes the queue once per batch.  The store of  *)
(* a guard call blocks on nothing: it tries, pauses and gives up at its    *)
(* deadline, and it never takes the maintenance lock (rebuild.rs           *)
(* catch_up).                                                              *)
(*                                                                         *)
(* A store has its own open files, mutexes and connection, and its process *)
(* may be killed at any step.  What a transaction writes is in the other   *)
(* modules; here it is only held and ended, by commit or by rollback.      *)
(***************************************************************************)
EXTENDS Integers

CONSTANTS
    Threads,     \* threads that call a store
    Stores,      \* opened stores
    StoreOf,     \* the store each thread uses
    GuardStores, \* the stores opened with a guard storage time
    Mortal,      \* the stores whose process may be killed
    None,        \* no thread, no store
    StorageTimes,\* storage times a guard may be granted (guard_budget.rs)
    StorageCap,  \* GUARD_STORAGE_CAP
    RetryPause,  \* RETRY_PAUSE
    MaxTime      \* bound on the clock

ASSUME StoresAssumption ==
    /\ StoreOf \in [Threads -> Stores]
    /\ GuardStores \subseteq Stores
    /\ Mortal \subseteq Stores
    /\ None \notin Threads \cup Stores
ASSUME TimesAssumption ==
    /\ StorageTimes \subseteq Nat
    /\ StorageCap \in Nat
    /\ RetryPause \in Nat \ {0}
    /\ MaxTime \in Nat

Locks == {"queue", "maintenance"}
Guards == {t \in Threads : StoreOf[t] \in GuardStores}
Writers == Threads \ Guards

VARIABLES
    pc,        \* where each thread is in the code
    job,       \* what it was called for
    want,      \* the lock or connection it is taking or releasing
    mutex,     \* FileLock.local of each lock and store: its owner
    flock,     \* the store whose open file holds each lock
    conn,      \* SqliteStore.writer: the owner of the write connection
    tx,        \* the thread inside BEGIN IMMEDIATE
    clock,     \* Timing::now
    deadline,  \* SqliteStore.deadline of each guard store
    until,     \* the end of a guard's pause
    reading,   \* the latest clock reading of each guard
    taken,     \* history: when a guard took its connection
    woken,     \* the threads each batch's release woke, until one has a turn
    answer     \* history: what the thread's latest call came to

locks == <<mutex, flock, conn, tx>>
timing == <<clock, deadline, until, reading, taken>>
vars == <<pc, job, want, locks, timing, woken, answer>>

Least(a, b) == IF a < b THEN a ELSE b
Left(t) ==                                      \* deadline.saturating_sub
    LET d == deadline[StoreOf[t]] IN IF d > clock THEN d - clock ELSE 0

-----------------------------------------------------------------------------
Points ==
    {"closed", "idle", "mutex", "file", "decide", "blocked", "try", "half",
     "pause", "conn", "check", "begin", "tx", "drop", "dropping", "rest",
     "between", "exit", "done", "gone"}

\* Where a thread is before it is called: a guard store is not open yet.
StartOf(t) == IF t \in Guards THEN "closed" ELSE "idle"

\* Nothing is held and nobody was called; threads are at their points of `at`, at `time`.
AtRest(at, time) ==
    /\ pc = at
    /\ job = [t \in Threads |-> "none"]
    /\ want = [t \in Threads |-> "queue"]
    /\ mutex = [l \in Locks |-> [s \in Stores |-> None]]
    /\ flock = [l \in Locks |-> None]
    /\ conn = [s \in Stores |-> None]
    /\ tx = None
    /\ clock = time
    /\ deadline = [s \in Stores |-> 0]
    /\ until = [t \in Threads |-> 0]
    /\ reading = [t \in Threads |-> 0]
    /\ taken = [t \in Threads |-> 0]
    /\ woken = [t \in Threads |-> {}]
    /\ answer = [t \in Threads |-> "none"]

Init == AtRest([t \in Threads |-> StartOf(t)], 0)

\* Thread t moves to point p.
Go(t, p) == pc' = [pc EXCEPT ![t] = p]
\* Thread t moves from point p to point q.
Step(t, p, q) == pc[t] = p /\ Go(t, q)

\* The threads of normal stores that the end of thread t's queue turn lets
\* go on: the ones the kernel parked on the file, and the ones at a mutex
\* nobody but t holds.
Waiting(t) ==
    {u \in Writers \ {t} :
        /\ want[u] = "queue"
        /\ \/ pc[u] = "file"
           \/ pc[u] = "mutex" /\ mutex["queue"][StoreOf[u]] \in {None, t}}

\* The thread's next call returns at once: what it waits for is free.
Ready(t) ==
    \/ pc[t] = "mutex" /\ mutex[want[t]][StoreOf[t]] = None
    \/ pc[t] = "file" /\ flock[want[t]] \in {None, StoreOf[t]}

-----------------------------------------------------------------------------
(* Calls *)

\* write and maintenance on a normal store.
StartWrite(t) ==
    /\ t \in Writers
    /\ Step(t, "idle", "mutex")
    /\ job' = [job EXCEPT ![t] = "write"]
    /\ want' = [want EXCEPT ![t] = "queue"]
    /\ answer' = [answer EXCEPT ![t] = "none"]
    /\ UNCHANGED <<locks, timing, woken>>

\* start_rebuild, verify_views and bring_current: the maintenance lock first.
StartRebuild(t) ==
    /\ t \in Writers
    /\ Step(t, "idle", "mutex")
    /\ job' = [job EXCEPT ![t] = "rebuild"]
    /\ want' = [want EXCEPT ![t] = "maintenance"]
    /\ answer' = [answer EXCEPT ![t] = "none"]
    /\ UNCHANGED <<locks, timing, woken>>

\* SqliteStore::open for a guard, then a write by each of its threads. The
\* deadline is guard_deadline of the reading at open.
Open(s, time) ==
    /\ s \in GuardStores
    /\ clock + Least(time, StorageCap) <= MaxTime
    /\ \A t \in Threads : StoreOf[t] = s => pc[t] = "closed"
    /\ pc' = [t \in Threads |-> IF StoreOf[t] = s THEN "decide" ELSE pc[t]]
    /\ job' = [t \in Threads |-> IF StoreOf[t] = s THEN "write" ELSE job[t]]
    /\ deadline' = [deadline EXCEPT ![s] = clock + Least(time, StorageCap)]
    /\ UNCHANGED <<want, locks, clock, until, reading, taken, woken, answer>>

\* exit_checkpoint_running: a free connection, no queue turn, no wait.
CheckpointAtExit(t) ==
    /\ pc[t] \in {"idle", "done"}
    /\ conn[StoreOf[t]] = None
    /\ Go(t, "exit")
    /\ conn' = [conn EXCEPT ![StoreOf[t]] = t]
    /\ UNCHANGED <<job, want, mutex, flock, tx, timing, woken, answer>>

CheckpointEnds(t) ==
    /\ Step(t, "exit", IF t \in Guards THEN "done" ELSE "idle")
    /\ conn' = [conn EXCEPT ![StoreOf[t]] = None]
    /\ UNCHANGED <<job, want, mutex, flock, tx, timing, woken, answer>>

-----------------------------------------------------------------------------
(* FileLock::wait: the mutex, then flock, both without a timeout *)

LockMutex(t) ==
    /\ mutex[want[t]][StoreOf[t]] = None
    /\ Step(t, "mutex", "file")
    /\ mutex' = [mutex EXCEPT ![want[t]][StoreOf[t]] = t]
    /\ UNCHANGED <<job, want, flock, conn, tx, timing, woken, answer>>

\* The file lock of l passes to thread t; a batch owes nobody a turn once
\* another thread had one.
GrantFile(t, l) ==
    /\ flock[l] \in {None, StoreOf[t]}
    /\ flock' = [flock EXCEPT ![l] = StoreOf[t]]
    /\ woken' = IF l = "queue"
               THEN [u \in Threads |-> IF u = t THEN woken[t] ELSE {}]
               ELSE woken

LockFile(t) ==
    /\ Step(t, "file", IF want[t] = "queue" THEN "conn" ELSE "between")
    /\ GrantFile(t, want[t])
    /\ UNCHANGED <<job, want, mutex, conn, tx, timing, answer>>

-----------------------------------------------------------------------------
(* acquire on a guard store: decide on a clock reading, try, pause *)

\* Mutant: a guard whose time is spent tries once more.
NextAgain(blocked, remaining) ==
    CASE blocked ->
            [step |-> "retry", pause |-> Least(RetryPause, remaining)]
      [] OTHER -> [step |-> "try", pause |-> 0]

\* queue::next for a store with a deadline.
NextStep(blocked, remaining) ==
    CASE remaining = 0 -> [step |-> "busy", pause |-> 0]
      [] remaining > 0 /\ blocked ->
            [step |-> "retry", pause |-> Least(RetryPause, remaining)]
      [] OTHER -> [step |-> "try", pause |-> 0]

\* One turn of acquire's loop up to what `next` directs. A guard that gives
\* up at the connection still has its queue turn to release.
Decide(t) ==
    LET n == NextStep(pc[t] = "blocked", Left(t)) IN
    /\ pc[t] \in {"decide", "blocked"}
    /\ reading' = [reading EXCEPT ![t] = clock]
    /\ until' = [until EXCEPT ![t] = clock + n.pause]
    /\ Go(t, CASE n.step = "try" -> "try"
               [] n.step = "retry" -> "pause"
               [] n.step = "busy" -> IF want[t] = "conn" THEN "drop" ELSE "done")
    /\ answer' = [answer EXCEPT ![t] = IF n.step = "busy" THEN "busy" ELSE @]
    /\ want' = [want EXCEPT ![t] = IF n.step = "busy" THEN "queue" ELSE @]
    /\ UNCHANGED <<job, locks, clock, deadline, taken, woken>>

\* The pause is over; the sleep may have lasted longer.
Wake(t) ==
    /\ clock >= until[t]
    /\ Step(t, "pause", "decide")
    /\ UNCHANGED <<job, want, locks, timing, woken, answer>>

\* try_wait: the mutex without waiting...
TryMutex(t) ==
    /\ want[t] = "queue"
    /\ \/ /\ mutex["queue"][StoreOf[t]] = None
          /\ Step(t, "try", "half")
          /\ mutex' = [mutex EXCEPT !["queue"][StoreOf[t]] = t]
       \/ /\ mutex["queue"][StoreOf[t]] # None
          /\ Step(t, "try", "blocked")
          /\ UNCHANGED mutex
    /\ UNCHANGED <<job, want, flock, conn, tx, timing, woken, answer>>

\* ...then flock without waiting, the mutex dropped when it is taken. A
\* guard that has its turn goes on to its connection.
TryFile(t) ==
    /\ \/ /\ Step(t, "half", "decide")
          /\ GrantFile(t, "queue")
          /\ want' = [want EXCEPT ![t] = "conn"]
          /\ UNCHANGED mutex
       \/ /\ flock["queue"] \notin {None, StoreOf[t]}
          /\ Step(t, "half", "blocked")
          /\ mutex' = [mutex EXCEPT !["queue"][StoreOf[t]] = None]
          /\ UNCHANGED <<want, flock, woken>>
    /\ UNCHANGED <<job, conn, tx, timing, answer>>

\* try_lock of the write connection.
TryConn(t) ==
    /\ want[t] = "conn"
    /\ \/ /\ conn[StoreOf[t]] = None
          /\ Step(t, "try", "check")
          /\ conn' = [conn EXCEPT ![StoreOf[t]] = t]
          /\ taken' = [taken EXCEPT ![t] = clock]
       \/ /\ conn[StoreOf[t]] # None
          /\ Step(t, "try", "blocked")
          /\ UNCHANGED <<conn, taken>>
    /\ UNCHANGED <<job, want, mutex, flock, tx, clock, deadline, until,
                   reading, woken, answer>>

\* Mutant: the reading the try was decided on stands for a new one.
CheckStale(t) ==
    /\ Step(t, "check", "begin")
    /\ want' = [want EXCEPT ![t] = "queue"]
    /\ UNCHANGED <<job, locks, timing, woken, answer>>

\* connection: the time left is read again under the connection, and a
\* guard with none lets go of it.
Check(t) ==
    /\ reading' = [reading EXCEPT ![t] = clock]
    /\ want' = [want EXCEPT ![t] = "queue"]
    /\ \/ /\ Left(t) > 0
          /\ Step(t, "check", "begin")
          /\ UNCHANGED <<conn, answer>>
       \/ /\ Left(t) = 0
          /\ Step(t, "check", "drop")
          /\ conn' = [conn EXCEPT ![StoreOf[t]] = None]
          /\ answer' = [answer EXCEPT ![t] = "busy"]
    /\ UNCHANGED <<job, mutex, flock, tx, clock, deadline, until, taken, woken>>

-----------------------------------------------------------------------------
(* The transaction, for a thread that holds the queue *)

LockConn(t) ==
    /\ conn[StoreOf[t]] = None
    /\ Step(t, "conn", "begin")
    /\ conn' = [conn EXCEPT ![StoreOf[t]] = t]
    /\ UNCHANGED <<job, want, mutex, flock, tx, timing, woken, answer>>

\* BEGIN IMMEDIATE. It answers Busy when another connection writes for as
\* long as the busy timeout.
Begin(t) ==
    /\ \/ /\ tx = None
          /\ Step(t, "begin", "tx")
          /\ tx' = t
          /\ UNCHANGED <<conn, answer>>
       \/ /\ tx # None
          /\ Step(t, "begin", "drop")
          /\ conn' = [conn EXCEPT ![StoreOf[t]] = None]
          /\ answer' = [answer EXCEPT ![t] = "busy"]
          /\ UNCHANGED tx
    /\ UNCHANGED <<job, want, mutex, flock, timing, woken>>

\* Commit or rollback, and the connection's guard is dropped.
Finish(t) ==
    /\ Step(t, "tx", "drop")
    /\ tx' = None
    /\ conn' = [conn EXCEPT ![StoreOf[t]] = None]
    /\ answer' = [answer EXCEPT ![t] = "done"]
    /\ UNCHANGED <<job, want, mutex, flock, timing, woken>>

-----------------------------------------------------------------------------
(* Turn::drop, and what follows it *)

\* Where a thread goes once its turn of want[t] is over.
Resume(t) ==
    CASE t \in Guards -> "done"
      [] job[t] = "rebuild" /\ want[t] = "queue" -> "rest"
      [] OTHER -> "idle"

\* flock's unlock ends the hold of the open file, whoever took it.
UnlockFile(t, p, q) ==
    /\ Step(t, p, q)
    /\ flock' = [flock EXCEPT ![want[t]] =
                    IF @ = StoreOf[t] THEN None ELSE @]
    /\ woken' = IF job[t] = "rebuild" /\ want[t] = "queue"
               THEN [woken EXCEPT ![t] = Waiting(t)] ELSE woken
    /\ UNCHANGED <<job, want, mutex, conn, tx, timing, answer>>

UnlockMutex(t, p, q) ==
    /\ Step(t, p, q)
    /\ mutex' = [mutex EXCEPT ![want[t]][StoreOf[t]] =
                    IF @ = t THEN None ELSE @]
    /\ UNCHANGED <<job, want, flock, conn, tx, timing, woken, answer>>

\* Mutant: the in-process lock is released before the file.
DropMutexFirst(t) ==
    \/ UnlockMutex(t, "drop", "dropping")
    \/ UnlockFile(t, "dropping", Resume(t))

\* Turn::drop: the file, then the mutex.
Drop(t) ==
    \/ UnlockFile(t, "drop", "dropping")
    \/ UnlockMutex(t, "dropping", Resume(t))

PauseFor(held) == held

\* Mutant: the pause lasts for as long as anyone wants the queue.
RestUntilQuiet(t) ==
    /\ ~ \E u \in Waiting(t) : Ready(u)
    /\ Step(t, "rest", "between")
    /\ UNCHANGED <<job, want, locks, timing, woken, answer>>

\* The pause after a batch. A batch held the queue for some time, one unit
\* here, and a pause that is not zero is taken to be long enough for a
\* writer the release woke to take what it waits for.
Rest(t) ==
    /\ PauseFor(1) > 0 /\ woken[t] # {} =>
            ~ \E u \in Waiting(t) : Ready(u)
    /\ Step(t, "rest", "between")
    /\ UNCHANGED <<job, want, locks, timing, woken, answer>>

\* A rebuild between two batches holds the maintenance lock alone.
NextBatch(t) ==
    /\ Step(t, "between", "mutex")
    /\ want' = [want EXCEPT ![t] = "queue"]
    /\ UNCHANGED <<job, locks, timing, woken, answer>>

EndRebuild(t) ==
    /\ Step(t, "between", "drop")
    /\ want' = [want EXCEPT ![t] = "maintenance"]
    /\ woken' = [woken EXCEPT ![t] = {}]
    /\ UNCHANGED <<job, locks, timing, answer>>

-----------------------------------------------------------------------------
\* The process of store s is killed: its files close, its memory is gone and
\* its open transaction is rolled back.
Crash(s) ==
    /\ s \in Mortal
    /\ \E t \in Threads : StoreOf[t] = s /\ pc[t] # "gone"
    /\ pc' = [t \in Threads |-> IF StoreOf[t] = s THEN "gone" ELSE pc[t]]
    /\ mutex' = [l \in Locks |-> [mutex[l] EXCEPT ![s] = None]]
    /\ flock' = [l \in Locks |-> IF flock[l] = s THEN None ELSE flock[l]]
    /\ conn' = [conn EXCEPT ![s] = None]
    /\ tx' = IF tx \in {t \in Threads : StoreOf[t] = s} THEN None ELSE tx
    /\ woken' = [t \in Threads |-> {u \in woken[t] : StoreOf[u] # s}]
    /\ UNCHANGED <<job, want, timing, answer>>

Tick ==
    /\ clock < MaxTime
    /\ clock' = clock + 1
    /\ UNCHANGED <<pc, job, want, locks, deadline, until, reading, taken,
                   woken, answer>>

GuardStep(t) ==
    \/ Decide(t) \/ Wake(t) \/ TryMutex(t) \/ TryFile(t) \/ TryConn(t)
    \/ Check(t) \/ Begin(t) \/ Finish(t) \/ Drop(t) \/ CheckpointEnds(t)

WriterStep(t) ==
    \/ LockMutex(t) \/ LockFile(t) \/ LockConn(t) \/ Begin(t) \/ Finish(t)
    \/ Drop(t) \/ Rest(t) \/ NextBatch(t) \/ EndRebuild(t)
    \/ CheckpointEnds(t)

Next ==
    \/ \E t \in Writers : StartWrite(t) \/ StartRebuild(t) \/ WriterStep(t)
    \/ \E t \in Guards : GuardStep(t)
    \/ \E t \in Threads : CheckpointAtExit(t)
    \/ \E s \in Stores :
          (\E time \in StorageTimes : Open(s, time)) \/ Crash(s)
    \/ Tick

Spec == Init /\ [][Next]_vars

\* No guard store is about.
Unguarded == \A t \in Guards : pc[t] = "gone"

\* A guard runs and time passes; while one may be about, nothing is assumed
\* of the writers. Without one, a thread that can go on again and again does:
\* the kernel and the mutexes serve everyone who waits and a pause ends. A
\* rebuild has finitely many batches.
Fairness ==
    /\ WF_vars(Tick)
    /\ \A t \in Guards : WF_vars(GuardStep(t))
    /\ \A t \in Writers :
          /\ SF_vars(Unguarded /\ WriterStep(t))
          /\ SF_vars(Unguarded /\ EndRebuild(t))

FairSpec == Spec /\ Fairness

-----------------------------------------------------------------------------
(* Properties *)

TypeOK ==
    /\ pc \in [Threads -> Points]
    /\ job \in [Threads -> {"none", "write", "rebuild"}]
    /\ want \in [Threads -> Locks \cup {"conn"}]
    /\ mutex \in [Locks -> [Stores -> Threads \cup {None}]]
    /\ flock \in [Locks -> Stores \cup {None}]
    /\ conn \in [Stores -> Threads \cup {None}]
    /\ tx \in Threads \cup {None}
    /\ clock \in 0..MaxTime
    /\ deadline \in [Stores -> 0..MaxTime]
    /\ until \in [Threads -> 0..MaxTime]
    /\ reading \in [Threads -> 0..MaxTime]
    /\ taken \in [Threads -> 0..MaxTime]
    /\ woken \in [Threads -> SUBSET Threads]
    /\ answer \in [Threads -> {"none", "done", "busy"}]

\* Thread t has a turn of the queue.
InQueue(t) ==
    \/ pc[t] \in {"conn", "check", "begin", "tx"}
    \/ pc[t] = "drop" /\ want[t] = "queue"
    \/ pc[t] \in {"decide", "blocked", "try", "pause"} /\ want[t] = "conn"

\* Thread t has a turn of the maintenance lock.
InMaintenance(t) ==
    /\ job[t] = "rebuild"
    /\ \/ pc[t] \in {"between", "rest", "conn", "begin", "tx"}
       \/ pc[t] \in {"mutex", "file"} /\ want[t] = "queue"
       \/ pc[t] = "drop"
       \/ pc[t] = "dropping" /\ want[t] = "queue"

\* FileLock: two threads, of one store or of two, never have a turn of the
\* same lock at once, crashes and half-taken tries included.
OneTurn ==
    \A t, u \in Threads :
        \/ InQueue(t) /\ InQueue(u)
        \/ InMaintenance(t) /\ InMaintenance(u)
        => t = u

\* The point of the queue: with it a writer never meets SQLite's own busy
\* handler, so a normal store never answers Busy.
WriterNeverBusy == \A t \in Writers : answer[t] # "busy"

\* acquire: a guard pauses no longer than until its deadline.
PauseWithinDeadline ==
    \A t \in Guards : pc[t] = "pause" => until[t] <= deadline[StoreOf[t]]

\* connection: a guard's transaction rests on a clock reading before the
\* deadline, made after the last lock was taken.
GuardBeginsInTime ==
    \A t \in Guards :
        pc[t] \in {"begin", "tx"} =>
            taken[t] <= reading[t] /\ reading[t] < deadline[StoreOf[t]]

\* batch: when writers were waiting as a batch released the queue, one of
\* them has its turn before the next batch of that rebuild begins.
BatchYields ==
    \A t \in Writers : job[t] = "rebuild" /\ InQueue(t) => woken[t] = {}

\* What the queue promises everyone who takes it.
QueueInv == TypeOK /\ OneTurn /\ WriterNeverBusy /\ BatchYields

\* What the deadline promises the host of a guard call.
GuardInTime == PauseWithinDeadline /\ GuardBeginsInTime

\* A guard call answers, though every other thread may have stopped while
\* it holds a lock.
GuardAnswers ==
    \A t \in Guards : pc[t] # "closed" ~> pc[t] \in {"done", "gone"}

\* "The holder always finishes" (queue.rs wait): every call returns, so
\* nobody waits for ever on the queue, the maintenance lock or a connection.
EveryCallReturns ==
    \A t \in Writers :
        pc[t] # "idle" /\ Unguarded ~> pc[t] \in {"idle", "gone"}
=============================================================================

---------------------------- MODULE MachineProofs ----------------------------
(***************************************************************************)
(* Proofs about what the processes of one machine share beside the ledger: *)
(* the writer queue, for any number of stores, threads and guards and any  *)
(* times, and the updater's installation, for any processes, versions,     *)
(* entries of the owner and bounds.                                        *)
(***************************************************************************)
EXTENDS WriterQueue, Update, FiniteSetTheorems, WellFoundedInduction, TLAPS

-----------------------------------------------------------------------------
(* The writer queue *)

\* One step of the specification, as the cases the lemmas below go through.
WriterCall(t) == StartWrite(t) \/ StartRebuild(t)
Call ==
    \/ \E t \in Writers : WriterCall(t)
    \/ \E t \in Threads : CheckpointAtExit(t) \/ CheckpointEnds(t)
    \/ \E s \in Stores, time \in StorageTimes : Open(s, time)
Taking ==
    \/ \E t \in Writers : LockMutex(t) \/ LockFile(t)
    \/ \E t \in Guards : TryMutex(t) \/ TryFile(t)
Trying == \E t \in Guards : Decide(t) \/ Wake(t) \/ TryConn(t) \/ Check(t)
Writing ==
    \/ \E t \in Writers : LockConn(t)
    \/ \E t \in Threads : Begin(t) \/ Finish(t)
Leaving ==
    \/ \E t \in Threads : Drop(t)
    \/ \E t \in Writers : Rest(t) \/ NextBatch(t) \/ EndRebuild(t)

\* Every step of the module is one of these cases, a crash, a tick or a stutter.
LEMMA Steps ==
    ASSUME [Next]_vars
    PROVE  \/ Call \/ Taking \/ Trying \/ Writing \/ Leaving
           \/ (\E s \in Stores : Crash(s)) \/ Tick \/ UNCHANGED vars
<1>1. Guards \subseteq Threads /\ Writers \subseteq Threads
  BY DEF Guards, Writers
<1>2. CASE \E t \in Writers : StartWrite(t) \/ StartRebuild(t) \/ WriterStep(t)
  BY <1>1, <1>2 DEF WriterStep, WriterCall, Call, Taking, Writing, Leaving
<1>3. CASE \E t \in Guards : GuardStep(t)
  BY <1>1, <1>3 DEF GuardStep, Call, Taking, Trying, Writing, Leaving
<1>4. CASE \E t \in Threads : CheckpointAtExit(t)
  BY <1>4 DEF Call
<1>5. CASE \E s \in Stores : (\E time \in StorageTimes : Open(s, time)) \/ Crash(s)
  BY <1>5 DEF Call
<1> QED BY <1>2, <1>3, <1>4, <1>5 DEF Next

-----------------------------------------------------------------------------
(* Types *)

\* queue.rs next: the shorter of two times is no longer than either.
LEMMA LeastNat ==
    ASSUME NEW a \in Nat, NEW b \in Nat
    PROVE  Least(a, b) \in Nat /\ Least(a, b) <= a /\ Least(a, b) <= b
BY DEF Least

\* saturating_sub: what is left of a storage time ends at its deadline.
LEMMA LeftNat ==
    ASSUME TypeOK, NEW t \in Threads
    PROVE  /\ Left(t) \in Nat
           /\ Left(t) > 0 => clock + Left(t) = deadline[StoreOf[t]]
<1>1. clock \in Nat /\ deadline[StoreOf[t]] \in Nat
  BY StoresAssumption, TimesAssumption DEF TypeOK
<1> QED BY <1>1 DEF Left

\* What acquire is directed to do never outlasts the time that is left.
LEMMA NextStepOK ==
    ASSUME NEW blocked \in BOOLEAN, NEW left \in Nat
    PROVE  /\ NextStep(blocked, left).pause \in Nat
           /\ NextStep(blocked, left).pause <= left
           /\ NextStep(blocked, left).step \in {"try", "retry", "busy"}
           /\ NextStep(blocked, left).step = "try" => left > 0
           /\ NextStep(blocked, left).step = "retry" => blocked
<1>1. RetryPause \in Nat
  BY TimesAssumption
<1> QED BY <1>1, LeastNat DEF NextStep

\* Calls, and the opening of a guard store within the bound on the clock.
LEMMA TypeCall == TypeOK /\ Call => TypeOK'
<1> SUFFICES ASSUME TypeOK, Call PROVE TypeOK'
  OBVIOUS
<1>1. ASSUME NEW t \in Writers, WriterCall(t) PROVE TypeOK'
  <2>1. PICK j \in {"write", "rebuild"}, l \in Locks :
            /\ pc' = [pc EXCEPT ![t] = "mutex"]
            /\ job' = [job EXCEPT ![t] = j]
            /\ want' = [want EXCEPT ![t] = l]
            /\ answer' = [answer EXCEPT ![t] = "none"]
            /\ UNCHANGED <<locks, timing, woken>>
    BY <1>1 DEF WriterCall, StartWrite, StartRebuild, Step, Go, Locks
  <2>2. "mutex" \in Points
    BY DEF Points
  <2> QED BY <2>1, <2>2 DEF TypeOK, locks, timing
<1>2. ASSUME NEW t \in Threads, CheckpointAtExit(t) \/ CheckpointEnds(t) PROVE TypeOK'
  <2>1. PICK p \in Points, c \in Threads \cup {None} :
            /\ pc' = [pc EXCEPT ![t] = p]
            /\ conn' = [conn EXCEPT ![StoreOf[t]] = c]
            /\ UNCHANGED <<job, want, mutex, flock, tx, timing, woken, answer>>
    BY <1>2 DEF CheckpointAtExit, CheckpointEnds, Step, Go, Points
  <2> QED BY <2>1, StoresAssumption DEF TypeOK, timing
<1>3. ASSUME NEW s \in Stores, NEW time \in StorageTimes, Open(s, time) PROVE TypeOK'
  <2>1. clock + Least(time, StorageCap) \in 0..MaxTime
    <3>1. time \in Nat /\ StorageCap \in Nat /\ MaxTime \in Nat /\ clock \in Nat
      BY TimesAssumption DEF TypeOK
    <3>2. Least(time, StorageCap) \in Nat
      BY <3>1, LeastNat
    <3> QED BY <1>3, <3>1, <3>2 DEF Open
  <2> QED BY <1>3, <2>1 DEF TypeOK, Open, Points, locks
<1> QED BY <1>1, <1>2, <1>3 DEF Call

\* FileLock: mutexes belong to threads and files to stores.
LEMMA TypeTaking == TypeOK /\ Taking => TypeOK'
<1> SUFFICES ASSUME TypeOK, Taking PROVE TypeOK'
  OBVIOUS
<1> USE StoresAssumption
<1>1. ASSUME NEW t \in Writers, LockMutex(t) PROVE TypeOK'
  BY <1>1 DEF TypeOK, LockMutex, Step, Go, Points, timing, Locks, Writers
<1>2. ASSUME NEW t \in Writers, LockFile(t) PROVE TypeOK'
  BY <1>2 DEF TypeOK, LockFile, GrantFile, Step, Go, Points, timing, Locks, Writers
<1>3. ASSUME NEW t \in Guards, TryMutex(t) PROVE TypeOK'
  <2>1. t \in Threads
    BY DEF Guards
  <2>2. mutex' \in [Locks -> [Stores -> Threads \cup {None}]]
    <3>1. CASE mutex' = [mutex EXCEPT !["queue"][StoreOf[t]] = t]
      BY <2>1, <3>1 DEF TypeOK, Locks
    <3>2. CASE UNCHANGED mutex
      BY <3>2 DEF TypeOK
    <3> QED BY <1>3, <3>1, <3>2 DEF TryMutex
  <2>3. pc' \in [Threads -> Points]
    <3>1. PICK p \in Points : pc' = [pc EXCEPT ![t] = p]
      BY <1>3 DEF TryMutex, Step, Go, Points
    <3> QED BY <3>1 DEF TypeOK
  <2> QED BY <1>3, <2>2, <2>3 DEF TypeOK, TryMutex, timing
<1>4. ASSUME NEW t \in Guards, TryFile(t) PROVE TypeOK'
  <2>1. t \in Threads
    BY DEF Guards
  <2>2. PICK p \in Points : pc' = [pc EXCEPT ![t] = p]
    BY <1>4 DEF TryFile, Step, Go, Points
  <2>3. pc' \in [Threads -> Points] /\ want' \in [Threads -> Locks \cup {"conn"}]
    BY <1>4, <2>2 DEF TypeOK, TryFile
  <2>4. mutex' \in [Locks -> [Stores -> Threads \cup {None}]]
    BY <1>4 DEF TypeOK, TryFile, Locks
  <2>5. flock' \in [Locks -> Stores \cup {None}]
    <3>1. flock' = flock \/ flock' = [flock EXCEPT !["queue"] = StoreOf[t]]
      BY <1>4 DEF TryFile, GrantFile
    <3> QED BY <2>1, <3>1, SMTT(30) DEF TypeOK
  <2>6. woken' \in [Threads -> SUBSET Threads]
    BY <1>4, <2>1 DEF TypeOK, TryFile, GrantFile
  <2> QED BY <1>4, <2>3, <2>4, <2>5, <2>6 DEF TypeOK, TryFile, timing
<1> QED BY <1>1, <1>2, <1>3, <1>4 DEF Taking

\* acquire: a guard's pause stays within the bound on the clock.
LEMMA TypeTrying == TypeOK /\ Trying => TypeOK'
<1> SUFFICES ASSUME TypeOK, NEW t \in Guards,
                    Decide(t) \/ Wake(t) \/ TryConn(t) \/ Check(t)
             PROVE  TypeOK'
  BY DEF Trying
<1> USE StoresAssumption
<1>1. t \in Threads
  BY DEF Guards
<1>2. CASE Decide(t)
  <2> DEFINE n == NextStep(pc[t] = "blocked", Left(t))
  <2>1. /\ n.pause \in Nat /\ n.pause <= Left(t) /\ Left(t) \in Nat
        /\ n.step \in {"try", "retry", "busy"}
    BY <1>1, LeftNat, NextStepOK
  <2>2. clock + n.pause \in 0..MaxTime
    <3>1. clock \in Nat /\ MaxTime \in Nat /\ clock <= MaxTime
      BY TimesAssumption DEF TypeOK
    <3>2. deadline[StoreOf[t]] \in 0..MaxTime
      BY <1>1 DEF TypeOK
    <3>3. Left(t) > 0 => clock + Left(t) <= MaxTime
      BY <1>1, <3>1, <3>2, LeftNat
    <3> QED BY <2>1, <3>1, <3>3
  <2>3. PICK p \in Points, l \in Locks \cup {"conn"}, a \in {"none", "done", "busy"} :
            /\ pc' = [pc EXCEPT ![t] = p]
            /\ want' = [want EXCEPT ![t] = l]
            /\ answer' = [answer EXCEPT ![t] = a]
    <3>1. want[t] \in Locks \cup {"conn"} /\ answer[t] \in {"none", "done", "busy"}
      BY <1>1 DEF TypeOK
    <3>2. PICK p \in Points : pc' = [pc EXCEPT ![t] = p]
      BY <1>2, <2>1 DEF Decide, Go, Points
    <3>3. \E l \in Locks \cup {"conn"} : want' = [want EXCEPT ![t] = l]
      BY <1>2, <3>1 DEF Decide, Locks
    <3>4. \E a \in {"none", "done", "busy"} : answer' = [answer EXCEPT ![t] = a]
      BY <1>2, <3>1 DEF Decide
    <3> QED BY <3>2, <3>3, <3>4
  <2>4. /\ until' = [until EXCEPT ![t] = clock + n.pause]
        /\ reading' = [reading EXCEPT ![t] = clock]
        /\ UNCHANGED <<job, locks, clock, deadline, taken, woken>>
    BY <1>2 DEF Decide
  <2> HIDE DEF n
  <2>5. pc' \in [Threads -> Points] /\ want' \in [Threads -> Locks \cup {"conn"}]
    BY <2>3 DEF TypeOK
  <2>6. answer' \in [Threads -> {"none", "done", "busy"}]
    BY <2>3 DEF TypeOK
  <2>7. until' \in [Threads -> 0..MaxTime] /\ reading' \in [Threads -> 0..MaxTime]
    BY <2>2, <2>4 DEF TypeOK
  <2>8. UNCHANGED <<job, mutex, flock, conn, tx, clock, deadline, taken, woken>>
    BY <2>4 DEF locks
  <2> QED BY <2>5, <2>6, <2>7, <2>8 DEF TypeOK
<1>3. CASE Wake(t)
  BY <1>1, <1>3 DEF TypeOK, Wake, Step, Go, Points, locks, timing
<1>4. CASE TryConn(t)
  <2>1. pc' \in [Threads -> Points]
    <3>1. PICK p \in Points : pc' = [pc EXCEPT ![t] = p]
      BY <1>4 DEF TryConn, Step, Go, Points
    <3> QED BY <3>1 DEF TypeOK
  <2>2. conn' \in [Stores -> Threads \cup {None}] /\ taken' \in [Threads -> 0..MaxTime]
    <3>1. /\ \/ UNCHANGED conn
             \/ conn' = [conn EXCEPT ![StoreOf[t]] = t]
          /\ \/ UNCHANGED taken
             \/ taken' = [taken EXCEPT ![t] = clock]
      BY <1>4 DEF TryConn
    <3>2. conn' \in [Stores -> Threads \cup {None}]
      BY <1>1, <3>1 DEF TypeOK
    <3>3. taken' \in [Threads -> 0..MaxTime]
      BY <3>1 DEF TypeOK
    <3> QED BY <3>2, <3>3
  <2> QED BY <1>4, <2>1, <2>2 DEF TypeOK, TryConn
<1>5. CASE Check(t)
  <2>1. PICK p \in Points : pc' = [pc EXCEPT ![t] = p]
    BY <1>5 DEF Check, Step, Go, Points
  <2>2. /\ conn' = conn \/ conn' = [conn EXCEPT ![StoreOf[t]] = None]
        /\ answer' = answer \/ answer' = [answer EXCEPT ![t] = "busy"]
        /\ want' = [want EXCEPT ![t] = "queue"]
        /\ reading' = [reading EXCEPT ![t] = clock]
        /\ UNCHANGED <<job, mutex, flock, tx, clock, deadline, until, taken, woken>>
    BY <1>5 DEF Check
  <2>3. conn' \in [Stores -> Threads \cup {None}]
    BY <1>1, <2>2 DEF TypeOK
  <2>4. answer' \in [Threads -> {"none", "done", "busy"}]
    BY <2>2 DEF TypeOK
  <2> QED BY <1>1, <2>1, <2>2, <2>3, <2>4 DEF TypeOK, Locks
<1> QED BY <1>2, <1>3, <1>4, <1>5

\* The connection and the transaction belong to a thread or to nobody.
LEMMA TypeWriting == TypeOK /\ Writing => TypeOK'
<1> SUFFICES ASSUME TypeOK, NEW t \in Threads, LockConn(t) \/ Begin(t) \/ Finish(t)
             PROVE  TypeOK'
  BY DEF Writing, Writers
<1>1. pc' \in [Threads -> Points]
  <2>1. PICK p \in Points : pc' = [pc EXCEPT ![t] = p]
    BY DEF LockConn, Begin, Finish, Step, Go, Points
  <2> QED BY <2>1 DEF TypeOK
<1>2. conn' \in [Stores -> Threads \cup {None}] /\ tx' \in Threads \cup {None}
  <2>1. /\ \/ UNCHANGED conn
           \/ \E c \in {t, None} : conn' = [conn EXCEPT ![StoreOf[t]] = c]
        /\ tx' \in {tx, t, None}
    BY DEF LockConn, Begin, Finish
  <2> QED BY <2>1 DEF TypeOK
<1>3. answer' \in [Threads -> {"none", "done", "busy"}]
  BY DEF TypeOK, LockConn, Begin, Finish
<1> QED BY <1>1, <1>2, <1>3 DEF TypeOK, LockConn, Begin, Finish, timing

\* Turn::drop, and what a rebuild does between two batches.
LEMMA TypeLeaving == TypeOK /\ Leaving => TypeOK'
<1> SUFFICES ASSUME TypeOK, NEW t \in Threads,
                    Drop(t) \/ (t \in Writers /\ (Rest(t) \/ NextBatch(t) \/ EndRebuild(t)))
             PROVE  TypeOK'
  BY DEF Leaving, Writers
<1> USE StoresAssumption
<1>1. Resume(t) \in {"done", "rest", "idle"}
  BY DEF Resume
<1>2. Waiting(t) \subseteq Threads
  BY DEF Waiting, Writers
<1>3. CASE UnlockFile(t, "drop", "dropping")
  <2>1. pc' \in [Threads -> Points]
    <3>1. pc' = [pc EXCEPT ![t] = "dropping"] /\ "dropping" \in Points
      BY <1>3 DEF UnlockFile, Step, Go, Points
    <3> QED BY <3>1 DEF TypeOK
  <2>2. flock' \in [Locks -> Stores \cup {None}]
    BY <1>3 DEF TypeOK, UnlockFile
  <2>3. woken' \in [Threads -> SUBSET Threads]
    BY <1>2, <1>3 DEF TypeOK, UnlockFile
  <2> QED BY <1>3, <2>1, <2>2, <2>3 DEF TypeOK, UnlockFile, timing
<1>4. CASE UnlockMutex(t, "dropping", Resume(t))
  <2>1. mutex' \in [Locks -> [Stores -> Threads \cup {None}]]
    <3>1. CASE want[t] \in Locks
      BY <1>4, <3>1 DEF TypeOK, UnlockMutex
    <3>2. CASE want[t] \notin Locks
      <4>1. mutex' = [l \in Locks |-> mutex[l]]
        BY <1>4, <3>2 DEF TypeOK, UnlockMutex
      <4> QED BY <4>1 DEF TypeOK
    <3> QED BY <3>1, <3>2
  <2>2. pc' \in [Threads -> Points]
    <3>1. pc' = [pc EXCEPT ![t] = Resume(t)] /\ Resume(t) \in Points
      BY <1>1, <1>4 DEF UnlockMutex, Step, Go, Points
    <3> QED BY <3>1 DEF TypeOK
  <2> QED BY <1>4, <2>1, <2>2 DEF TypeOK, UnlockMutex, timing
<1>5. CASE Rest(t) \/ NextBatch(t) \/ EndRebuild(t)
  <2>1. PICK p \in Points : pc' = [pc EXCEPT ![t] = p]
    BY <1>5 DEF Rest, NextBatch, EndRebuild, Step, Go, Points
  <2>2. /\ want' = want \/ \E l \in Locks : want' = [want EXCEPT ![t] = l]
        /\ woken' = woken \/ woken' = [woken EXCEPT ![t] = {}]
        /\ UNCHANGED <<job, locks, timing, answer>>
    BY <1>5 DEF Rest, NextBatch, EndRebuild, Locks
  <2>3. pc' \in [Threads -> Points] /\ want' \in [Threads -> Locks \cup {"conn"}]
    BY <2>1, <2>2 DEF TypeOK
  <2>4. woken' \in [Threads -> SUBSET Threads]
    BY <2>2 DEF TypeOK
  <2> QED BY <2>2, <2>3, <2>4 DEF TypeOK, locks, timing
<1> QED BY <1>3, <1>4, <1>5 DEF Drop

\* Every variable keeps its type.
LEMMA TypeNext == TypeOK /\ [Next]_vars => TypeOK'
<1> SUFFICES ASSUME TypeOK, [Next]_vars PROVE TypeOK'
  OBVIOUS
<1>1. ASSUME NEW s \in Stores, Crash(s) PROVE TypeOK'
  BY <1>1, StoresAssumption DEF TypeOK, Crash, Points, timing
<1>2. CASE Tick
  BY <1>2, TimesAssumption DEF TypeOK, Tick, locks
<1>3. CASE UNCHANGED vars
  BY <1>3 DEF TypeOK, vars, locks, timing
<1> QED BY <1>1, <1>2, <1>3, Steps, TypeCall, TypeTaking, TypeTrying, TypeWriting, TypeLeaving
-----------------------------------------------------------------------------
(* The deadline *)

\* GuardInTime with what it rests on: a guard that checks its deadline took
\* its connection no later than now.
Timely ==
    /\ GuardInTime
    /\ \A t \in Guards : pc[t] = "check" => taken[t] <= clock

\* Trying keeps guards on time: a pause ends by the deadline, and begin
\* follows a reading below it that was made under the connection.
LEMMA TimelyTrying == TypeOK /\ Timely /\ Trying => Timely'
<1> SUFFICES ASSUME TypeOK, Timely, NEW t \in Guards,
                    Decide(t) \/ Wake(t) \/ TryConn(t) \/ Check(t)
             PROVE  Timely'
  BY DEF Trying
<1> USE StoresAssumption, TimesAssumption
<1>1. t \in Threads /\ Guards \subseteq Threads
  BY DEF Guards
<1>2. clock \in Nat /\ \A s \in Stores : deadline[s] \in Nat
  BY DEF TypeOK
<1>3. CASE Decide(t)
  <2> DEFINE n == NextStep(pc[t] = "blocked", Left(t))
  <2>1. /\ n.pause \in Nat /\ n.pause <= Left(t) /\ Left(t) \in Nat
        /\ n.step = "retry" => Left(t) > 0
    BY <1>1, LeftNat, NextStepOK DEF NextStep
  <2>2. Left(t) > 0 => clock + n.pause <= deadline[StoreOf[t]]
    BY <1>1, <1>2, <2>1, LeftNat
  <2> HIDE DEF n
  <2>3. /\ pc' = [pc EXCEPT ![t] = CASE n.step = "try" -> "try"
               [] n.step = "retry" -> "pause"
               [] n.step = "busy" -> IF want[t] = "conn" THEN "drop" ELSE "done"]
        /\ until' = [until EXCEPT ![t] = clock + n.pause]
        /\ reading' = [reading EXCEPT ![t] = clock]
        /\ UNCHANGED <<clock, deadline, taken>>
    BY <1>3 DEF Decide, Go, n
  <2>4. n.step \in {"try", "retry", "busy"}
    BY <1>1, LeftNat, NextStepOK DEF n
  <2>5. pc'[t] \notin {"begin", "tx", "check"} /\ (pc'[t] = "pause" => n.step = "retry")
    BY <1>1, <2>3, <2>4 DEF TypeOK
  <2>6. until'[t] = clock + n.pause
    BY <1>1, <2>3 DEF TypeOK
  <2>7. \A u \in Guards \ {t} :
            pc'[u] = pc[u] /\ until'[u] = until[u] /\ reading'[u] = reading[u]
    BY <1>1, <2>3 DEF TypeOK
  <2>8. PauseWithinDeadline'
    <3>1. pc'[t] = "pause" => until'[t] <= deadline[StoreOf[t]]
      BY <2>1, <2>2, <2>5, <2>6
    <3>2. \A u \in Guards \ {t} : pc'[u] = "pause" => until'[u] <= deadline[StoreOf[u]]
      BY <2>7 DEF Timely, GuardInTime, PauseWithinDeadline
    <3> QED BY <2>3, <3>1, <3>2 DEF PauseWithinDeadline
  <2>9. GuardBeginsInTime' /\ \A u \in Guards : pc'[u] = "check" => taken'[u] <= clock'
    BY <1>1, <2>3, <2>5, <2>7 DEF Timely, GuardInTime, GuardBeginsInTime
  <2> QED BY <2>8, <2>9 DEF Timely, GuardInTime
<1>4. CASE Wake(t)
  BY <1>1, <1>4 DEF TypeOK, Timely, GuardInTime, PauseWithinDeadline,
                    GuardBeginsInTime, Wake, Step, Go, timing
<1>5. CASE TryConn(t)
  <2>1. \/ pc' = [pc EXCEPT ![t] = "check"] /\ taken' = [taken EXCEPT ![t] = clock]
        \/ pc' = [pc EXCEPT ![t] = "blocked"] /\ taken' = taken
    BY <1>5 DEF TryConn, Step, Go
  <2>2. /\ pc'[t] \in {"check", "blocked"}
        /\ pc'[t] = "check" => taken'[t] = clock
        /\ \A u \in Guards \ {t} : pc'[u] = pc[u] /\ taken'[u] = taken[u]
    BY <1>1, <2>1 DEF TypeOK
  <2>3. UNCHANGED <<clock, deadline, until, reading>>
    BY <1>5 DEF TryConn
  <2> QED BY <1>2, <2>2, <2>3 DEF Timely, GuardInTime, PauseWithinDeadline,
                                  GuardBeginsInTime
<1>6. CASE Check(t)
  BY <1>1, <1>2, <1>6 DEF TypeOK, Timely, GuardInTime, PauseWithinDeadline,
                          GuardBeginsInTime, Check, Step, Go, Left
<1> QED BY <1>3, <1>4, <1>5, <1>6

\* So does every other step: nobody but a guard's own try moves it to a
\* pause, to its check or, of the guards, to begin.
LEMMA TimelyNext == TypeOK /\ Timely /\ [Next]_vars => Timely'
<1> SUFFICES ASSUME TypeOK, Timely, [Next]_vars PROVE Timely'
  OBVIOUS
<1> USE StoresAssumption DEF TypeOK, Timely, GuardInTime, PauseWithinDeadline, GuardBeginsInTime
<1>1. /\ Guards \subseteq Threads /\ Writers \subseteq Threads
      /\ Writers \cap Guards = {}
  BY DEF Guards, Writers
<1>2. ASSUME NEW t \in Threads, NEW p \in Points \ {"pause", "check", "begin"},
             pc' = [pc EXCEPT ![t] = p], UNCHANGED timing, p = "tx" => pc[t] = "begin"
      PROVE  Timely'
  BY <1>1, <1>2 DEF timing
<1>3. ASSUME NEW t \in Writers, NEW p \in Points, pc' = [pc EXCEPT ![t] = p],
             UNCHANGED timing
      PROVE  Timely'
  BY <1>1, <1>3 DEF timing
<1>4. CASE Call
  <2>1. CASE \E t \in Writers : WriterCall(t)
    BY <1>3, <2>1 DEF WriterCall, StartWrite, StartRebuild, Step, Go, Points
  <2>2. CASE \E t \in Threads : CheckpointAtExit(t) \/ CheckpointEnds(t)
    BY <1>2, <2>2 DEF CheckpointAtExit, CheckpointEnds, Step, Go, Points
  <2>3. ASSUME NEW s \in Stores, NEW time \in StorageTimes, Open(s, time)
        PROVE  Timely'
    BY <1>1, <2>3 DEF Open
  <2> QED BY <1>4, <2>1, <2>2, <2>3 DEF Call
<1>5. CASE Taking
  <2>1. CASE \E t \in Writers : LockMutex(t) \/ LockFile(t)
    BY <1>3, <2>1 DEF LockMutex, LockFile, Step, Go, Points
  <2>2. CASE \E t \in Guards : TryMutex(t) \/ TryFile(t)
    <3>1. PICK t \in Guards : TryMutex(t) \/ TryFile(t)
      BY <2>2
    <3>2. PICK p \in {"half", "blocked", "decide"} : pc' = [pc EXCEPT ![t] = p]
      BY <3>1 DEF TryMutex, TryFile, Step, Go
    <3>3. UNCHANGED timing /\ t \in Threads
      BY <1>1, <3>1 DEF TryMutex, TryFile
    <3>4. p \in Points \ {"pause", "check", "begin"} /\ p # "tx"
      BY DEF Points
    <3> QED BY <1>2, <3>2, <3>3, <3>4
  <2> QED BY <1>5, <2>1, <2>2 DEF Taking
<1>6. CASE Writing
  <2>1. CASE \E t \in Writers : LockConn(t)
    BY <1>3, <2>1 DEF LockConn, Step, Go, Points
  <2>2. CASE \E t \in Threads : Begin(t) \/ Finish(t)
    <3>1. PICK t \in Threads : Begin(t) \/ Finish(t)
      BY <2>2
    <3>2. PICK p \in {"tx", "drop"} :
              pc' = [pc EXCEPT ![t] = p] /\ (p = "tx" => pc[t] = "begin")
      BY <3>1 DEF Begin, Finish, Step, Go
    <3>3. UNCHANGED timing
      BY <3>1 DEF Begin, Finish
    <3>4. p \in Points \ {"pause", "check", "begin"}
      BY DEF Points
    <3> QED BY <1>2, <3>2, <3>3, <3>4
  <2> QED BY <1>6, <2>1, <2>2 DEF Writing
<1>7. CASE Leaving
  <2>1. CASE \E t \in Threads : Drop(t)
    <3>1. PICK t \in Threads : Drop(t)
      BY <2>1
    <3>2. PICK p \in {"dropping", "done", "rest", "idle"} : pc' = [pc EXCEPT ![t] = p]
      BY <3>1 DEF Drop, UnlockFile, UnlockMutex, Resume, Step, Go
    <3>3. UNCHANGED timing
      BY <3>1 DEF Drop, UnlockFile, UnlockMutex
    <3>4. p \in Points \ {"pause", "check", "begin"} /\ p # "tx"
      BY DEF Points
    <3> QED BY <1>2, <3>2, <3>3, <3>4
  <2>2. CASE \E t \in Writers : Rest(t) \/ NextBatch(t) \/ EndRebuild(t)
    BY <1>3, <2>2 DEF Rest, NextBatch, EndRebuild, Step, Go, Points
  <2> QED BY <1>7, <2>1, <2>2 DEF Leaving
<1>8. ASSUME NEW s \in Stores, Crash(s) PROVE Timely'
  BY <1>1, <1>8 DEF Crash, timing
<1>9. CASE Tick
  BY <1>1, <1>9, TimesAssumption DEF Tick
<1>10. CASE UNCHANGED vars
  BY <1>10 DEF vars, timing
<1> QED BY <1>4, <1>5, <1>6, <1>7, <1>8, <1>9, <1>10, Steps, TimelyTrying

\* queue.rs acquire and store.rs connection: whatever the lock holders do, a
\* guard never pauses past its deadline and never begins a transaction on a
\* clock reading at or after it, or one made before its last lock.
THEOREM GuardOnTime == Spec => []GuardInTime
<1>1. Init => TypeOK /\ Timely
  <2> SUFFICES ASSUME Init PROVE TypeOK /\ Timely
    OBVIOUS
  <2> USE StoresAssumption, TimesAssumption
  <2>1. TypeOK
    BY DEF Init, AtRest, TypeOK, StartOf, Points, Locks
  <2>2. Timely
    BY DEF Init, AtRest, Timely, GuardInTime, PauseWithinDeadline,
           GuardBeginsInTime, StartOf, Guards
  <2> QED BY <2>1, <2>2
<1>2. TypeOK /\ Timely /\ [Next]_vars => (TypeOK /\ Timely)'
  BY TypeNext, TimelyNext
<1>3. Timely => GuardInTime
  BY DEF Timely
<1> QED BY <1>1, <1>2, <1>3, PTL DEF Spec
-----------------------------------------------------------------------------
(* Turns *)

\* Where each kind of thread can be, and for which lock.
GuardShape(t) ==
    /\ job[t] # "rebuild"
    /\ want[t] \in {"queue", "conn"}
    /\ pc[t] \in {"closed", "decide", "blocked", "try", "half", "pause",
                  "check", "begin", "tx", "drop", "dropping", "exit", "done",
                  "gone"}
    /\ pc[t] \in {"closed", "half", "begin", "tx", "drop", "dropping", "exit",
                  "done"} => want[t] = "queue"
    /\ pc[t] = "check" => want[t] = "conn"
WriterShape(t) ==
    /\ want[t] \in Locks
    /\ want[t] = "maintenance" => job[t] = "rebuild"
    /\ pc[t] \in {"idle", "mutex", "file", "conn", "begin", "tx", "drop",
                  "dropping", "rest", "between", "exit", "gone"}
    /\ pc[t] \in {"conn", "begin", "tx", "rest"} => want[t] = "queue"
    /\ pc[t] \in {"rest", "between"} => job[t] = "rebuild"
Shape ==
    /\ \A t \in Guards : GuardShape(t)
    /\ \A t \in Writers : WriterShape(t)

\* Thread t has a turn of lock l; it holds the mutex of l, for its turn, or
\* before and after it while it takes and releases the file.
HasTurn(t, l) == IF l = "queue" THEN InQueue(t) ELSE InMaintenance(t)
Holds(t, l) ==
    \/ HasTurn(t, l)
    \/ pc[t] \in {"file", "dropping"} /\ want[t] = l
    \/ pc[t] = "half" /\ l = "queue"
LockInv ==
    \A t \in Threads, l \in Locks :
        /\ Holds(t, l) => mutex[l][StoreOf[t]] = t
        /\ HasTurn(t, l) => flock[l] = StoreOf[t]

\* Who is inside BEGIN IMMEDIATE says so.
TxInv == tx # None => pc[tx] = "tx"

Turns == Shape /\ LockInv /\ TxInv /\ WriterNeverBusy

\* Two threads with a turn of one lock hold its mutex of one store.
LEMMA OneTurnOfLocks == TypeOK /\ LockInv => OneTurn
<1> SUFFICES ASSUME TypeOK, LockInv, NEW t \in Threads, NEW u \in Threads,
                    NEW l \in Locks, HasTurn(t, l), HasTurn(u, l)
             PROVE  t = u
  BY DEF OneTurn, HasTurn, Locks
<1> QED BY DEF LockInv, Holds

\* The threads of normal stores are those of no guard store.
LEMMA Kinds ==
    /\ Guards \subseteq Threads /\ Writers \subseteq Threads
    /\ Threads \subseteq Guards \cup Writers /\ Guards \cap Writers = {}
    /\ \A t \in Guards, u \in Writers : StoreOf[t] # StoreOf[u]
    /\ \A t \in Threads : StoreOf[t] \in Stores
    /\ None \notin Threads /\ None \notin Stores
BY StoresAssumption DEF Guards, Writers

\* A step of thread t leaves the others where they are.
Alone(t) ==
    \A u \in Threads \ {t} :
        pc'[u] = pc[u] /\ job'[u] = job[u] /\ want'[u] = want[u]

\* A step of one thread keeps the locks' invariant if it takes only what is
\* free, gives up only what it holds and holds what it now needs.
LEMMA LockStep ==
    ASSUME TypeOK, LockInv, NEW t \in Threads, Alone(t),
           \A l \in Locks, s \in Stores :
               mutex'[l][s] = mutex[l][s] \/ mutex[l][s] \in {None, t},
           \A l \in Locks :
               \/ flock'[l] = flock[l]
               \/ flock[l] = None
               \/ flock[l] = StoreOf[t] /\ mutex[l][StoreOf[t]] = t,
           \A l \in Locks :
               /\ Holds(t, l)' => mutex'[l][StoreOf[t]] = t
               /\ HasTurn(t, l)' => flock'[l] = StoreOf[t]
    PROVE  LockInv'
<1> SUFFICES ASSUME NEW u \in Threads \ {t}, NEW l \in Locks
             PROVE  /\ Holds(u, l)' => mutex'[l][StoreOf[u]] = u
                    /\ HasTurn(u, l)' => flock'[l] = StoreOf[u]
  BY DEF LockInv
<1>1. Holds(u, l)' = Holds(u, l) /\ HasTurn(u, l)' = HasTurn(u, l)
  BY DEF Alone, Holds, HasTurn, InQueue, InMaintenance
<1>2. Holds(u, l) => mutex[l][StoreOf[u]] = u
  BY DEF LockInv
<1>3. HasTurn(u, l) => flock[l] = StoreOf[u] /\ mutex[l][StoreOf[u]] = u
  BY DEF LockInv, Holds
<1> QED BY <1>1, <1>2, <1>3, Kinds

\* A step that leaves the locks alone keeps their invariant if it gives its
\* thread nothing that it did not hold before.
LEMMA SameLocks ==
    ASSUME TypeOK, LockInv, NEW t \in Threads, Alone(t), UNCHANGED <<mutex, flock>>,
           \A l \in Locks :
               /\ Holds(t, l)' => Holds(t, l)
               /\ HasTurn(t, l)' => HasTurn(t, l)
    PROVE  LockInv'
<1>1. \A l \in Locks :
          /\ Holds(t, l)' => mutex'[l][StoreOf[t]] = t
          /\ HasTurn(t, l)' => flock'[l] = StoreOf[t]
  BY DEF LockInv
<1> QED BY <1>1, LockStep

\* The transaction's invariant, of a step that neither begins nor ends one.
LEMMA SameTx ==
    ASSUME TypeOK, TxInv, NEW t \in Threads, Alone(t), pc[t] # "tx", UNCHANGED tx
    PROVE  TxInv'
BY DEF TxInv, Alone, TypeOK
\* Likewise the shapes, of a step that keeps its own thread's.
LEMMA ShapeStep ==
    ASSUME Shape, NEW t \in Threads, Alone(t),
           t \in Guards => GuardShape(t)',
           t \in Writers => WriterShape(t)'
    PROVE  Shape'
BY Kinds DEF Shape, Alone, GuardShape, WriterShape

\* Being called takes nothing.
LEMMA TurnsCall == TypeOK /\ Turns /\ Call => Turns'
<1> SUFFICES ASSUME TypeOK, Turns, Call PROVE Turns'
  OBVIOUS
<1> USE Kinds
<1>1. ASSUME NEW t \in Writers, WriterCall(t) PROVE Turns'
  <2>1. /\ Alone(t) /\ UNCHANGED <<mutex, flock, tx>>
        /\ pc[t] = "idle" /\ pc'[t] = "mutex" /\ answer'[t] = "none"
        /\ \A u \in Threads \ {t} : answer'[u] = answer[u]
        /\ \/ job'[t] = "write" /\ want'[t] = "queue"
           \/ job'[t] = "rebuild" /\ want'[t] = "maintenance"
    BY <1>1 DEF TypeOK, WriterCall, StartWrite, StartRebuild, Step, Go, Alone, locks
  <2>2. Shape'
    BY <2>1, ShapeStep DEF Turns, WriterShape, Locks
  <2>3. LockInv'
    BY <2>1, SameLocks DEF Turns, Holds, HasTurn, InQueue, InMaintenance
  <2>4. TxInv' /\ WriterNeverBusy'
    BY <2>1, SameTx DEF Turns, WriterNeverBusy
  <2> QED BY <2>2, <2>3, <2>4 DEF Turns
<1>2. ASSUME NEW t \in Threads, CheckpointAtExit(t) \/ CheckpointEnds(t) PROVE Turns'
  <2>1. /\ Alone(t) /\ UNCHANGED <<mutex, flock, tx, answer, want, job>>
        /\ pc[t] \in {"idle", "done", "exit"} /\ pc'[t] \in {"idle", "done", "exit"}
        /\ pc'[t] = "idle" => pc[t] = "idle" \/ t \notin Guards
        /\ pc'[t] = "done" => pc[t] = "done" \/ t \in Guards
    BY <1>2 DEF TypeOK, CheckpointAtExit, CheckpointEnds, Step, Go, Alone
  <2>2. Shape'
    BY <2>1, ShapeStep DEF Turns, Shape, GuardShape, WriterShape
  <2>3. LockInv'
    BY <2>1, SameLocks DEF Turns, Holds, HasTurn, InQueue, InMaintenance
  <2>4. TxInv' /\ WriterNeverBusy'
    BY <2>1, SameTx DEF Turns, WriterNeverBusy
  <2> QED BY <2>2, <2>3, <2>4 DEF Turns
<1>3. ASSUME NEW s \in Stores, NEW time \in StorageTimes, Open(s, time) PROVE Turns'
  <2>1. /\ UNCHANGED <<mutex, flock, tx, answer, want>>
        /\ \A u \in Threads :
              \/ pc'[u] = pc[u] /\ job'[u] = job[u]
              \/ u \in Guards /\ pc[u] = "closed" /\ pc'[u] = "decide" /\ job'[u] = "write"
    BY <1>3 DEF Open, Guards, locks
  <2>2. \A u \in Threads : pc[u] = "closed" => want[u] = "queue"
    BY DEF Turns, Shape, GuardShape, WriterShape
  <2>3. Shape'
    BY <2>1, <2>2 DEF Turns, Shape, GuardShape, WriterShape
  <2>4. \A u \in Threads, l \in Locks :
            (Holds(u, l)' => Holds(u, l)) /\ (HasTurn(u, l)' => HasTurn(u, l))
    BY <2>1, <2>2 DEF Holds, HasTurn, InQueue, InMaintenance
  <2>5. LockInv' /\ TxInv' /\ WriterNeverBusy'
    BY <2>1, <2>4 DEF Turns, LockInv, TxInv, WriterNeverBusy, TypeOK
  <2> QED BY <2>3, <2>5 DEF Turns
<1> QED BY <1>1, <1>2, <1>3 DEF Call

\* FileLock: a turn begins with a mutex and a file that were both free, or a
\* file this store had.
LEMMA TurnsTaking == TypeOK /\ Turns /\ Taking => Turns'
<1> SUFFICES ASSUME TypeOK, Turns, Taking PROVE Turns'
  OBVIOUS
<1> USE Kinds
<1>1. ASSUME NEW t \in Writers, LockMutex(t) PROVE Turns'
  <2>1. /\ Alone(t) /\ UNCHANGED <<flock, tx, answer, want, job>>
        /\ pc[t] = "mutex" /\ pc'[t] = "file" /\ want[t] \in Locks
        /\ mutex[want[t]][StoreOf[t]] = None
        /\ mutex' = [mutex EXCEPT ![want[t]][StoreOf[t]] = t]
    BY <1>1 DEF TypeOK, LockMutex, Step, Go, Alone, Turns, Shape, WriterShape
  <2>2. Shape'
    BY <2>1, ShapeStep DEF Turns, Shape, WriterShape
  <2>3. /\ mutex'[want[t]][StoreOf[t]] = t
        /\ \A l \in Locks, s \in Stores :
              l # want[t] \/ s # StoreOf[t] => mutex'[l][s] = mutex[l][s]
    BY <2>1 DEF TypeOK
  <2>4. \A l \in Locks :
            /\ Holds(t, l)' => Holds(t, l) \/ l = want[t]
            /\ HasTurn(t, l)' => HasTurn(t, l)
    BY <2>1 DEF Holds, HasTurn, InQueue, InMaintenance, Locks
  <2>5. LockInv'
    <3>1. \A l \in Locks :
              /\ Holds(t, l)' => mutex'[l][StoreOf[t]] = t
              /\ HasTurn(t, l)' => flock'[l] = StoreOf[t]
      BY <2>1, <2>3, <2>4 DEF Turns, LockInv
    <3>2. \A l \in Locks, s \in Stores :
              mutex'[l][s] = mutex[l][s] \/ mutex[l][s] \in {None, t}
      BY <2>1, <2>3
    <3> QED BY <2>1, <3>1, <3>2, LockStep DEF Turns
  <2>6. TxInv' /\ WriterNeverBusy'
    BY <2>1, SameTx DEF Turns, WriterNeverBusy
  <2> QED BY <2>2, <2>5, <2>6 DEF Turns
<1>2. ASSUME NEW t \in Writers, LockFile(t) PROVE Turns'
  <2>1. /\ Alone(t) /\ UNCHANGED <<mutex, tx, answer, want, job>>
        /\ pc[t] = "file" /\ want[t] \in Locks
        /\ pc'[t] = IF want[t] = "queue" THEN "conn" ELSE "between"
        /\ flock[want[t]] \in {None, StoreOf[t]}
        /\ flock' = [flock EXCEPT ![want[t]] = StoreOf[t]]
        /\ want[t] = "maintenance" => job[t] = "rebuild"
    BY <1>2 DEF TypeOK, LockFile, GrantFile, Step, Go, Alone, Turns, Shape, WriterShape
  <2>2. Shape'
    BY <2>1, ShapeStep DEF Turns, Shape, WriterShape, Locks
  <2>3. \A l \in Locks :
            /\ Holds(t, l)' => Holds(t, l)
            /\ HasTurn(t, l)' => HasTurn(t, l) \/ l = want[t]
    BY <2>1 DEF Holds, HasTurn, InQueue, InMaintenance, Locks
  <2>4. LockInv'
    <3>1. /\ flock'[want[t]] = StoreOf[t]
          /\ \A l \in Locks \ {want[t]} : flock'[l] = flock[l]
      BY <2>1 DEF TypeOK
    <3>2. \A l \in Locks :
              /\ Holds(t, l)' => mutex'[l][StoreOf[t]] = t
              /\ HasTurn(t, l)' => flock'[l] = StoreOf[t]
      BY <2>1, <2>3, <3>1 DEF Turns, LockInv
    <3>3. \A l \in Locks : flock'[l] = flock[l] \/ flock[l] = None
      BY <2>1, <3>1
    <3> QED BY <2>1, <3>2, <3>3, LockStep DEF Turns
  <2>5. TxInv' /\ WriterNeverBusy'
    BY <2>1, SameTx DEF Turns, WriterNeverBusy
  <2> QED BY <2>2, <2>4, <2>5 DEF Turns
<1>3. ASSUME NEW t \in Guards, TryMutex(t) PROVE Turns'
  <2>1. /\ Alone(t) /\ UNCHANGED <<flock, tx, answer, want, job>>
        /\ pc[t] = "try" /\ want[t] = "queue"
        /\ \/ /\ pc'[t] = "half" /\ mutex["queue"][StoreOf[t]] = None
              /\ mutex' = [mutex EXCEPT !["queue"][StoreOf[t]] = t]
           \/ pc'[t] = "blocked" /\ mutex' = mutex
    BY <1>3 DEF TypeOK, TryMutex, Step, Go, Alone
  <2>2. Shape'
    BY <2>1, ShapeStep DEF Turns, Shape, GuardShape
  <2>3. CASE pc'[t] = "half"
    <3>1. /\ mutex'["queue"][StoreOf[t]] = t
          /\ \A l \in Locks, s \in Stores :
                l # "queue" \/ s # StoreOf[t] => mutex'[l][s] = mutex[l][s]
      BY <2>1, <2>3 DEF TypeOK, Locks
    <3>2. \A l \in Locks : (Holds(t, l)' => l = "queue") /\ ~ HasTurn(t, l)'
      BY <2>1, <2>3 DEF Holds, HasTurn, InQueue, InMaintenance
    <3>3. \A l \in Locks, s \in Stores :
              mutex'[l][s] = mutex[l][s] \/ mutex[l][s] \in {None, t}
      BY <2>1, <2>3, <3>1
    <3>4. LockInv'
      BY <2>1, <3>1, <3>2, <3>3, LockStep DEF Turns
    <3> QED BY <2>1, <2>2, <3>4, SameTx DEF Turns, WriterNeverBusy
  <2>4. CASE pc'[t] = "blocked"
    <3>1. LockInv'
      BY <2>1, <2>4, SameLocks DEF Turns, Holds, HasTurn, InQueue, InMaintenance
    <3> QED BY <2>1, <2>2, <3>1, SameTx DEF Turns, WriterNeverBusy
  <2> QED BY <2>1, <2>3, <2>4
<1>4. ASSUME NEW t \in Guards, TryFile(t) PROVE Turns'
  <2>1. /\ Alone(t) /\ UNCHANGED <<tx, answer, job>> /\ pc[t] = "half"
        /\ job[t] # "rebuild" /\ want[t] = "queue"
        /\ \/ /\ pc'[t] = "decide" /\ want'[t] = "conn" /\ UNCHANGED mutex
              /\ flock["queue"] \in {None, StoreOf[t]}
              /\ flock' = [flock EXCEPT !["queue"] = StoreOf[t]]
           \/ /\ pc'[t] = "blocked" /\ UNCHANGED <<want, flock>>
              /\ mutex' = [mutex EXCEPT !["queue"][StoreOf[t]] = None]
    BY <1>4 DEF TypeOK, TryFile, GrantFile, Step, Go, Alone, Turns, Shape, GuardShape
  <2>2. Shape'
    BY <2>1, ShapeStep DEF Turns, Shape, GuardShape
  <2>3. mutex["queue"][StoreOf[t]] = t
    BY <2>1 DEF Turns, LockInv, Holds, Locks
  <2>4. CASE pc'[t] = "decide"
    <3>1. /\ flock'["queue"] = StoreOf[t]
          /\ \A l \in Locks \ {"queue"} : flock'[l] = flock[l]
      BY <2>1, <2>4 DEF TypeOK, Locks
    <3>2. \A l \in Locks : Holds(t, l)' \/ HasTurn(t, l)' => l = "queue"
      BY <2>1, <2>4 DEF Holds, HasTurn, InQueue, InMaintenance, Locks
    <3>3. \A l \in Locks : flock'[l] = flock[l] \/ flock[l] = None
      BY <2>1, <2>4, <3>1
    <3>4. LockInv'
      BY <2>1, <2>3, <2>4, <3>1, <3>2, <3>3, LockStep DEF Turns
    <3> QED BY <2>1, <2>2, <3>4, SameTx DEF Turns, WriterNeverBusy
  <2>5. CASE pc'[t] = "blocked"
    <3>1. \A l \in Locks : ~ Holds(t, l)' /\ ~ HasTurn(t, l)'
      BY <2>1, <2>5 DEF Holds, HasTurn, InQueue, InMaintenance, Locks
    <3>2. \A l \in Locks, s \in Stores :
              mutex'[l][s] = mutex[l][s] \/ mutex[l][s] \in {None, t}
      BY <2>1, <2>3, <2>5 DEF TypeOK, Locks
    <3>3. LockInv'
      BY <2>1, <2>5, <3>1, <3>2, LockStep DEF Turns
    <3> QED BY <2>1, <2>2, <3>3, SameTx DEF Turns, WriterNeverBusy
  <2> QED BY <2>1, <2>4, <2>5
<1> QED BY <1>1, <1>2, <1>3, <1>4 DEF Taking
\* A guard's tries, pauses and checks take the connection and no lock.
LEMMA TurnsTrying == TypeOK /\ Turns /\ Trying => Turns'
<1> SUFFICES ASSUME TypeOK, Turns, NEW t \in Guards,
                    Decide(t) \/ Wake(t) \/ TryConn(t) \/ Check(t)
             PROVE  Turns'
  BY DEF Trying
<1> USE Kinds
<1>1. /\ Alone(t) /\ UNCHANGED <<mutex, flock, tx, job>>
      /\ \A u \in Threads \ {t} : answer'[u] = answer[u]
  BY DEF TypeOK, Decide, Wake, TryConn, Check, Step, Go, Alone, locks, timing
<1>2. /\ pc[t] \in {"decide", "blocked", "pause", "try", "check"}
      /\ \/ pc'[t] \in {"decide", "blocked", "pause", "try"} /\ want'[t] = want[t]
         \/ pc'[t] = "check" /\ want'[t] = want[t] /\ want[t] = "conn"
         \/ pc'[t] = "drop" /\ want'[t] = "queue" /\ want[t] = "conn"
         \/ pc'[t] = "begin" /\ want'[t] = "queue" /\ pc[t] = "check"
         \/ pc'[t] = "done" /\ want'[t] = "queue"
  <2>1. CASE Decide(t)
    <3> DEFINE n == NextStep(pc[t] = "blocked", Left(t))
    <3>1. n.step \in {"try", "retry", "busy"}
      BY LeftNat, NextStepOK
    <3>2. /\ pc[t] \in {"decide", "blocked"}
          /\ pc' = [pc EXCEPT ![t] = CASE n.step = "try" -> "try"
               [] n.step = "retry" -> "pause"
               [] n.step = "busy" -> IF want[t] = "conn" THEN "drop" ELSE "done"]
          /\ want' = [want EXCEPT ![t] = IF n.step = "busy" THEN "queue" ELSE @]
      BY <2>1 DEF Decide, Go, n
    <3> HIDE DEF n
    <3> QED BY <3>1, <3>2 DEF TypeOK
  <2>2. CASE Wake(t)
    BY <2>2 DEF TypeOK, Wake, Step, Go
  <2>3. CASE TryConn(t)
    BY <2>3 DEF TypeOK, TryConn, Step, Go
  <2>4. CASE Check(t)
    <3>1. want[t] = "conn"
      BY <2>4 DEF Check, Step, Turns, Shape, GuardShape
    <3> QED BY <2>4, <3>1 DEF TypeOK, Check, Step, Go
  <2> QED BY <2>1, <2>2, <2>3, <2>4
<1>3. GuardShape(t)
  BY DEF Turns, Shape
<1>4. Shape'
  BY <1>1, <1>2, <1>3, ShapeStep DEF Turns, GuardShape
<1>5. LockInv'
  <2>1. \A l \in Locks :
            (Holds(t, l)' => Holds(t, l)) /\ (HasTurn(t, l)' => HasTurn(t, l))
    BY <1>1, <1>2, <1>3 DEF GuardShape, Holds, HasTurn, InQueue, InMaintenance
  <2> QED BY <1>1, <2>1, SameLocks DEF Turns
<1>6. TxInv' /\ WriterNeverBusy'
  BY <1>1, <1>2, SameTx DEF Turns, WriterNeverBusy
<1> QED BY <1>4, <1>5, <1>6 DEF Turns

\* A transaction is inside a turn of the queue, so BEGIN IMMEDIATE never
\* meets another one and never answers Busy.
LEMMA TurnsWriting == TypeOK /\ Turns /\ Writing => Turns'
<1> SUFFICES ASSUME TypeOK, Turns, NEW t \in Threads,
                    (t \in Writers /\ LockConn(t)) \/ Begin(t) \/ Finish(t)
             PROVE  Turns'
  BY Kinds DEF Writing
<1> USE Kinds
<1>1. t \in Guards => GuardShape(t)
  BY DEF Turns, Shape
<1>2. t \in Writers => WriterShape(t)
  BY DEF Turns, Shape
<1>3. pc[t] = "begin" => tx = None
  <2> SUFFICES ASSUME pc[t] = "begin", tx # None PROVE FALSE
    OBVIOUS
  <2>1. tx \in Threads /\ pc[tx] = "tx"
    BY DEF TypeOK, Turns, TxInv
  <2>2. InQueue(t) /\ InQueue(tx)
    BY <2>1 DEF InQueue
  <2>3. t = tx
    BY <2>1, <2>2, OneTurnOfLocks DEF OneTurn, Turns
  <2> QED BY <2>1, <2>3
<1>4. /\ Alone(t) /\ UNCHANGED <<mutex, flock, job, want>>
      /\ \/ pc[t] = "conn" /\ pc'[t] = "begin" /\ UNCHANGED <<tx, answer>> /\ t \in Writers
         \/ pc[t] = "begin" /\ pc'[t] = "tx" /\ tx' = t /\ UNCHANGED answer
         \/ /\ pc[t] = "tx" /\ pc'[t] = "drop" /\ tx' = None
            /\ answer' = [answer EXCEPT ![t] = "done"]
  BY <1>3 DEF TypeOK, LockConn, Begin, Finish, Step, Go, Alone
<1>5. Shape'
  BY <1>1, <1>2, <1>4, ShapeStep DEF Turns, GuardShape, WriterShape
<1>6. LockInv'
  <2>1. want[t] = "queue"
    BY <1>1, <1>2, <1>4 DEF GuardShape, WriterShape
  <2>2. \A l \in Locks :
            (Holds(t, l)' => Holds(t, l)) /\ (HasTurn(t, l)' => HasTurn(t, l))
    BY <1>4, <2>1 DEF Holds, HasTurn, InQueue, InMaintenance
  <2> QED BY <1>4, <2>2, SameLocks DEF Turns
<1>7. TxInv' /\ WriterNeverBusy'
  BY <1>4, SameTx DEF Turns, TxInv, WriterNeverBusy, TypeOK
<1> QED BY <1>5, <1>6, <1>7 DEF Turns

\* Turn::drop gives up the file while it has the mutex, and each only if it
\* is this turn's.
LEMMA TurnsDrop == ASSUME TypeOK, Turns, NEW t \in Threads, Drop(t) PROVE Turns'
<1> USE Kinds
<1>1. t \in Guards => GuardShape(t)
  BY DEF Turns, Shape
<1>2. t \in Writers => WriterShape(t)
  BY DEF Turns, Shape
<1>3. pc[t] \in {"drop", "dropping"} /\ want[t] \in Locks
  BY <1>1, <1>2 DEF Drop, UnlockFile, UnlockMutex, Step, GuardShape, WriterShape, Locks
<1>4. Alone(t) /\ UNCHANGED <<tx, answer, job, want>>
  BY DEF TypeOK, Drop, UnlockFile, UnlockMutex, Step, Go, Alone
<1>5. CASE UnlockFile(t, "drop", "dropping")
  <2>1. /\ pc[t] = "drop" /\ pc'[t] = "dropping" /\ UNCHANGED mutex
        /\ flock' = [flock EXCEPT ![want[t]] = IF @ = StoreOf[t] THEN None ELSE @]
    BY <1>5 DEF TypeOK, UnlockFile, Step, Go
  <2>2. Shape'
    BY <1>1, <1>2, <1>4, <2>1, ShapeStep DEF Turns, GuardShape, WriterShape
  <2>3. Holds(t, want[t])
    BY <1>1, <1>2, <1>3, <2>1
       DEF Holds, HasTurn, InQueue, InMaintenance, Locks, GuardShape, WriterShape
  <2>4. mutex[want[t]][StoreOf[t]] = t
    BY <1>3, <2>3 DEF Turns, LockInv
  <2>5. \A l \in Locks :
            /\ Holds(t, l)' => Holds(t, l)
            /\ HasTurn(t, l)' => HasTurn(t, l) /\ l # want[t]
    BY <1>3, <1>4, <2>1, <2>3 DEF Holds, HasTurn, InQueue, InMaintenance, Locks
  <2>6. \A l \in Locks :
            \/ flock'[l] = flock[l]
            \/ l = want[t] /\ flock[l] = StoreOf[t]
    BY <1>3, <2>1 DEF TypeOK
  <2>7. LockInv'
    <3>1. \A l \in Locks :
              /\ Holds(t, l)' => mutex'[l][StoreOf[t]] = t
              /\ HasTurn(t, l)' => flock'[l] = StoreOf[t]
      BY <2>1, <2>5, <2>6 DEF Turns, LockInv
    <3> QED BY <1>4, <2>1, <2>4, <2>6, <3>1, LockStep DEF Turns
  <2> QED BY <1>4, <2>1, <2>2, <2>7, SameTx DEF Turns, WriterNeverBusy
<1>6. CASE UnlockMutex(t, "dropping", Resume(t))
  <2>1. /\ pc[t] = "dropping" /\ pc'[t] = Resume(t) /\ UNCHANGED flock
        /\ mutex' = [mutex EXCEPT ![want[t]][StoreOf[t]] = IF @ = t THEN None ELSE @]
    <3>1. Resume(t) \in Points
      BY DEF Resume, Points
    <3> QED BY <1>6, <3>1 DEF TypeOK, UnlockMutex, Step, Go
  <2>2. /\ pc'[t] \in {"done", "rest", "idle"}
        /\ t \in Guards <=> pc'[t] = "done"
        /\ pc'[t] = "rest" => job[t] = "rebuild" /\ want[t] = "queue"
    BY <1>1, <2>1 DEF Resume, GuardShape
  <2>3. Shape'
    BY <1>1, <1>2, <1>4, <2>1, <2>2, ShapeStep DEF Turns, GuardShape, WriterShape
  <2>4. \A l \in Locks :
            /\ Holds(t, l)' => Holds(t, l) /\ l # want[t]
            /\ HasTurn(t, l)' => HasTurn(t, l)
    BY <1>3, <1>4, <2>1, <2>2 DEF Holds, HasTurn, InQueue, InMaintenance, Locks
  <2>5. \A l \in Locks, s \in Stores :
            \/ mutex'[l][s] = mutex[l][s]
            \/ l = want[t] /\ mutex[l][s] = t
    BY <1>3, <2>1 DEF TypeOK
  <2>6. LockInv'
    <3>1. \A l \in Locks :
              /\ Holds(t, l)' => mutex'[l][StoreOf[t]] = t
              /\ HasTurn(t, l)' => flock'[l] = StoreOf[t]
      BY <2>1, <2>4, <2>5 DEF Turns, LockInv
    <3> QED BY <1>4, <2>1, <2>5, <3>1, LockStep DEF Turns
  <2> QED BY <1>4, <2>1, <2>3, <2>6, SameTx DEF Turns, WriterNeverBusy
<1> QED BY <1>5, <1>6 DEF Drop

\* A batch's pause and the choice after it keep the maintenance turn.
LEMMA TurnsLeaving == TypeOK /\ Turns /\ Leaving => Turns'
<1> SUFFICES ASSUME TypeOK, Turns, NEW t \in Writers, Rest(t) \/ NextBatch(t) \/ EndRebuild(t)
             PROVE  Turns'
  BY TurnsDrop DEF Leaving
<1> USE Kinds
<1>1. WriterShape(t)
  BY DEF Turns, Shape
<1>2. /\ Alone(t) /\ UNCHANGED <<mutex, flock, tx, answer, job>>
      /\ \/ pc[t] = "rest" /\ pc'[t] = "between" /\ want'[t] = want[t]
         \/ pc[t] = "between" /\ pc'[t] = "mutex" /\ want'[t] = "queue"
         \/ pc[t] = "between" /\ pc'[t] = "drop" /\ want'[t] = "maintenance"
  BY DEF TypeOK, Rest, NextBatch, EndRebuild, Step, Go, Alone, locks
<1>3. Shape'
  BY <1>1, <1>2, ShapeStep DEF Turns, WriterShape, Locks
<1>4. \A l \in Locks :
          (Holds(t, l)' => Holds(t, l)) /\ (HasTurn(t, l)' => HasTurn(t, l))
  BY <1>1, <1>2 DEF WriterShape, Holds, HasTurn, InQueue, InMaintenance
<1>5. LockInv'
  BY <1>2, <1>4, SameLocks DEF Turns
<1> QED BY <1>2, <1>3, <1>5, SameTx DEF Turns, WriterNeverBusy

\* A process that is killed gives up what its threads held, and no more.
LEMMA TurnsCrash == ASSUME TypeOK, Turns, NEW s \in Stores, Crash(s) PROVE Turns'
<1> USE Kinds
<1>1. /\ UNCHANGED <<job, want, answer>>
      /\ \A u \in Threads : pc'[u] = IF StoreOf[u] = s THEN "gone" ELSE pc[u]
      /\ \A l \in Locks, r \in Stores : r # s => mutex'[l][r] = mutex[l][r]
      /\ \A l \in Locks : flock[l] # s => flock'[l] = flock[l]
      /\ tx' = IF tx \in {t \in Threads : StoreOf[t] = s} THEN None ELSE tx
  BY DEF TypeOK, Crash
<1>2. Shape'
  BY <1>1 DEF Turns, Shape, GuardShape, WriterShape
<1>3. LockInv'
  <2>1. \A u \in Threads, l \in Locks :
            /\ Holds(u, l)' => Holds(u, l) /\ StoreOf[u] # s
            /\ HasTurn(u, l)' => HasTurn(u, l) /\ StoreOf[u] # s
    BY <1>1 DEF Holds, HasTurn, InQueue, InMaintenance
  <2> QED BY <1>1, <2>1 DEF Turns, LockInv
<1>4. TxInv' /\ WriterNeverBusy'
  BY <1>1 DEF Turns, TxInv, WriterNeverBusy, TypeOK
<1> QED BY <1>2, <1>3, <1>4 DEF Turns

\* Every step keeps turns exclusive.
LEMMA TurnsNext == TypeOK /\ Turns /\ [Next]_vars => Turns'
<1> SUFFICES ASSUME TypeOK, Turns, [Next]_vars PROVE Turns'
  OBVIOUS
<1>1. CASE Tick \/ UNCHANGED vars
  <2>1. UNCHANGED <<pc, job, want, mutex, flock, tx, answer>>
    BY <1>1 DEF Tick, vars, locks
  <2>2. Shape'
    BY <2>1 DEF Turns, Shape, GuardShape, WriterShape
  <2>3. LockInv'
    BY <2>1 DEF Turns, LockInv, Holds, HasTurn, InQueue, InMaintenance
  <2> QED BY <2>1, <2>2, <2>3 DEF Turns, TxInv, WriterNeverBusy
<1> QED BY <1>1, Steps, TurnsCall, TurnsTaking, TurnsTrying, TurnsWriting, TurnsLeaving, TurnsCrash
-----------------------------------------------------------------------------
(* Batches yield *)

\* Between a batch's release of the queue and its next turn, the file is
\* free and each writer it woke can go on, or is kept from its mutex by one
\* of its own store that can.
Awaited(t, u) ==
    /\ u \in Writers \ {t} /\ want[u] = "queue"
    /\ \/ pc[u] = "file"
       \/ /\ pc[u] = "mutex"
          /\ \/ mutex["queue"][StoreOf[u]] = None
             \/ mutex["queue"][StoreOf[u]] = t /\ pc[t] = "dropping"
             \/ \E v \in Writers :
                   StoreOf[v] = StoreOf[u] /\ pc[v] = "file" /\ want[v] = "queue"
Yields(t) ==
    woken[t] # {} /\ pc[t] # "gone" =>
        /\ t \in Writers /\ job[t] = "rebuild" /\ want[t] = "queue"
        /\ pc[t] \in {"dropping", "rest"}
        /\ flock["queue"] = None
        /\ \A u \in woken[t] : Awaited(t, u)
AllYield == \A t \in Threads : Yields(t)

\* A step of a thread that no batch can have woken, and that neither rests
\* after a batch nor touches what writers wait for, changes nothing.
LEMMA YieldsKept ==
    ASSUME TypeOK, AllYield, NEW x \in Threads, Alone(x),
           pc[x] \in {"dropping", "rest", "gone"} => woken[x] = {},
           pc[x] \in {"file", "mutex"} => want[x] # "queue",
           \A t \in Threads : woken'[t] \subseteq woken[t],
           flock'["queue"] = flock["queue"],
           \A u \in Writers : mutex'["queue"][StoreOf[u]] = mutex["queue"][StoreOf[u]]
    PROVE  AllYield'
<1> SUFFICES ASSUME NEW t \in Threads, woken'[t] # {}, pc'[t] # "gone"
             PROVE  /\ t \in Writers /\ job'[t] = "rebuild" /\ want'[t] = "queue"
                    /\ pc'[t] \in {"dropping", "rest"}
                    /\ flock'["queue"] = None
                    /\ \A u \in woken'[t] : Awaited(t, u)'
  BY DEF AllYield, Yields
<1> USE Kinds
<1>1. woken[x] = {}
  BY DEF AllYield, Yields
<1>2. t # x /\ woken[t] # {} /\ pc[t] # "gone"
  BY <1>1 DEF Alone
<1>3. /\ t \in Writers /\ job[t] = "rebuild" /\ want[t] = "queue"
      /\ pc[t] \in {"dropping", "rest"} /\ flock["queue"] = None
      /\ \A u \in woken[t] : Awaited(t, u)
  BY <1>2 DEF AllYield, Yields
<1>4. ASSUME NEW u \in woken[t] PROVE Awaited(t, u)'
  <2>1. Awaited(t, u)
    BY <1>3
  <2>2. u # x
    BY <2>1 DEF Awaited
  <2>3. \A v \in Writers :
            pc[v] = "file" /\ want[v] = "queue" => pc'[v] = "file" /\ want'[v] = "queue"
    BY DEF Alone
  <2> QED BY <1>2, <2>1, <2>2, <2>3 DEF Awaited, Alone
<1> QED BY <1>2, <1>3, <1>4 DEF Alone
\* A thread that takes the file of the queue ends what batches owe.
LEMMA YieldsGranted ==
    ASSUME TypeOK, AllYield, NEW x \in Threads, pc[x] \in {"file", "half"},
           GrantFile(x, "queue")
    PROVE  AllYield'
<1>1. woken[x] = {}
  BY DEF AllYield, Yields
<1>2. woken' = [u \in Threads |-> IF u = x THEN woken[x] ELSE {}]
  BY DEF GrantFile
<1> QED BY <1>1, <1>2 DEF AllYield, Yields

\* Calls, tries and transactions are steps of threads no batch woke.
LEMMA YieldsCall == TypeOK /\ AllYield /\ Call => AllYield'
<1> SUFFICES ASSUME TypeOK, AllYield, Call PROVE AllYield'
  OBVIOUS
<1> USE Kinds
<1>1. ASSUME NEW t \in Threads,
             (t \in Writers /\ WriterCall(t)) \/ CheckpointAtExit(t) \/ CheckpointEnds(t)
      PROVE  AllYield'
  <2>1. Alone(t) /\ UNCHANGED <<mutex, flock, woken>> /\ pc[t] \in {"idle", "done", "exit"}
    BY <1>1 DEF TypeOK, WriterCall, StartWrite, StartRebuild, CheckpointAtExit,
                CheckpointEnds, Step, Go, Alone, locks
  <2> QED BY <2>1, YieldsKept
<1>2. ASSUME NEW s \in Stores, NEW time \in StorageTimes, Open(s, time) PROVE AllYield'
  <2>1. /\ UNCHANGED <<want, mutex, flock, woken>>
        /\ \A u \in Threads :
              \/ pc'[u] = pc[u] /\ job'[u] = job[u]
              \/ pc[u] = "closed" /\ pc'[u] = "decide"
    BY <1>2 DEF Open, locks
  <2>2. \A u \in Threads :
            /\ pc'[u] \in {"file", "mutex", "dropping", "rest", "gone"} =>
                  pc'[u] = pc[u] /\ job'[u] = job[u]
            /\ pc[u] \in {"file", "mutex", "dropping", "rest", "gone"} =>
                  pc'[u] = pc[u] /\ job'[u] = job[u]
    BY <2>1
  <2> QED
    <3> SUFFICES ASSUME NEW t \in Threads PROVE Yields(t)'
      BY DEF AllYield
    <3>1. Yields(t)
      BY DEF AllYield
    <3>2. CASE woken[t] = {} \/ pc[t] = "gone"
      BY <2>1, <2>2, <3>2 DEF Yields
    <3>3. CASE woken[t] # {} /\ pc[t] # "gone"
      <4>1. \A u \in woken[t] : Awaited(t, u)'
        BY <2>1, <2>2, <3>1, <3>3 DEF Yields, Awaited
      <4> QED BY <2>1, <2>2, <3>1, <3>3, <4>1 DEF Yields
    <3> QED BY <3>2, <3>3
<1> QED BY <1>1, <1>2 DEF Call

\* A writer that takes its mutex keeps one of its store on its way to the
\* file; a writer or a guard that takes the file settles every batch's debt.
LEMMA YieldsTaking == TypeOK /\ Turns /\ AllYield /\ Taking => AllYield'
<1> SUFFICES ASSUME TypeOK, Turns, AllYield, Taking PROVE AllYield'
  OBVIOUS
<1> USE Kinds
<1>1. ASSUME NEW x \in Writers, LockMutex(x) PROVE AllYield'
  <2>1. /\ Alone(x) /\ UNCHANGED <<flock, woken, job, want>>
        /\ pc[x] = "mutex" /\ pc'[x] = "file" /\ want[x] \in Locks
        /\ mutex[want[x]][StoreOf[x]] = None
        /\ mutex' = [mutex EXCEPT ![want[x]][StoreOf[x]] = x]
    BY <1>1 DEF TypeOK, LockMutex, Step, Go, Alone, Turns, Shape, WriterShape
  <2>2. CASE want[x] = "queue"
    <3>1. \A s \in Stores : s # StoreOf[x] => mutex'["queue"][s] = mutex["queue"][s]
      BY <2>1, <2>2 DEF TypeOK, Locks
    <3> SUFFICES ASSUME NEW t \in Threads, woken'[t] # {}, pc'[t] # "gone"
                 PROVE  Yields(t)'
      BY DEF AllYield, Yields
    <3>2. Yields(t) /\ woken[t] # {}
      BY <2>1 DEF AllYield
    <3>3. t # x /\ pc[t] # "gone"
      BY <2>1, <3>2 DEF Alone, Yields
    <3>4. \A u \in woken[t] : Awaited(t, u)
      BY <3>2, <3>3 DEF Yields
    <3>5. ASSUME NEW u \in woken[t] PROVE Awaited(t, u)'
      <4>1. CASE u = x
        BY <2>1, <2>2, <3>4, <4>1 DEF Awaited
      <4>2. CASE u # x /\ StoreOf[u] = StoreOf[x]
        BY <2>1, <2>2, <3>4, <4>2 DEF Awaited, Alone
      <4>3. CASE u # x /\ StoreOf[u] # StoreOf[x]
        BY <2>1, <2>2, <3>1, <3>3, <3>4, <4>3 DEF Awaited, Alone
      <4> QED BY <4>1, <4>2, <4>3
    <3> QED BY <2>1, <3>2, <3>3, <3>5 DEF Yields, Alone
  <2>3. CASE want[x] # "queue"
    <3>1. mutex'["queue"] = mutex["queue"]
      BY <2>1, <2>3 DEF TypeOK, Locks
    <3> QED BY <2>1, <2>3, <3>1, YieldsKept
  <2> QED BY <2>2, <2>3
<1>2. ASSUME NEW x \in Writers, LockFile(x) PROVE AllYield'
  <2>1. CASE want[x] = "queue"
    BY <1>2, <2>1, YieldsGranted DEF LockFile, Step
  <2>2. CASE want[x] # "queue"
    <3>1. /\ Alone(x) /\ UNCHANGED <<mutex, woken>> /\ pc[x] = "file"
          /\ flock' = [flock EXCEPT ![want[x]] = StoreOf[x]]
      BY <1>2, <2>2 DEF TypeOK, LockFile, GrantFile, Step, Go, Alone
    <3>2. flock'["queue"] = flock["queue"]
      BY <2>2, <3>1 DEF TypeOK, Locks
    <3> QED BY <2>2, <3>1, <3>2, YieldsKept
  <2> QED BY <2>1, <2>2
<1>3. ASSUME NEW x \in Guards, TryMutex(x) \/ TryFile(x) PROVE AllYield'
  <2>1. CASE GrantFile(x, "queue") /\ pc[x] = "half"
    BY <2>1, YieldsGranted
  <2>2. CASE ~ (GrantFile(x, "queue") /\ pc[x] = "half")
    <3>1. /\ Alone(x) /\ UNCHANGED <<woken, flock>> /\ pc[x] \in {"try", "half"}
          /\ \/ mutex' = mutex
             \/ \E o \in {x, None} : mutex' = [mutex EXCEPT !["queue"][StoreOf[x]] = o]
      BY <1>3, <2>2 DEF TypeOK, TryMutex, TryFile, Step, Go, Alone
    <3>2. \A u \in Writers : mutex'["queue"][StoreOf[u]] = mutex["queue"][StoreOf[u]]
      BY <3>1 DEF TypeOK, Locks
    <3> QED BY <3>1, <3>2, YieldsKept
  <2> QED BY <2>1, <2>2
<1> QED BY <1>1, <1>2, <1>3 DEF Taking

\* The tries of a guard concern no writer's lock.
LEMMA YieldsTrying == TypeOK /\ AllYield /\ Trying => AllYield'
<1> SUFFICES ASSUME TypeOK, AllYield, NEW t \in Guards,
                    Decide(t) \/ Wake(t) \/ TryConn(t) \/ Check(t)
             PROVE  AllYield'
  BY DEF Trying
<1>1. /\ Alone(t) /\ UNCHANGED <<mutex, flock, woken>>
      /\ pc[t] \in {"decide", "blocked", "pause", "try", "check"}
  BY Kinds DEF TypeOK, Decide, Wake, TryConn, Check, Step, Go, Alone, locks
<1> QED BY <1>1, Kinds, YieldsKept

\* A transaction is within a turn that was taken already.
LEMMA YieldsWriting == TypeOK /\ AllYield /\ Writing => AllYield'
<1> SUFFICES ASSUME TypeOK, AllYield, NEW t \in Threads,
                    LockConn(t) \/ Begin(t) \/ Finish(t)
             PROVE  AllYield'
  BY Kinds DEF Writing
<1>1. Alone(t) /\ UNCHANGED <<mutex, flock, woken>> /\ pc[t] \in {"conn", "begin", "tx"}
  BY DEF TypeOK, LockConn, Begin, Finish, Step, Go, Alone
<1> QED BY <1>1, YieldsKept
\* A mutex is owned by a thread of its store.
OwnMutex ==
    \A l \in Locks, s \in Stores : mutex[l][s] # None => StoreOf[mutex[l][s]] = s

\* FileLock.local is in the memory of one process: so does every step keep it.
LEMMA OwnNext == TypeOK /\ OwnMutex /\ [Next]_vars => OwnMutex'
<1> SUFFICES ASSUME TypeOK, OwnMutex, [Next]_vars PROVE OwnMutex'
  OBVIOUS
<1> USE Kinds
<1>1. ASSUME UNCHANGED mutex PROVE OwnMutex'
  BY <1>1 DEF OwnMutex
<1>2. ASSUME NEW t \in Threads, NEW l \in Locks \cup {"conn"}, NEW o \in {t, None},
             mutex' = [mutex EXCEPT ![l][StoreOf[t]] = o]
      PROVE  OwnMutex'
  BY <1>2 DEF OwnMutex, TypeOK
<1>3. CASE Call
  BY <1>1, <1>3 DEF Call, WriterCall, StartWrite, StartRebuild, CheckpointAtExit,
                    CheckpointEnds, Open, locks
<1>4. CASE Taking
  <2>1. ASSUME NEW t \in Threads, LockMutex(t) PROVE OwnMutex'
    BY <1>2, <2>1 DEF LockMutex, TypeOK
  <2>2. ASSUME NEW t \in Threads, TryMutex(t) PROVE OwnMutex'
    BY <1>1, <1>2, <2>2 DEF TryMutex, Locks
  <2>3. ASSUME NEW t \in Threads, TryFile(t) PROVE OwnMutex'
    BY <1>1, <1>2, <2>3 DEF TryFile, Locks
  <2> QED BY <1>1, <1>4, <2>1, <2>2, <2>3 DEF Taking, LockFile
<1>5. CASE Trying
  BY <1>1, <1>5 DEF Trying, Decide, Wake, TryConn, Check, locks
<1>6. CASE Writing
  BY <1>1, <1>6 DEF Writing, LockConn, Begin, Finish
<1>7. CASE Leaving
  <2>1. ASSUME NEW t \in Threads, NEW p, NEW q, UnlockMutex(t, p, q) PROVE OwnMutex'
    <3>1. mutex' = [mutex EXCEPT ![want[t]][StoreOf[t]] = IF @ = t THEN None ELSE @]
      BY <2>1 DEF UnlockMutex
    <3>2. \A l \in Locks, s \in Stores : mutex'[l][s] \in {mutex[l][s], None}
      BY <3>1 DEF TypeOK
    <3> QED BY <3>2 DEF OwnMutex
  <2> QED BY <1>1, <1>7, <2>1 DEF Leaving, Drop, UnlockFile, Rest, NextBatch, EndRebuild, locks
<1>8. ASSUME NEW s \in Stores, Crash(s) PROVE OwnMutex'
  BY <1>8 DEF Crash, OwnMutex, TypeOK
<1>9. CASE Tick \/ UNCHANGED vars
  BY <1>1, <1>9 DEF Tick, vars, locks
<1> QED BY <1>3, <1>4, <1>5, <1>6, <1>7, <1>8, <1>9, Steps

\* A release sets the debt of a batch, and leaves the writers that wait for
\* a free file; then the mutex is given up to them.
LEMMA YieldsDrop ==
    ASSUME TypeOK, Turns, OwnMutex, AllYield, NEW x \in Threads, Drop(x)
    PROVE  AllYield'
<1> USE Kinds
<1>1. x \in Guards => GuardShape(x)
  BY DEF Turns, Shape
<1>2. x \in Writers => WriterShape(x)
  BY DEF Turns, Shape
<1>3. want[x] \in Locks
  BY <1>1, <1>2 DEF Drop, UnlockFile, UnlockMutex, Step, GuardShape, WriterShape, Locks
<1>4. Alone(x) /\ UNCHANGED <<job, want>>
  BY DEF TypeOK, Drop, UnlockFile, UnlockMutex, Step, Go, Alone
<1>5. CASE UnlockFile(x, "drop", "dropping")
  <2>1. /\ pc[x] = "drop" /\ pc'[x] = "dropping" /\ UNCHANGED mutex
        /\ flock' = [flock EXCEPT ![want[x]] = IF @ = StoreOf[x] THEN None ELSE @]
        /\ woken' = IF job[x] = "rebuild" /\ want[x] = "queue"
                   THEN [woken EXCEPT ![x] = Waiting(x)] ELSE woken
    BY <1>5 DEF TypeOK, UnlockFile, Step, Go
  <2>2. woken[x] = {}
    BY <2>1 DEF AllYield, Yields
  <2>3. CASE want[x] = "queue"
    <3>1. InQueue(x)
      BY <2>1, <2>3 DEF InQueue
    <3>2. flock["queue"] = StoreOf[x]
      BY <3>1 DEF Turns, LockInv, HasTurn, Locks
    <3>3. flock'["queue"] = None
      BY <2>1, <2>3, <3>2 DEF TypeOK, Locks
    <3>4. ASSUME NEW t \in Threads \ {x} PROVE Yields(t)'
      <4>1. woken[t] = {} \/ pc[t] = "gone"
        BY <3>2 DEF AllYield, Yields
      <4>2. woken'[t] = woken[t] /\ pc'[t] = pc[t]
        BY <1>4, <2>1 DEF TypeOK, Alone
      <4> QED BY <4>1, <4>2 DEF Yields
    <3>5. CASE job[x] = "rebuild"
      <4>1. x \in Writers
        BY <1>1, <3>5 DEF GuardShape
      <4>2. woken'[x] = Waiting(x)
        BY <2>1, <2>3, <3>5 DEF TypeOK
      <4>3. ASSUME NEW u \in Waiting(x) PROVE Awaited(x, u)'
        BY <1>4, <2>1 DEF Waiting, Awaited, Alone
      <4>4. Yields(x)'
        BY <1>4, <2>1, <2>3, <3>3, <3>5, <4>1, <4>2, <4>3 DEF Yields
      <4> QED BY <3>4, <4>4 DEF AllYield
    <3>6. CASE job[x] # "rebuild"
      BY <2>1, <2>2, <3>4, <3>6 DEF AllYield, Yields
    <3> QED BY <3>5, <3>6
  <2>4. CASE want[x] # "queue"
    <3>1. flock'["queue"] = flock["queue"]
      BY <2>1, <2>4 DEF TypeOK, Locks
    <3> QED BY <1>4, <2>1, <2>2, <2>4, <3>1, YieldsKept
  <2> QED BY <2>3, <2>4
<1>6. CASE UnlockMutex(x, "dropping", Resume(x))
  <2>1. /\ pc[x] = "dropping" /\ pc'[x] = Resume(x) /\ UNCHANGED <<flock, woken>>
        /\ mutex' = [mutex EXCEPT ![want[x]][StoreOf[x]] = IF @ = x THEN None ELSE @]
    <3>1. Resume(x) \in Points
      BY DEF Resume, Points
    <3> QED BY <1>6, <3>1 DEF TypeOK, UnlockMutex, Step, Go
  <2>2. \A s \in Stores :
            /\ mutex["queue"][s] # x => mutex'["queue"][s] = mutex["queue"][s]
            /\ mutex["queue"][s] = x /\ want[x] = "queue" => mutex'["queue"][s] = None
    BY <1>3, <2>1 DEF TypeOK, Locks, OwnMutex
  <2> SUFFICES ASSUME NEW t \in Threads, woken[t] # {}, pc'[t] # "gone"
               PROVE  Yields(t)'
    BY <2>1 DEF AllYield, Yields
  <2>3. pc[t] # "gone"
    BY <1>4, <2>1 DEF Alone
  <2>4. /\ t \in Writers /\ job[t] = "rebuild" /\ want[t] = "queue"
        /\ pc[t] \in {"dropping", "rest"} /\ flock["queue"] = None
        /\ \A u \in woken[t] : Awaited(t, u)
    BY <2>3 DEF AllYield, Yields
  <2>5. pc'[t] \in {"dropping", "rest"} /\ (t = x => pc'[t] = "rest")
    BY <1>4, <2>1, <2>4 DEF Alone, Resume
  <2>6. ASSUME NEW u \in woken[t] PROVE Awaited(t, u)'
    <3>1. Awaited(t, u) /\ u # x
      BY <2>1, <2>4 DEF Awaited
    <3>2. \A v \in Writers : pc[v] = "file" => pc'[v] = "file"
      BY <1>4, <2>1 DEF Alone
    <3>3. CASE mutex["queue"][StoreOf[u]] = x
      <4>1. pc[u] = "mutex" /\ t # x => \E v \in Writers :
                StoreOf[v] = StoreOf[u] /\ pc[v] = "file" /\ want[v] = "queue"
        BY <3>1, <3>3 DEF Awaited
      <4> QED BY <1>4, <2>2, <2>4, <3>1, <3>2, <3>3, <4>1 DEF Awaited, Alone
    <3>4. CASE mutex["queue"][StoreOf[u]] # x
      BY <1>4, <2>2, <2>5, <3>1, <3>2, <3>4 DEF Awaited, Alone
    <3> QED BY <3>3, <3>4
  <2> QED BY <1>4, <2>1, <2>4, <2>5, <2>6 DEF Yields
<1> QED BY <1>5, <1>6 DEF Drop
\* A batch that owes a turn rests for as long as a writer it woke can take
\* it, so it owes none when the rest is over.
LEMMA YieldsLeaving == TypeOK /\ Turns /\ OwnMutex /\ AllYield /\ Leaving => AllYield'
<1> SUFFICES ASSUME TypeOK, AllYield, NEW x \in Writers,
                    Rest(x) \/ NextBatch(x) \/ EndRebuild(x)
             PROVE  AllYield'
  BY YieldsDrop DEF Leaving
<1> USE Kinds
<1>1. /\ Alone(x) /\ UNCHANGED <<mutex, flock>> /\ pc[x] \in {"rest", "between"}
      /\ \A t \in Threads : woken'[t] \subseteq woken[t]
  BY DEF TypeOK, Rest, NextBatch, EndRebuild, Step, Go, Alone, locks
<1>2. ASSUME pc[x] = "rest", woken[x] # {} PROVE FALSE
  <2>1. ~ \E u \in Waiting(x) : Ready(u)
    BY <1>2 DEF Rest, NextBatch, EndRebuild, Step, PauseFor
  <2>2. PICK u \in woken[x] : Awaited(x, u)
    BY <1>2 DEF AllYield, Yields
  <2>3. flock["queue"] = None
    BY <1>2 DEF AllYield, Yields
  <2>4. ASSUME NEW v \in Writers, pc[v] = "file", want[v] = "queue" PROVE FALSE
    <3>1. v \in Waiting(x) /\ Ready(v)
      BY <1>2, <2>3, <2>4 DEF Waiting, Ready
    <3> QED BY <2>1, <3>1
  <2>5. CASE pc[u] = "mutex" /\ mutex["queue"][StoreOf[u]] = None
    <3>1. u \in Waiting(x) /\ Ready(u)
      BY <2>2, <2>5 DEF Awaited, Waiting, Ready
    <3> QED BY <2>1, <3>1
  <2> QED BY <1>2, <2>2, <2>4, <2>5 DEF Awaited
<1>3. woken[x] = {}
  BY <1>1, <1>2 DEF AllYield, Yields
<1> QED BY <1>1, <1>3, YieldsKept

\* A killed process neither waits nor keeps others from a mutex.
LEMMA YieldsCrash ==
    ASSUME TypeOK, AllYield, NEW s \in Stores, Crash(s)
    PROVE  AllYield'
<1> USE Kinds
<1>1. /\ UNCHANGED <<job, want>>
      /\ \A u \in Threads : pc'[u] = IF StoreOf[u] = s THEN "gone" ELSE pc[u]
      /\ \A r \in Stores : r # s => mutex'["queue"][r] = mutex["queue"][r]
      /\ flock["queue"] = None => flock'["queue"] = None
      /\ \A t \in Threads : woken'[t] = {u \in woken[t] : StoreOf[u] # s}
  BY DEF TypeOK, Crash, Locks
<1> SUFFICES ASSUME NEW t \in Threads, woken'[t] # {}, pc'[t] # "gone" PROVE Yields(t)'
  BY DEF AllYield, Yields
<1>2. StoreOf[t] # s /\ pc[t] # "gone" /\ woken[t] # {}
  BY <1>1
<1>3. /\ t \in Writers /\ job[t] = "rebuild" /\ want[t] = "queue"
      /\ pc[t] \in {"dropping", "rest"} /\ flock["queue"] = None
      /\ \A u \in woken[t] : Awaited(t, u)
  BY <1>2 DEF AllYield, Yields
<1>4. ASSUME NEW u \in woken'[t] PROVE Awaited(t, u)'
  <2>1. u \in woken[t] /\ StoreOf[u] # s /\ Awaited(t, u)
    BY <1>1, <1>3
  <2> QED BY <1>1, <1>2, <2>1 DEF Awaited
<1> QED BY <1>1, <1>2, <1>3, <1>4 DEF Yields

\* Every step keeps the debts of batches.
LEMMA YieldsNext == TypeOK /\ Turns /\ OwnMutex /\ AllYield /\ [Next]_vars => AllYield'
<1> SUFFICES ASSUME TypeOK, Turns, OwnMutex, AllYield, [Next]_vars PROVE AllYield'
  OBVIOUS
<1>1. CASE Tick \/ UNCHANGED vars
  <2>1. UNCHANGED <<pc, job, want, mutex, flock, woken>>
    BY <1>1 DEF Tick, vars, locks
  <2> QED BY <2>1 DEF AllYield, Yields, Awaited
<1> QED BY <1>1, Steps, YieldsCall, YieldsTaking, YieldsTrying, YieldsWriting,
           YieldsLeaving, YieldsCrash

\* What a batch owes, and where turns are, give BatchYields.
LEMMA BatchYieldsOf == TypeOK /\ AllYield => BatchYields
BY DEF AllYield, Yields, BatchYields, InQueue, Writers

\* queue.rs FileLock and rebuild.rs batch: for any stores and threads, and
\* whatever processes die, one thread at a time has a turn of each lock, no
\* normal store answers Busy, and a rebuild begins no batch before a writer
\* its last one woke had a turn.
THEOREM QueueKept == Spec => []QueueInv
<1> DEFINE Inv == TypeOK /\ Turns /\ OwnMutex /\ AllYield
<1>1. Init => Inv
  <2> SUFFICES ASSUME Init PROVE Inv
    OBVIOUS
  <2> USE StoresAssumption, TimesAssumption, Kinds
  <2>1. TypeOK
    BY DEF Init, AtRest, TypeOK, StartOf, Points, Locks
  <2>2. \A t \in Threads : pc[t] = IF t \in Guards THEN "closed" ELSE "idle"
    BY DEF Init, AtRest, StartOf
  <2>3. Shape
    BY <2>2 DEF Init, AtRest, Shape, GuardShape, WriterShape, Locks
  <2>4. LockInv
    BY <2>2 DEF LockInv, Holds, HasTurn, InQueue, InMaintenance
  <2>5. TxInv /\ WriterNeverBusy
    BY DEF Init, AtRest, TxInv, WriterNeverBusy
  <2>6. OwnMutex /\ AllYield
    BY DEF Init, AtRest, OwnMutex, AllYield, Yields
  <2> QED BY <2>1, <2>3, <2>4, <2>5, <2>6 DEF Turns
<1>2. Inv /\ [Next]_vars => Inv'
  BY TypeNext, TurnsNext, OwnNext, YieldsNext
<1>3. Inv => QueueInv
  BY OneTurnOfLocks, BatchYieldsOf DEF Turns, QueueInv
<1> QED BY <1>1, <1>2, <1>3, PTL DEF Spec
-----------------------------------------------------------------------------
(* The updater *)

Triggers == {"manual", "detached"}
MaybeVersion == Versions \cup {Nothing}

ClaimRecord == [day : 0..MaxDay, owner : Procs, trigger : Triggers,
                state : {"claimed", "held", "closed"}]
ResultRecord == [claim : 1..MaxClaims, day : 0..MaxDay,
                 outcome : {"current", "staged", "failed", "interrupted"},
                 active : MaybeVersion, staged : MaybeVersion]

\* The steps of a check that has its claim and is not yet at its record.
Delivering == {"confirmStaging", "stage", "recheck", "confirmActivation",
               "exchange", "inspect", "restore", "clean"}
Checking == {"fetch"} \cup Delivering

\* What a process may be doing.
Doing ==
    {Idle}
    \cup [at : {"claim"}, trigger : Triggers, day : 0..MaxDay, retried : BOOLEAN]
    \cup [at : {"reconcile"}, trigger : Triggers, day : 0..MaxDay, claim : 1..MaxClaims,
          active : MaybeVersion, staged : SUBSET Versions]
    \cup [at : {"resolve"}, claim : 1..MaxClaims, active : MaybeVersion,
          staged : SUBSET Versions]
    \cup [at : {"fetch"}, claim : 1..MaxClaims]
    \cup [at : Delivering, claim : 1..MaxClaims, start : Versions, offer : Versions]
    \cup [at : {"complete"}, claim : 1..MaxClaims, outcome : {"current", "staged", "failed"},
          active : MaybeVersion, staged : MaybeVersion]

HasClaim(r) == r.at \notin {"idle", "claim"}

\* The fields of what a process is doing, by its step.
LEMMA Shapes ==
    ASSUME NEW r \in Doing
    PROVE  /\ ("claim" \in DOMAIN r) <=> HasClaim(r)
           /\ HasClaim(r) => r.claim \in 1..MaxClaims
           /\ r.at = "claim" => /\ r.trigger \in Triggers /\ r.day \in 0..MaxDay
                                /\ r.retried \in BOOLEAN
           /\ r.at \in Delivering => r.start \in Versions /\ r.offer \in Versions
           /\ r.at \in {"reconcile", "resolve"} =>
                 r.active \in MaybeVersion /\ r.staged \subseteq Versions
           /\ r.at = "reconcile" => r.trigger \in Triggers /\ r.day \in 0..MaxDay
           /\ r.at = "complete" =>
                 /\ r.outcome \in {"current", "staged", "failed"}
                 /\ r.active \in MaybeVersion /\ r.staged \in MaybeVersion
BY DEF Doing, HasClaim, Idle, Delivering
-----------------------------------------------------------------------------
(* The inductive invariant *)

Types ==
    /\ day \in 0..MaxDay /\ kills \in 0..MaxKills /\ lapsed \in BOOLEAN
    /\ claims \in Seq(ClaimRecord) /\ Len(claims) <= MaxClaims
    /\ install \in Seq(ResultRecord)
    /\ \A k \in DOMAIN install : install[k].claim \in DOMAIN claims
    /\ staged \subseteq Versions
    /\ temp \in [1..MaxClaims -> Entry]
    /\ proc \in [Procs -> Doing]
    /\ \A p \in Procs : HasClaim(proc[p]) => proc[p].claim \in DOMAIN claims

\* One claim is open, and the results are those of the closed claims.
OneOpen == \A i, j \in OpenClaims : i = j

Results ==
    /\ \A k, l \in DOMAIN install : install[k].claim = install[l].claim => k = l
    /\ \A i \in DOMAIN claims :
          claims[i].state = "closed" <=> \E k \in DOMAIN install : install[k].claim = i

\* What a check doing r relies on: its offer is published, and what it may
\* exchange into the stable path is a published version or the owner's.
Linked(r) ==
    /\ r.at \in {"recheck", "confirmActivation", "exchange"} => r.offer \in staged
    /\ r.at \in {"exchange", "inspect", "restore"} => temp[r.claim] \in staged \cup Entries

\* A temporary entry is one check's own.
Links ==
    /\ \A p \in Procs : Linked(proc[p])
    /\ \A p, q \in Procs :
          /\ proc[p].at \in Checking /\ proc[q].at \in Checking
          /\ proc[p].claim = proc[q].claim
          => p = q

IInv == Types /\ OneOpen /\ Results /\ DailyClaim /\ StableRuns /\ Links

-----------------------------------------------------------------------------
(* Steps that leave the claims alone *)

\* Time, a lapse, a heartbeat and the owner.
LEMMA AroundOK ==
    ASSUME IInv, UNCHANGED <<claims, install, staged, temp, proc>>,
           day' \in 0..MaxDay, kills' \in 0..MaxKills, lapsed' \in BOOLEAN,
           stable' \in staged \cup Entries
    PROVE  IInv'
<1>1. Types'
  BY DEF IInv, Types, Entry, Doing, HasClaim, ClaimRecord, ResultRecord
<1>2. OneOpen' /\ Results' /\ DailyClaim'
  BY DEF IInv, OneOpen, Results, DailyClaim, OpenClaims
<1>3. StableRuns' /\ Links'
  BY DEF IInv, StableRuns, Links, Linked
<1> QED BY <1>1, <1>2, <1>3 DEF IInv

\* A check goes on with what it has: it may publish a version, change its own
\* temporary entry and exchange the stable path.
LEMMA GoesOn ==
    ASSUME IInv, NEW p \in Procs, NEW r \in Doing, proc' = [proc EXCEPT ![p] = r],
           UNCHANGED <<claims, install>>,
           day' \in 0..MaxDay, kills' \in 0..MaxKills, lapsed' \in BOOLEAN,
           staged \subseteq staged', staged' \subseteq Versions,
           stable' \in staged' \cup Entries,
           HasClaim(r) => r.claim \in DOMAIN claims,
           r.at \in Checking => proc[p].at \in Checking /\ r.claim = proc[p].claim,
           \/ temp' = temp
           \/ /\ proc[p].at \in Checking
              /\ \E e \in Entry : temp' = [temp EXCEPT ![proc[p].claim] = e],
           r.at \in {"recheck", "confirmActivation", "exchange"} => r.offer \in staged',
           r.at \in {"exchange", "inspect", "restore"} =>
               temp'[r.claim] \in staged' \cup Entries
    PROVE  IInv'
<1>1. /\ proc \in [Procs -> Doing] /\ temp \in [1..MaxClaims -> Entry]
      /\ \A q \in Procs : HasClaim(proc[q]) => proc[q].claim \in DOMAIN claims
  BY DEF IInv, Types
<1>2. /\ proc'[p] = r /\ proc' \in [Procs -> Doing]
      /\ \A q \in Procs \ {p} : proc'[q] = proc[q]
  BY <1>1
<1>3. temp' \in [1..MaxClaims -> Entry]
  BY <1>1
<1>4. Types'
  <2>1. \A q \in Procs : HasClaim(proc'[q]) => proc'[q].claim \in DOMAIN claims
    BY <1>1, <1>2
  <2> QED BY <1>2, <1>3, <2>1 DEF IInv, Types, Entry, HasClaim
<1>5. OneOpen' /\ Results' /\ DailyClaim'
  BY DEF IInv, OneOpen, Results, DailyClaim, OpenClaims
<1>6. ASSUME NEW q \in Procs PROVE Linked(proc[q])'
  <2>1. CASE q = p
    BY <1>2, <2>1 DEF Linked
  <2>2. CASE q # p
    <3>1. proc'[q] = proc[q] /\ Linked(proc[q])
      BY <1>2, <2>2 DEF IInv, Links
    <3>2. proc[q].at \in Checking => temp'[proc[q].claim] = temp[proc[q].claim]
      <4>1. CASE temp' = temp
        BY <4>1
      <4>2. CASE /\ proc[p].at \in Checking
                 /\ \E e \in Entry : temp' = [temp EXCEPT ![proc[p].claim] = e]
        <5>1. proc[q].at \in Checking => proc[q].claim # proc[p].claim
          BY <2>2, <4>2 DEF IInv, Links
        <5>2. proc[q].at \in Checking => proc[q].claim \in 1..MaxClaims
          BY <1>1, Shapes DEF HasClaim, Checking, Delivering
        <5> QED BY <1>1, <4>2, <5>1, <5>2
      <4> QED BY <4>1, <4>2
    <3> QED BY <3>1, <3>2 DEF Linked, Checking, Delivering
  <2> QED BY <2>1, <2>2
<1>7. Links'
  <2>1. \A q, s \in Procs :
          /\ proc'[q].at \in Checking /\ proc'[s].at \in Checking
          /\ proc'[q].claim = proc'[s].claim
          => q = s
    BY <1>2 DEF IInv, Links
  <2> QED BY <1>6, <2>1 DEF Links
<1>8. StableRuns'
  BY DEF StableRuns
<1> QED BY <1>4, <1>5, <1>7, <1>8 DEF IInv
-----------------------------------------------------------------------------
(* Steps on the claims and results *)

\* A finite set of numbers has a highest one: the one with the fewest above.
LEMMA HighestExists ==
    ASSUME NEW V \in SUBSET Nat, IsFiniteSet(V), V # {}
    PROVE  \E v \in V : \A w \in V : w <= v
<1> DEFINE Over(v) == {w \in V : w > v}
           Counts == {Cardinality(Over(v)) : v \in V}
<1>1. \A v \in V : IsFiniteSet(Over(v)) /\ Cardinality(Over(v)) \in Nat
  BY FS_Subset, FS_CardinalityType
<1>2. PICK n \in Counts : \A m \in Counts : n <= m
  <2>1. Counts \in SUBSET Nat /\ Counts # {}
    BY <1>1
  <2> HIDE DEF Counts
  <2>2. PICK n \in Counts : \A m \in Counts : ~(<<m, n>> \in OpToRel(<, Nat))
    BY <2>1, NatLessThanWellFounded, WFMin
  <2>3. \A m \in Counts : ~(m < n)
    BY <2>1, <2>2 DEF OpToRel
  <2> QED BY <2>1, <2>3
<1>3. PICK v \in V : \A w \in V : Cardinality(Over(v)) <= Cardinality(Over(w))
  BY <1>2
<1>4. ASSUME NEW w \in V, w > v PROVE FALSE
  <2>1. Over(w) \subseteq Over(v) /\ Over(w) # Over(v)
    <3>1. v \in Nat /\ w \in Nat /\ V \subseteq Nat
      OBVIOUS
    <3>2. w \notin Over(w) /\ w \in Over(v)
      BY <1>4, <3>1
    <3>3. \A x \in V : x > w => x > v
      BY <1>4, <3>1
    <3> QED BY <3>2, <3>3
  <2>2. Cardinality(Over(w)) < Cardinality(Over(v))
    <3> HIDE DEF Over
    <3> QED BY <1>1, <2>1, FS_Subset
  <2> QED BY <1>1, <1>3, <2>2
<1> QED BY <1>4

\* observed_result names a version or none.
LEMMA AboveType ==
    ASSUME NEW versions \in SUBSET Versions, NEW active
    PROVE  Above(versions, active) \in MaybeVersion
<1> DEFINE Higher == {v \in versions : active = Nothing \/ v > active}
<1>1. Higher # {} => \E v \in Higher : \A w \in Higher : w <= v
  BY VersionsAssumption, FS_Subset, HighestExists
<1>2. Higher # {} => (CHOOSE v \in Higher : \A w \in Higher : w <= v) \in Versions
  BY <1>1
<1>3. Above(versions, active)
        = IF Higher = {} THEN Nothing ELSE CHOOSE v \in Higher : \A w \in Higher : w <= v
  BY DEF Above
<1> HIDE DEF Higher
<1> QED BY <1>2, <1>3 DEF MaybeVersion

\* Stopped, or at its claim again: a process that holds nothing.
Fresh(r) == r \in Doing /\ r.at \in {"idle", "claim"}

\* A process that becomes fresh takes no claim and no temporary entry.
LEMMA FreshProc ==
    ASSUME IInv, NEW p \in Procs, NEW r, Fresh(r), proc' = [proc EXCEPT ![p] = r],
           DOMAIN claims' = DOMAIN claims, UNCHANGED <<staged, temp>>
    PROVE  /\ proc' \in [Procs -> Doing]
           /\ \A q \in Procs : HasClaim(proc'[q]) => proc'[q].claim \in DOMAIN claims'
           /\ Links'
<1>1. /\ proc \in [Procs -> Doing]
      /\ \A q \in Procs : HasClaim(proc[q]) => proc[q].claim \in DOMAIN claims
  BY DEF IInv, Types
<1>2. /\ proc'[p] = r /\ proc' \in [Procs -> Doing]
      /\ \A q \in Procs \ {p} : proc'[q] = proc[q]
  BY <1>1 DEF Fresh
<1>3. \A q \in Procs : HasClaim(proc'[q]) => proc'[q].claim \in DOMAIN claims'
  BY <1>1, <1>2 DEF Fresh, HasClaim
<1>4. \A q \in Procs : Linked(proc[q])'
  BY <1>2 DEF Fresh, IInv, Links, Linked
<1>5. \A q, s \in Procs :
          /\ proc'[q].at \in Checking /\ proc'[s].at \in Checking
          /\ proc'[q].claim = proc'[s].claim
          => q = s
  BY <1>2 DEF Fresh, IInv, Links, Checking, Delivering
<1> QED BY <1>2, <1>3, <1>4, <1>5 DEF Links

\* A result closes its claim, which was open and had none.
LEMMA RecordOK ==
    ASSUME IInv, NEW p \in Procs, NEW r, Fresh(r), proc' = [proc EXCEPT ![p] = r],
           NEW i \in OpenClaims,
           NEW outcome \in {"current", "staged", "failed", "interrupted"},
           NEW active \in MaybeVersion, NEW version \in MaybeVersion,
           Record(i, outcome, active, version), UNCHANGED <<around, disk>>
    PROVE  IInv'
<1> DEFINE e == [claim |-> i, day |-> claims[i].day, outcome |-> outcome,
                 active |-> active, staged |-> version]
           K == DOMAIN install
<1>1. /\ claims \in Seq(ClaimRecord) /\ Len(claims) <= MaxClaims
      /\ install \in Seq(ResultRecord)
      /\ i \in DOMAIN claims /\ claims[i].state # "closed"
      /\ DOMAIN claims = 1..Len(claims) /\ Len(claims) \in Nat
  BY DEF IInv, Types, OpenClaims
<1>0. claims[i] \in ClaimRecord
  BY <1>1
<1>2. e \in ResultRecord /\ e.claim = i
  <2>1. claims[i].day \in 0..MaxDay
    BY <1>0 DEF ClaimRecord
  <2>2. i \in 1..MaxClaims
    <3>1. MaxClaims \in Nat
      BY BoundAssumption
    <3> QED BY <1>1, <3>1
  <2> QED BY <2>1, <2>2 DEF ResultRecord
<1>3. /\ install' = Append(install, e)
      /\ claims' = [claims EXCEPT ![i].state = "closed"]
      /\ lapsed' = FALSE /\ UNCHANGED <<around, disk>>
  BY DEF Record
<1> HIDE DEF e
<1>4. /\ install' \in Seq(ResultRecord) /\ DOMAIN install' = K \cup {Len(install) + 1}
      /\ Len(install) + 1 \notin K /\ install'[Len(install) + 1] = e
      /\ \A k \in K : install'[k] = install[k]
  BY <1>1, <1>2, <1>3
<1>5. /\ claims' \in Seq(ClaimRecord) /\ DOMAIN claims' = DOMAIN claims
      /\ Len(claims') = Len(claims) /\ claims'[i].state = "closed"
      /\ \A j \in DOMAIN claims \ {i} : claims'[j] = claims[j]
      /\ \A j \in DOMAIN claims : claims'[j].day = claims[j].day
                                  /\ claims'[j].trigger = claims[j].trigger
  <2>1. [claims[i] EXCEPT !.state = "closed"] \in ClaimRecord
    BY <1>0 DEF ClaimRecord
  <2>2. claims' = [claims EXCEPT ![i] = [claims[i] EXCEPT !.state = "closed"]]
    BY <1>3
  <2>3. claims'[i] = [claims[i] EXCEPT !.state = "closed"]
        /\ \A j \in DOMAIN claims \ {i} : claims'[j] = claims[j]
        /\ DOMAIN claims' = DOMAIN claims
    BY <1>1, <2>2
  <2>4. claims' \in Seq(ClaimRecord) /\ Len(claims') = Len(claims)
    BY <1>1, <2>1, <2>2
  <2> QED BY <1>0, <2>3, <2>4 DEF ClaimRecord
<1>6. UNCHANGED <<day, kills, stable, staged, temp, placed>>
  BY <1>3 DEF around, disk
<1>7. /\ proc' \in [Procs -> Doing]
      /\ \A q \in Procs : HasClaim(proc'[q]) => proc'[q].claim \in DOMAIN claims'
      /\ Links'
  BY <1>5, <1>6, FreshProc
<1>8. Types'
  <2>1. \A k \in DOMAIN install' : install'[k].claim \in DOMAIN claims'
    BY <1>1, <1>2, <1>4, <1>5 DEF IInv, Types
  <2> QED BY <1>1, <1>3, <1>4, <1>5, <1>6, <1>7, <2>1 DEF IInv, Types, Entry
<1>9. OneOpen'
  BY <1>1, <1>5 DEF IInv, OneOpen, OpenClaims
<1>10. \A k \in K : install[k].claim # i
  BY <1>1 DEF IInv, Results
<1>11. Results'
  <2>1. \A k, l \in DOMAIN install' : install'[k].claim = install'[l].claim => k = l
    BY <1>2, <1>4, <1>10 DEF IInv, Results
  <2>2. ASSUME NEW j \in DOMAIN claims'
        PROVE  claims'[j].state = "closed" <=> \E k \in DOMAIN install' : install'[k].claim = j
    <3>1. CASE j = i
      BY <1>2, <1>4, <1>5, <3>1
    <3>2. CASE j # i
      <4>1. claims[j].state = "closed" <=> \E k \in K : install[k].claim = j
        BY <1>5, <3>2 DEF IInv, Results
      <4> QED BY <1>2, <1>4, <1>5, <3>2, <4>1
    <3> QED BY <3>1, <3>2
  <2> QED BY <2>1, <2>2 DEF Results
<1>12. DailyClaim' /\ StableRuns'
  BY <1>5, <1>6 DEF IInv, DailyClaim, StableRuns
<1> QED BY <1>7, <1>8, <1>9, <1>11, <1>12 DEF IInv
\* A claim is held for the owner.
LEMMA HoldOK ==
    ASSUME IInv, NEW p \in Procs, Stop(p), NEW i \in OpenClaims,
           claims' = [claims EXCEPT ![i].state = "held"],
           UNCHANGED <<lapsed, install, around, disk>>
    PROVE  IInv'
<1>1. /\ claims \in Seq(ClaimRecord) /\ i \in DOMAIN claims /\ claims[i].state # "closed"
  BY DEF IInv, Types, OpenClaims
<1>2. claims[i] \in ClaimRecord
  BY <1>1
<1>3. [claims[i] EXCEPT !.state = "held"] \in ClaimRecord
  BY <1>2 DEF ClaimRecord
<1>4. claims' = [claims EXCEPT ![i] = [claims[i] EXCEPT !.state = "held"]]
  OBVIOUS
<1>5. claims'[i] = [claims[i] EXCEPT !.state = "held"]
      /\ \A j \in DOMAIN claims \ {i} : claims'[j] = claims[j]
      /\ DOMAIN claims' = DOMAIN claims
  BY <1>1, <1>4
<1>6. claims' \in Seq(ClaimRecord) /\ Len(claims') = Len(claims)
  BY <1>1, <1>3, <1>4
<1>7. /\ claims'[i].state = "held"
      /\ \A j \in DOMAIN claims : claims'[j].day = claims[j].day
                                  /\ claims'[j].trigger = claims[j].trigger
                                  /\ (claims'[j].state = "closed" <=> claims[j].state = "closed")
  BY <1>1, <1>2, <1>5 DEF ClaimRecord
<1>8. UNCHANGED <<lapsed, install, day, kills, stable, staged, temp, placed>>
  BY DEF around, disk
<1>9. Fresh(Idle)
  BY DEF Fresh, Idle, Doing
<1>10. /\ proc' \in [Procs -> Doing]
       /\ \A q \in Procs : HasClaim(proc'[q]) => proc'[q].claim \in DOMAIN claims'
       /\ Links'
  BY <1>5, <1>8, <1>9, FreshProc DEF Stop
<1>11. Types'
  BY <1>5, <1>6, <1>8, <1>10 DEF IInv, Types, Entry
<1>12. OneOpen'
  BY <1>5, <1>7 DEF IInv, OneOpen, OpenClaims
<1>13. Results'
  BY <1>5, <1>7, <1>8 DEF IInv, Results
<1>14. DailyClaim' /\ StableRuns'
  BY <1>5, <1>7, <1>8 DEF IInv, DailyClaim, StableRuns
<1> QED BY <1>10, <1>11, <1>12, <1>13, <1>14 DEF IInv

\* decide: a new claim where none is open and, for a detached check, none of
\* its day.
LEMMA NewClaimOK ==
    ASSUME IInv, NEW p \in Procs, proc[p].at = "claim",
           OpenClaims = {}, ~NotDue(p), Len(claims) < MaxClaims,
           claims' = Append(claims, [day |-> proc[p].day, owner |-> p,
                                     trigger |-> proc[p].trigger, state |-> "claimed"]),
           lapsed' = FALSE,
           proc' = [proc EXCEPT ![p] = [at |-> "fetch", claim |-> Len(claims) + 1]],
           UNCHANGED <<install, around, disk>>
    PROVE  IInv'
<1> DEFINE e == [day |-> proc[p].day, owner |-> p, trigger |-> proc[p].trigger,
                 state |-> "claimed"]
           n == Len(claims) + 1
           r == [at |-> "fetch", claim |-> n]
<1>1. /\ proc \in [Procs -> Doing] /\ claims \in Seq(ClaimRecord)
      /\ \A q \in Procs : HasClaim(proc[q]) => proc[q].claim \in DOMAIN claims
      /\ DOMAIN claims = 1..Len(claims) /\ Len(claims) \in Nat
  BY DEF IInv, Types
<1>2. e \in ClaimRecord /\ e.state = "claimed" /\ e.day = proc[p].day
      /\ e.trigger = proc[p].trigger
  BY <1>1, Shapes DEF ClaimRecord
<1> HIDE DEF e
<1>3. /\ claims' \in Seq(ClaimRecord) /\ Len(claims') = n /\ claims'[n] = e
      /\ DOMAIN claims' = DOMAIN claims \cup {n} /\ n \notin DOMAIN claims
      /\ \A j \in DOMAIN claims : claims'[j] = claims[j]
  BY <1>1, <1>2 DEF e
<1>4. n \in 1..MaxClaims /\ MaxClaims \in Nat
  BY <1>1, BoundAssumption
<1>5. r \in Doing /\ r.at = "fetch" /\ r.claim = n
  BY <1>4 DEF Doing
<1>6. UNCHANGED <<day, kills, stable, staged, temp, placed>>
  BY DEF around, disk
<1> HIDE DEF n, r
<1>7. /\ proc'[p] = r /\ proc' \in [Procs -> Doing]
      /\ \A q \in Procs \ {p} : proc'[q] = proc[q]
  BY <1>1, <1>5 DEF r, n
<1>8. Types'
  <2>1. \A k \in DOMAIN install : install[k].claim \in DOMAIN claims'
    BY <1>3 DEF IInv, Types
  <2>2. \A q \in Procs : HasClaim(proc'[q]) => proc'[q].claim \in DOMAIN claims'
    BY <1>1, <1>3, <1>5, <1>7
  <2>3. Len(claims') <= MaxClaims
    BY <1>3, <1>4
  <2> QED BY <1>3, <1>6, <1>7, <2>1, <2>2, <2>3 DEF IInv, Types, Entry
<1>9. OneOpen'
  BY <1>3 DEF OneOpen, OpenClaims
<1>10. Results'
  <2>1. \A j \in DOMAIN claims' :
            claims'[j].state = "closed" <=> \E k \in DOMAIN install : install[k].claim = j
    <3>1. \A k \in DOMAIN install : install[k].claim # n
      BY <1>3 DEF IInv, Types
    <3>2. \A j \in DOMAIN claims :
            claims[j].state = "closed" <=> \E k \in DOMAIN install : install[k].claim = j
      BY DEF IInv, Results
    <3> QED BY <1>2, <1>3, <3>1, <3>2
  <2>2. \A k, l \in DOMAIN install : install[k].claim = install[l].claim => k = l
    BY DEF IInv, Results
  <2> QED BY <2>1, <2>2 DEF Results
<1>11. DailyClaim'
  <2> SUFFICES ASSUME NEW i \in DOMAIN claims', NEW j \in DOMAIN claims', i < j,
                      claims'[j].trigger = "detached"
               PROVE  claims'[i].day # claims'[j].day
    BY DEF DailyClaim
  <2>1. CASE j = n
    <3>1. i \in DOMAIN claims /\ claims'[i] = claims[i]
      BY <1>3, <2>1
    <3>2. claims'[j] = e
      BY <1>3, <2>1
    <3> QED BY <1>2, <3>1, <3>2 DEF NotDue
  <2>2. CASE j # n
    <3>1. j \in DOMAIN claims /\ i \in DOMAIN claims
      BY <1>1, <1>3, <2>2 DEF n
    <3> QED BY <1>3, <3>1 DEF IInv, DailyClaim
  <2> QED BY <2>1, <2>2
<1>12. Links'
  <2>1. \A q \in Procs : Linked(proc[q])'
    BY <1>5, <1>6, <1>7 DEF IInv, Links, Linked
  <2>2. \A q \in Procs \ {p} : proc[q].at \in Checking => proc'[q].claim # n
    BY <1>1, <1>3, <1>7 DEF Checking, Delivering, HasClaim
  <2>3. \A q, s \in Procs :
          /\ proc'[q].at \in Checking /\ proc'[s].at \in Checking
          /\ proc'[q].claim = proc'[s].claim
          => q = s
    BY <1>5, <1>7, <2>2 DEF IInv, Links
  <2> QED BY <2>1, <2>3 DEF Links
<1>13. StableRuns'
  BY <1>6 DEF IInv, StableRuns
<1> QED BY <1>8, <1>9, <1>10, <1>11, <1>12, <1>13 DEF IInv
-----------------------------------------------------------------------------
(* Each action keeps the invariant *)

\* What a check may do to the disk while it delivers.
DiskStep(p) ==
    /\ UNCHANGED <<claims, install, around>> /\ lapsed' \in BOOLEAN
    /\ staged \subseteq staged' /\ staged' \subseteq Versions
    /\ stable' \in staged' \cup Entries
    /\ \/ temp' = temp
       \/ /\ proc[p].at \in Checking
          /\ \E e \in Entry : temp' = [temp EXCEPT ![proc[p].claim] = e]

\* A step that leaves the disk alone.
LEMMA StillDisk ==
    ASSUME IInv, NEW p \in Procs, UNCHANGED <<around, claims, install, disk>>,
           lapsed' \in BOOLEAN
    PROVE  DiskStep(p)
BY DEF DiskStep, disk, IInv, Types, StableRuns

\* The types a process relies on.
LEMMA Facts ==
    ASSUME IInv, NEW p \in Procs
    PROVE  /\ proc[p] \in Doing
           /\ HasClaim(proc[p]) => proc[p].claim \in DOMAIN claims
           /\ lapsed \in BOOLEAN /\ staged \subseteq Versions
           /\ stable \in staged \cup Entries
           /\ JudgeActive(stable) \in MaybeVersion
           /\ temp \in [1..MaxClaims -> Entry]
           /\ Linked(proc[p])
BY DEF IInv, Types, JudgeActive, MaybeVersion, StableRuns, Links

\* The step ends at its record, failed or done.
LEMMA FailOK ==
    ASSUME IInv, NEW p \in Procs, proc[p].at \in Checking, DiskStep(p),
           NEW outcome \in {"current", "staged", "failed"},
           NEW active \in MaybeVersion, NEW version \in MaybeVersion,
           proc' = [proc EXCEPT ![p] =
               [at |-> "complete", claim |-> proc[p].claim, outcome |-> outcome,
                active |-> active, staged |-> version]]
    PROVE  IInv'
<1> DEFINE r == [at |-> "complete", claim |-> proc[p].claim, outcome |-> outcome,
                 active |-> active, staged |-> version]
<1>1. proc[p] \in Doing /\ HasClaim(proc[p])
  BY Facts DEF Checking, Delivering, HasClaim
<1>2. proc[p].claim \in 1..MaxClaims /\ proc[p].claim \in DOMAIN claims
  BY <1>1, Facts, Shapes
<1>3. r \in Doing
  BY <1>2 DEF Doing
<1>4. r.at = "complete" /\ r.claim = proc[p].claim
  OBVIOUS
<1>5. r.at \notin Checking
  BY <1>4 DEF Checking, Delivering
<1>6. day' \in 0..MaxDay /\ kills' \in 0..MaxKills
  BY DEF IInv, Types, DiskStep, around
<1>7. proc' = [proc EXCEPT ![p] = r]
  OBVIOUS
<1> HIDE DEF r
<1> QED BY <1>2, <1>3, <1>4, <1>5, <1>6, <1>7, GoesOn DEF DiskStep

\* The check goes on to its next step.
LEMMA StepOK ==
    ASSUME IInv, NEW p \in Procs, proc[p].at \in Delivering, NEW at \in Delivering,
           GoTo(p, at), DiskStep(p),
           at \in {"recheck", "confirmActivation", "exchange"} => proc[p].offer \in staged',
           at \in {"exchange", "inspect", "restore"} =>
               temp'[proc[p].claim] \in staged' \cup Entries
    PROVE  IInv'
<1> DEFINE r == [proc[p] EXCEPT !.at = at]
<1>1. proc[p] \in Doing /\ HasClaim(proc[p])
  BY Facts DEF Delivering, HasClaim
<1>2. proc[p] \in [at : Delivering, claim : 1..MaxClaims, start : Versions, offer : Versions]
  BY <1>1 DEF Doing, Idle, Delivering
<1>3. /\ r \in [at : Delivering, claim : 1..MaxClaims, start : Versions, offer : Versions]
      /\ r.at = at /\ r.claim = proc[p].claim /\ r.offer = proc[p].offer
  BY <1>2
<1>4. r \in Doing
  BY <1>3 DEF Doing
<1>5. proc[p].claim \in DOMAIN claims
  BY <1>1, Facts
<1>6. day' \in 0..MaxDay /\ kills' \in 0..MaxKills
  BY DEF IInv, Types, DiskStep, around
<1>7. proc' = [proc EXCEPT ![p] = r]
  BY DEF GoTo
<1>8. proc[p].at \in Checking
  BY DEF Checking
<1> HIDE DEF r
<1> QED BY <1>3, <1>4, <1>5, <1>6, <1>7, <1>8, GoesOn DEF DiskStep

\* A process stops or starts over and touches nothing.
LEMMA StopOK ==
    ASSUME IInv, NEW p \in Procs, NEW r, Fresh(r), proc' = [proc EXCEPT ![p] = r],
           day' \in 0..MaxDay, kills' \in 0..MaxKills, UNCHANGED <<ledger, disk>>
    PROVE  IInv'
<1>1. r \in Doing /\ ~HasClaim(r) /\ r.at \notin Checking
  BY DEF Fresh, HasClaim, Checking, Delivering
<1>2. r.at \notin {"recheck", "confirmActivation", "exchange", "inspect", "restore"}
  BY DEF Fresh
<1>3. UNCHANGED <<claims, lapsed, install, stable, staged, temp, placed>>
  BY DEF ledger, disk
<1> QED BY <1>1, <1>2, <1>3, Facts, GoesOn

\* A stop, and a claim begun again, are fresh.
LEMMA FreshIdle == Fresh(Idle)
BY DEF Fresh, Idle, Doing

\* A check starts.
LEMMA StartOK ==
    ASSUME IInv, NEW p \in Procs, NEW trigger \in Triggers, Start(p, trigger)
    PROVE  IInv'
<1> DEFINE r == [at |-> "claim", trigger |-> trigger, day |-> day, retried |-> FALSE]
<1>1. Fresh(r)
  BY DEF Fresh, Doing, IInv, Types
<1>2. proc' = [proc EXCEPT ![p] = r] /\ UNCHANGED <<ledger, disk>>
  BY DEF Start
<1>3. day' \in 0..MaxDay /\ kills' \in 0..MaxKills
  BY DEF IInv, Types, Start, around
<1> HIDE DEF r
<1> QED BY <1>1, <1>2, <1>3, StopOK
\* The gate of a check.
LEMMA ClaimOK ==
    ASSUME IInv, NEW p \in Procs, Claim(p)
    PROVE  IInv'
<1>1. /\ proc[p].at = "claim" /\ UNCHANGED <<around, disk>>
      /\ day' \in 0..MaxDay /\ kills' \in 0..MaxKills
  BY DEF Claim, IInv, Types, around
<1>2. CASE /\ OpenClaims = {} /\ ~NotDue(p) /\ Len(claims) < MaxClaims
           /\ claims' = Append(claims, [day |-> proc[p].day, owner |-> p,
                                        trigger |-> proc[p].trigger, state |-> "claimed"])
           /\ lapsed' = FALSE
           /\ proc' = [proc EXCEPT ![p] = [at |-> "fetch", claim |-> Len(claims) + 1]]
           /\ UNCHANGED install
  BY <1>1, <1>2, NewClaimOK
<1>3. CASE Stop(p) /\ UNCHANGED ledger
  BY <1>1, <1>3, FreshIdle, StopOK DEF Stop
<1>4. ASSUME NEW i \in OpenClaims, UNCHANGED ledger,
             proc' = [proc EXCEPT ![p] =
                [at |-> "reconcile", trigger |-> proc[p].trigger, day |-> proc[p].day,
                 claim |-> i, active |-> JudgeActive(stable), staged |-> staged]]
      PROVE  IInv'
  <2> DEFINE r == [at |-> "reconcile", trigger |-> proc[p].trigger, day |-> proc[p].day,
                   claim |-> i, active |-> JudgeActive(stable), staged |-> staged]
  <2>1. i \in DOMAIN claims /\ i \in 1..MaxClaims
    BY BoundAssumption DEF IInv, Types, OpenClaims
  <2>2. proc[p].trigger \in Triggers /\ proc[p].day \in 0..MaxDay
    BY <1>1, Facts, Shapes
  <2>3. r \in Doing /\ r.at = "reconcile" /\ r.claim = i
    BY <2>1, <2>2, Facts DEF Doing
  <2>4. proc' = [proc EXCEPT ![p] = r]
    BY <1>4
  <2>5. DiskStep(p)
    BY <1>1, <1>4, Facts, StillDisk DEF ledger
  <2> HIDE DEF r
  <2> QED BY <1>1, <2>1, <2>3, <2>4, <2>5, GoesOn DEF DiskStep, Checking, Delivering
<1> QED BY <1>2, <1>3, <1>4 DEF Claim

\* Both reconciliations commit a result under a guard of the claim's state.
LEMMA MayOK ==
    ASSUME IInv, NEW i \in DOMAIN claims, NEW by \in {"baley", "owner"}, MayReconcile(i, by)
    PROVE  i \in OpenClaims
BY DEF MayReconcile, OpenClaims

\* The next check closes an interrupted claim or holds it for the owner.
LEMMA ReconcileOK ==
    ASSUME IInv, NEW p \in Procs, Reconcile(p)
    PROVE  IInv'
<1> DEFINE i == proc[p].claim
           r == [at |-> "claim", trigger |-> proc[p].trigger, day |-> proc[p].day,
                 retried |-> TRUE]
<1>1. proc[p] \in Doing /\ proc[p].at = "reconcile" /\ UNCHANGED <<around, disk>>
  BY Facts DEF Reconcile
<1>2. /\ i \in DOMAIN claims /\ proc[p].active \in MaybeVersion
      /\ proc[p].staged \in SUBSET Versions
      /\ proc[p].trigger \in Triggers /\ proc[p].day \in 0..MaxDay
  BY <1>1, Facts, Shapes DEF HasClaim
<1>3. Fresh(r)
  BY <1>2 DEF Fresh, Doing
<1> HIDE DEF r
<1>4. CASE /\ MayReconcile(i, "baley")
           /\ Interrupted(i, proc[p].active, proc[p].staged)
           /\ proc' = [proc EXCEPT ![p] = r]
  <2>1. i \in OpenClaims
    BY <1>2, <1>4, MayOK
  <2>2. Above(proc[p].staged, proc[p].active) \in MaybeVersion
    BY <1>2, AboveType
  <2> QED BY <1>1, <1>2, <1>3, <1>4, <2>1, <2>2, RecordOK DEF Interrupted
<1>5. CASE /\ MayReconcile(i, "baley")
           /\ claims' = [claims EXCEPT ![i].state = "held"]
           /\ Stop(p) /\ UNCHANGED <<lapsed, install>>
  BY <1>1, <1>2, <1>5, MayOK, HoldOK
<1>6. CASE Stop(p) /\ UNCHANGED ledger
  <2>1. day' \in 0..MaxDay /\ kills' \in 0..MaxKills
    BY <1>1 DEF IInv, Types, around
  <2> QED BY <1>1, <1>6, <2>1, FreshIdle, StopOK DEF Stop
<1> QED BY <1>4, <1>5, <1>6 DEF Reconcile, r

\* The owner reads what a held claim left.
LEMMA ResolveReadOK ==
    ASSUME IInv, NEW p \in Procs, ResolveRead(p)
    PROVE  IInv'
<1>1. PICK i \in OpenClaims :
          proc' = [proc EXCEPT ![p] =
              [at |-> "resolve", claim |-> i, active |-> JudgeActive(stable),
               staged |-> staged]]
  BY DEF ResolveRead
<1> DEFINE r == [at |-> "resolve", claim |-> i, active |-> JudgeActive(stable),
                 staged |-> staged]
<1>2. i \in DOMAIN claims /\ i \in 1..MaxClaims
  BY BoundAssumption DEF IInv, Types, OpenClaims
<1>3. r \in Doing /\ r.at = "resolve" /\ r.claim = i
  BY <1>2, Facts DEF Doing
<1>4. DiskStep(p)
  BY Facts, StillDisk DEF ResolveRead, ledger
<1>5. day' \in 0..MaxDay /\ kills' \in 0..MaxKills
  BY DEF ResolveRead, IInv, Types, around
<1>6. proc' = [proc EXCEPT ![p] = r]
  BY <1>1
<1> HIDE DEF r
<1> QED BY <1>2, <1>3, <1>4, <1>5, <1>6, GoesOn DEF DiskStep, Checking, Delivering

\* The owner closes a held claim.
LEMMA ResolveOK ==
    ASSUME IInv, NEW p \in Procs, Resolve(p)
    PROVE  IInv'
<1> DEFINE i == proc[p].claim
<1>1. proc[p] \in Doing /\ proc[p].at = "resolve" /\ UNCHANGED <<around, disk>>
  BY Facts DEF Resolve
<1>2. /\ i \in DOMAIN claims /\ proc[p].active \in MaybeVersion
      /\ proc[p].staged \in SUBSET Versions
  BY <1>1, Facts, Shapes DEF HasClaim
<1>3. proc' = [proc EXCEPT ![p] = Idle]
  BY DEF Resolve, Stop
<1>4. CASE MayReconcile(i, "owner")
  <2>1. i \in OpenClaims
    BY <1>2, <1>4, MayOK
  <2>2. Above(proc[p].staged, proc[p].active) \in MaybeVersion
    BY <1>2, AboveType
  <2> QED BY <1>1, <1>2, <1>3, <1>4, <2>1, <2>2, FreshIdle, RecordOK DEF Resolve, Interrupted
<1>5. CASE ~MayReconcile(i, "owner")
  <2>1. day' \in 0..MaxDay /\ kills' \in 0..MaxKills
    BY <1>1 DEF IInv, Types, around
  <2> QED BY <1>1, <1>3, <1>5, <2>1, FreshIdle, StopOK DEF Resolve
<1> QED BY <1>4, <1>5

\* The result and the completion of the claim.
LEMMA CompleteOK ==
    ASSUME IInv, NEW p \in Procs, Complete(p)
    PROVE  IInv'
<1> DEFINE i == proc[p].claim
<1>1. proc[p] \in Doing /\ proc[p].at = "complete" /\ UNCHANGED <<around, disk>>
  BY Facts DEF Complete
<1>2. /\ i \in DOMAIN claims /\ proc[p].outcome \in {"current", "staged", "failed"}
      /\ proc[p].active \in MaybeVersion /\ proc[p].staged \in MaybeVersion
  BY <1>1, Facts, Shapes DEF HasClaim
<1>3. proc' = [proc EXCEPT ![p] = Idle]
  BY DEF Complete, Stop
<1>4. CASE Completable(p)
  <2>1. i \in OpenClaims
    BY <1>2, <1>4 DEF Completable, Held, OpenClaims
  <2>2. Record(i, proc[p].outcome, proc[p].active, proc[p].staged)
    BY <1>4 DEF Complete
  <2> QED BY <1>1, <1>2, <1>3, <2>1, <2>2, FreshIdle, RecordOK
<1>5. CASE ~Completable(p)
  <2>1. day' \in 0..MaxDay /\ kills' \in 0..MaxKills
    BY <1>1 DEF IInv, Types, around
  <2> QED BY <1>1, <1>3, <1>5, <2>1, FreshIdle, StopOK DEF Complete
<1> QED BY <1>4, <1>5
\* The stable path is read and the offer fetched.
LEMMA FetchOK ==
    ASSUME IInv, NEW p \in Procs, Fetch(p)
    PROVE  IInv'
<1>1. /\ proc[p] \in Doing /\ proc[p].at = "fetch" /\ DiskStep(p)
      /\ proc[p].at \in Checking /\ HasClaim(proc[p])
  BY Facts, StillDisk DEF Fetch, ledger, Checking, HasClaim
<1>2. Nothing \in MaybeVersion /\ JudgeActive(stable) \in MaybeVersion
      /\ (JudgeActive(stable) # Nothing => stable \in Versions)
  BY Facts DEF MaybeVersion, JudgeActive
<1>3. CASE Fail(p, Nothing)
  BY <1>1, <1>2, <1>3, FailOK DEF Fail, FailWith
<1>4. ASSUME NEW v \in Versions, JudgeActive(stable) # Nothing, v > stable,
             proc' = [proc EXCEPT ![p] =
                 [at |-> "confirmStaging", claim |-> proc[p].claim, start |-> stable,
                  offer |-> v]]
      PROVE  IInv'
  <2> DEFINE r == [at |-> "confirmStaging", claim |-> proc[p].claim, start |-> stable,
                   offer |-> v]
  <2>1. proc[p].claim \in 1..MaxClaims /\ proc[p].claim \in DOMAIN claims
    BY <1>1, Facts, Shapes
  <2>2. r \in Doing /\ r.at = "confirmStaging" /\ r.claim = proc[p].claim
    BY <1>2, <1>4, <2>1 DEF Doing, Delivering
  <2>3. proc' = [proc EXCEPT ![p] = r]
    BY <1>4
  <2>4. day' \in 0..MaxDay /\ kills' \in 0..MaxKills
    BY <1>1 DEF IInv, Types, DiskStep, around
  <2> HIDE DEF r
  <2> QED BY <1>1, <2>1, <2>2, <2>3, <2>4, GoesOn DEF DiskStep
<1>5. ASSUME JudgeActive(stable) # Nothing,
             proc' = [proc EXCEPT ![p] =
                 [at |-> "complete", claim |-> proc[p].claim, outcome |-> "current",
                  active |-> stable, staged |-> Nothing]]
      PROVE  IInv'
  <2>1. stable \in MaybeVersion
    BY <1>2, <1>5 DEF MaybeVersion
  <2> QED BY <1>1, <1>2, <1>5, <2>1, FailOK
<1> QED BY <1>3, <1>4, <1>5 DEF Fetch

\* What a delivering check holds.
LEMMA Delivers ==
    ASSUME IInv, NEW p \in Procs, proc[p].at \in Delivering
    PROVE  /\ proc[p].at \in Checking
           /\ proc[p].claim \in 1..MaxClaims
           /\ proc[p].start \in MaybeVersion /\ proc[p].offer \in Versions
           /\ proc[p].offer \in MaybeVersion /\ Nothing \in MaybeVersion
           /\ JudgeActive(stable) \in MaybeVersion
BY Facts, Shapes DEF Checking, Delivering, HasClaim, MaybeVersion

\* The claim is confirmed before staging.
LEMMA ConfirmStagingOK ==
    ASSUME IInv, NEW p \in Procs, ConfirmStaging(p)
    PROVE  IInv'
<1>1. proc[p].at \in Delivering /\ lapsed' \in BOOLEAN
      /\ UNCHANGED <<around, claims, install, disk>>
  BY Facts DEF ConfirmStaging, Confirm, Unconfirmed, Delivering
<1>2. DiskStep(p)
  BY <1>1, StillDisk
<1>3. CASE GoTo(p, "stage")
  BY <1>1, <1>2, <1>3, StepOK DEF Delivering
<1>4. CASE FailWith(p, proc[p].start, Nothing)
  BY <1>1, <1>2, <1>4, Delivers, FailOK DEF FailWith
<1> QED BY <1>3, <1>4 DEF ConfirmStaging

\* A version is published.
LEMMA StageOK ==
    ASSUME IInv, NEW p \in Procs, Stage(p)
    PROVE  IInv'
<1>1. proc[p].at \in Delivering /\ UNCHANGED <<around, ledger, stable, temp, placed>>
  BY DEF Stage, Delivering
<1>2. staged' \subseteq Versions /\ staged \subseteq staged'
  BY <1>1, Facts, Delivers DEF Stage
<1>3. DiskStep(p)
  BY <1>1, <1>2, Facts DEF DiskStep, ledger
<1>4. CASE staged' = staged \cup {proc[p].offer} /\ GoTo(p, "recheck")
  BY <1>1, <1>3, <1>4, StepOK DEF Delivering
<1>5. CASE \E version \in {Nothing, proc[p].offer} : FailWith(p, proc[p].start, version)
  <2>1. PICK version \in MaybeVersion : FailWith(p, proc[p].start, version)
    BY <1>1, <1>5, Delivers
  <2> QED BY <1>1, <1>3, <2>1, Delivers, FailOK DEF FailWith
<1> QED BY <1>4, <1>5 DEF Stage

\* The stable path is read again.
LEMMA RecheckOK ==
    ASSUME IInv, NEW p \in Procs, Recheck(p)
    PROVE  IInv'
<1>1. proc[p].at \in Delivering /\ DiskStep(p) /\ staged' = staged
      /\ proc[p].offer \in staged
  BY Facts, StillDisk DEF Recheck, Delivering, ledger, disk, Linked
<1>2. CASE GoTo(p, "confirmActivation")
  BY <1>1, <1>2, StepOK DEF Delivering
<1>3. CASE Fail(p, proc[p].offer)
  BY <1>1, <1>3, Delivers, FailOK DEF Fail, FailWith
<1> QED BY <1>2, <1>3 DEF Recheck

\* The claim is confirmed and the temporary link made.
LEMMA ConfirmActivationOK ==
    ASSUME IInv, NEW p \in Procs, ConfirmActivation(p)
    PROVE  IInv'
<1>1. /\ proc[p].at \in Delivering /\ proc[p].offer \in staged /\ staged' = staged
      /\ proc[p].claim \in 1..MaxClaims /\ temp \in [1..MaxClaims -> Entry]
  BY Facts, Delivers DEF ConfirmActivation, Delivering, Linked
<1>2. proc[p].offer \in Entry
  BY <1>1, Facts DEF Entry
<1>3. CASE /\ Confirm(p)
           /\ temp' = [temp EXCEPT ![proc[p].claim] = proc[p].offer]
           /\ GoTo(p, "exchange")
  <2>1. DiskStep(p)
    BY <1>1, <1>2, <1>3, Facts DEF DiskStep, Confirm, ConfirmActivation, Checking
  <2>2. temp'[proc[p].claim] = proc[p].offer
    BY <1>1, <1>3
  <2> QED BY <1>1, <1>3, <2>1, <2>2, StepOK DEF Delivering
<1>4. CASE Unconfirmed(p) /\ Fail(p, proc[p].offer) /\ UNCHANGED temp
  <2>1. DiskStep(p)
    BY <1>1, <1>4, Facts DEF DiskStep, Confirm, Unconfirmed, ConfirmActivation
  <2> QED BY <1>1, <1>4, <2>1, Delivers, FailOK DEF Fail, FailWith
<1> QED BY <1>3, <1>4 DEF ConfirmActivation

\* What is in the temporary entry and at the stable path is an entry.
LEMMA EntriesOK ==
    ASSUME IInv
    PROVE  /\ staged \cup Entries \subseteq Entry /\ Nothing \in Entry /\ stable \in Entry
BY DEF IInv, Types, StableRuns, Entry

\* The two entries change places.
LEMMA ExchangeOK ==
    ASSUME IInv, NEW p \in Procs, Exchange(p)
    PROVE  IInv'
<1>1. /\ proc[p].at = "exchange" /\ proc[p].at \in Delivering /\ proc[p].at \in Checking
      /\ staged' = staged /\ UNCHANGED <<around, ledger>>
      /\ proc[p].claim \in 1..MaxClaims /\ temp \in [1..MaxClaims -> Entry]
      /\ temp[proc[p].claim] \in staged \cup Entries
      /\ stable \in staged \cup Entries
  BY Facts, Delivers DEF Exchange, Delivering, Linked, Checking
<1>2. CASE /\ stable' = temp[proc[p].claim]
           /\ temp' = [temp EXCEPT ![proc[p].claim] = stable]
           /\ GoTo(p, "inspect")
  <2>1. DiskStep(p)
    BY <1>1, <1>2, Facts, EntriesOK DEF DiskStep, ledger
  <2>2. temp'[proc[p].claim] = stable
    BY <1>1, <1>2
  <2> QED BY <1>1, <1>2, <2>1, <2>2, StepOK DEF Delivering
<1>3. CASE /\ temp' = [temp EXCEPT ![proc[p].claim] = Nothing]
           /\ Fail(p, proc[p].offer) /\ UNCHANGED stable
  <2>1. DiskStep(p)
    BY <1>1, <1>3, Facts, EntriesOK DEF DiskStep, ledger
  <2> QED BY <1>1, <1>3, <2>1, Delivers, FailOK DEF Fail, FailWith
<1> QED BY <1>2, <1>3 DEF Exchange

\* What was displaced is judged.
LEMMA InspectOK ==
    ASSUME IInv, NEW p \in Procs, Inspect(p)
    PROVE  IInv'
<1>1. /\ proc[p].at = "inspect" /\ proc[p].at \in Delivering /\ proc[p].at \in Checking
      /\ UNCHANGED <<around, ledger, stable, staged>>
      /\ temp[proc[p].claim] \in staged \cup Entries
  BY Facts DEF Inspect, Delivering, Linked, Checking
<1>2. CASE /\ temp' = [temp EXCEPT ![proc[p].claim] = Nothing]
           /\ proc' = [proc EXCEPT ![p] =
                 [at |-> "complete", claim |-> proc[p].claim, outcome |-> "staged",
                  active |-> proc[p].offer, staged |-> proc[p].offer]]
  <2>1. DiskStep(p)
    BY <1>1, <1>2, Facts, EntriesOK DEF DiskStep, ledger
  <2> QED BY <1>1, <1>2, <2>1, Delivers, FailOK
<1>3. CASE GoTo(p, "restore") /\ UNCHANGED temp
  <2>1. DiskStep(p)
    BY <1>1, <1>3, Facts DEF DiskStep, ledger
  <2> QED BY <1>1, <1>3, <2>1, StepOK DEF Delivering
<1> QED BY <1>2, <1>3 DEF Inspect

\* It is put back.
LEMMA RestoreOK ==
    ASSUME IInv, NEW p \in Procs, Restore(p)
    PROVE  IInv'
<1>1. /\ proc[p].at = "restore" /\ proc[p].at \in Delivering /\ proc[p].at \in Checking
      /\ UNCHANGED <<around, ledger, staged>>
      /\ temp[proc[p].claim] \in staged \cup Entries
  BY Facts DEF Restore, Delivering, Linked, Checking
<1>2. CASE /\ stable' = temp[proc[p].claim]
           /\ temp' = [temp EXCEPT ![proc[p].claim] = stable]
           /\ GoTo(p, "clean")
  <2>1. DiskStep(p)
    BY <1>1, <1>2, Facts, EntriesOK DEF DiskStep, ledger
  <2> QED BY <1>1, <1>2, <2>1, StepOK DEF Delivering
<1>3. CASE Fail(p, proc[p].offer) /\ UNCHANGED <<stable, temp>>
  <2>1. DiskStep(p)
    BY <1>1, <1>3, Facts DEF DiskStep, ledger
  <2> QED BY <1>1, <1>3, <2>1, Delivers, FailOK DEF Fail, FailWith
<1> QED BY <1>2, <1>3 DEF Restore

\* The temporary entry goes.
LEMMA CleanOK ==
    ASSUME IInv, NEW p \in Procs, Clean(p)
    PROVE  IInv'
<1>1. /\ proc[p].at \in Delivering /\ proc[p].at \in Checking
      /\ UNCHANGED <<around, ledger, stable, staged>> /\ Fail(p, proc[p].offer)
  BY DEF Clean, Delivering, Checking
<1>2. DiskStep(p)
  BY <1>1, Facts, EntriesOK DEF DiskStep, ledger, Clean
<1> QED BY <1>1, <1>2, Delivers, FailOK DEF Fail, FailWith

\* A killed process stops.
LEMMA KillOK ==
    ASSUME IInv, NEW p \in Procs, Kill(p)
    PROVE  IInv'
<1>1. day' \in 0..MaxDay /\ kills' \in 0..MaxKills
  BY BoundAssumption DEF Kill, IInv, Types
<1> QED BY <1>1, FreshIdle, StopOK DEF Kill, Stop

\* Time, the heartbeat and the owner, or no step.
LEMMA OutsideOK ==
    ASSUME IInv,
           \/ Lapse \/ Midnight \/ \E e \in Entries : Owner(e)
           \/ \E p \in Procs : Heartbeat(p)
           \/ UNCHANGED updateVars
    PROVE  IInv'
<1>1. UNCHANGED <<claims, install, staged, temp, proc>>
  BY DEF Lapse, Midnight, Owner, Heartbeat, updateVars, around, ledger, disk
<1>2. day' \in 0..MaxDay /\ kills' \in 0..MaxKills
  BY BoundAssumption DEF Lapse, Midnight, Owner, Heartbeat, updateVars, around, IInv, Types
<1>3. lapsed' \in BOOLEAN
  BY DEF Lapse, Midnight, Owner, Heartbeat, updateVars, ledger, IInv, Types
<1>4. stable' \in staged \cup Entries
  BY DEF Lapse, Midnight, Owner, Heartbeat, updateVars, disk, IInv, StableRuns
<1> QED BY <1>1, <1>2, <1>3, <1>4, AroundOK

\* IInv holds initially.
LEMMA InitOK == UpdateInit => IInv
<1> SUFFICES ASSUME UpdateInit PROVE IInv
  OBVIOUS
<1>1. Types
  <2>1. proc \in [Procs -> Doing] /\ \A p \in Procs : ~HasClaim(proc[p])
    BY DEF UpdateInit, Doing, HasClaim, Idle
  <2>2. temp \in [1..MaxClaims -> Entry]
    BY DEF UpdateInit, Entry
  <2>3. MaxClaims \in Nat /\ MaxDay \in Nat /\ MaxKills \in Nat
    BY BoundAssumption
  <2>4. claims \in Seq(ClaimRecord) /\ Len(claims) <= MaxClaims
    BY <2>3 DEF UpdateInit
  <2>5. install \in Seq(ResultRecord) /\ DOMAIN install = {}
    BY DEF UpdateInit
  <2>6. staged \subseteq Versions
    BY VersionsAssumption DEF UpdateInit
  <2>7. day \in 0..MaxDay /\ kills \in 0..MaxKills /\ lapsed \in BOOLEAN
    <3>1. day = 0 /\ kills = 0
      BY DEF UpdateInit
    <3>2. lapsed \in BOOLEAN
      BY DEF UpdateInit
    <3> QED BY <2>3, <3>1, <3>2
  <2> QED BY <2>1, <2>2, <2>4, <2>5, <2>6, <2>7 DEF Types
<1>2. OneOpen /\ Results /\ DailyClaim
  BY DEF UpdateInit, OneOpen, OpenClaims, Results, DailyClaim
<1>3. StableRuns
  BY DEF UpdateInit, StableRuns
<1>4. Links
  BY DEF UpdateInit, Links, Linked, Idle, Checking, Delivering
<1> QED BY <1>1, <1>2, <1>3, <1>4 DEF IInv

\* IInv is inductive.
LEMMA NextOK == IInv /\ [UpdateNext]_updateVars => IInv'
<1> SUFFICES ASSUME IInv, [UpdateNext]_updateVars PROVE IInv'
  OBVIOUS
<1>1. ASSUME NEW p \in Procs, Goes(p) PROVE IInv'
  BY <1>1, ClaimOK, ReconcileOK, ResolveOK, FetchOK, ConfirmStagingOK, StageOK,
     RecheckOK, ConfirmActivationOK, ExchangeOK, InspectOK, RestoreOK, CleanOK,
     CompleteOK DEF Goes
<1>2. ASSUME NEW p \in Procs,
             \/ \E trigger \in {"manual", "detached"} : Start(p, trigger)
             \/ ResolveRead(p) \/ Kill(p)
      PROVE  IInv'
  BY <1>2, StartOK, ResolveReadOK, KillOK DEF Triggers
<1>3. CASE \/ Lapse \/ Midnight \/ \E e \in Entries : Owner(e)
           \/ \E p \in Procs : Heartbeat(p)
           \/ UNCHANGED updateVars
  BY <1>3, OutsideOK
<1> QED BY <1>1, <1>2, <1>3 DEF UpdateNext

\* IInv holds in every behaviour: see UpdaterKept for what it says of the code.
THEOREM Updater == UpdateSpec => []IInv
BY InitOK, NextOK, PTL DEF UpdateSpec

\* claim.rs, record.rs, reconcile.rs and deliver.rs: one open claim and one
\* result for each closed one, whoever records it; one detached check a day;
\* and a stable path that runs a published version or is the owner's.
THEOREM UpdaterKept == UpdateSpec => []UpdateInv
<1>1. IInv => UpdateInv
  <2> SUFFICES ASSUME IInv PROVE UpdateInv
    OBVIOUS
  <2>1. UpdateTypeOK
    <3>1. \A i \in DOMAIN claims : claims[i] \in ClaimRecord
      BY DEF IInv, Types
    <3>2. \A i \in DOMAIN install :
             install[i] \in [claim : DOMAIN claims, day : 0..MaxDay,
                             outcome : {"current", "staged", "failed", "interrupted"},
                             active : MaybeVersion, staged : MaybeVersion]
      <4> SUFFICES ASSUME NEW i \in DOMAIN install
                   PROVE  install[i] \in [claim : DOMAIN claims, day : 0..MaxDay,
                             outcome : {"current", "staged", "failed", "interrupted"},
                             active : MaybeVersion, staged : MaybeVersion]
        OBVIOUS
      <4>1. install[i] \in ResultRecord /\ install[i].claim \in DOMAIN claims
        BY DEF IInv, Types
      <4> QED BY <4>1 DEF ResultRecord
    <3>3. stable \in Entry \ {Nothing}
      BY EntriesAssumption DEF IInv, Types, StableRuns, Entry
    <3>4. \A p \in Procs : "claim" \in DOMAIN proc[p] => proc[p].claim \in DOMAIN claims
      <4> SUFFICES ASSUME NEW p \in Procs, "claim" \in DOMAIN proc[p]
                   PROVE  proc[p].claim \in DOMAIN claims
        OBVIOUS
      <4>1. proc[p] \in Doing
        BY Facts
      <4>2. HasClaim(proc[p])
        BY <4>1, Shapes
      <4> QED BY <4>2, Facts
    <3> QED BY <3>1, <3>2, <3>3, <3>4
            DEF IInv, Types, UpdateTypeOK, ClaimRecord, MaybeVersion, Triggers
  <2>2. OneResultPerClaim
    <3>1. Cardinality(OpenClaims) <= 1
      <4>1. CASE OpenClaims = {}
        BY <4>1, FS_EmptySet
      <4>2. CASE OpenClaims # {}
        <5>1. PICK i \in OpenClaims : TRUE
          BY <4>2
        <5>2. OpenClaims = {i}
          BY <5>1 DEF IInv, OneOpen
        <5>3. Cardinality({i}) = 1
          BY FS_Singleton
        <5> QED BY <5>2, <5>3
      <4> QED BY <4>1, <4>2
    <3>2. ASSUME NEW i \in DOMAIN claims
          PROVE  Cardinality({k \in DOMAIN install : install[k].claim = i})
                     = IF claims[i].state = "closed" THEN 1 ELSE 0
      <4> DEFINE Of == {k \in DOMAIN install : install[k].claim = i}
      <4>1. CASE claims[i].state = "closed"
        <5>1. PICK k \in DOMAIN install : install[k].claim = i
          BY <4>1 DEF IInv, Results
        <5>2. Of = {k}
          BY <5>1 DEF IInv, Results
        <5> QED BY <4>1, <5>2, FS_Singleton
      <4>2. CASE claims[i].state # "closed"
        <5>1. Of = {}
          BY <4>2 DEF IInv, Results
        <5> QED BY <4>2, <5>1, FS_EmptySet
      <4> QED BY <4>1, <4>2
    <3> QED BY <3>1, <3>2 DEF OneResultPerClaim
  <2> QED BY <2>1, <2>2 DEF IInv, UpdateInv
<1> QED BY <1>1, Updater, PTL
-----------------------------------------------------------------------------
(* What the owner puts at the stable path *)

\* The steps of a check that has made no temporary entry yet.
Unlinked == {"fetch", "confirmStaging", "stage", "recheck", "confirmActivation"}

\* Not an entry the owner placed outside an activation.
Spare(x) == x \in Versions \cup {Nothing} \/ \E e \in placed : e.during /\ e.entry = x

\* What the only updater may remove or swap is never such an entry, and what
\* it finds at the stable path between its exchange and its end is none.
Keeps(r) ==
    /\ r.at \in Unlinked => temp[r.claim] = Nothing
    /\ r.at = "exchange" => temp[r.claim] \in Versions
    /\ r.at \in {"inspect", "restore"} => Spare(stable)
    /\ r.at = "clean" => Spare(temp[r.claim])

\* Each entry is placed once, and is no version.
PlacedOnce ==
    /\ \A e \in placed : e.entry \in Entries
    /\ \A d, e \in placed : d.entry = e.entry => d = e

\* No attempt, no temporary entry.
Unused == \A i \in 1..MaxClaims : i \notin DOMAIN claims => temp[i] = Nothing

KeepInv(p) == PlacedOnce /\ Unused /\ OccupantRestored /\ Keeps(proc[p])

\* Nothing the owner placed is lost where a spare temporary entry goes or the
\* temporary entry and the stable path change places.
LEMMA OccupantStep ==
    ASSUME PlacedOnce, OccupantRestored, UNCHANGED placed, NEW c \in 1..MaxClaims,
           temp \in [1..MaxClaims -> Entry],
           \/ /\ Spare(temp[c]) /\ UNCHANGED stable
              /\ \E x \in Entry : temp' = [temp EXCEPT ![c] = x]
           \/ stable' = temp[c] /\ temp' = [temp EXCEPT ![c] = stable]
    PROVE  PlacedOnce' /\ OccupantRestored'
<1>1. PlacedOnce'
  BY DEF PlacedOnce
<1>2. ASSUME NEW e \in placed, ~e.during
      PROVE  \/ e.entry = stable' \/ \E i \in DOMAIN temp' : temp'[i] = e.entry
             \/ \E later \in placed : later.over = e.entry
  <2>1. \/ e.entry = stable \/ \E i \in 1..MaxClaims : temp[i] = e.entry
        \/ \E later \in placed : later.over = e.entry
    BY <1>2 DEF OccupantRestored
  <2>2. ASSUME Spare(temp[c]), UNCHANGED stable,
               NEW x \in Entry, temp' = [temp EXCEPT ![c] = x]
        PROVE  \/ e.entry = stable' \/ \E i \in DOMAIN temp' : temp'[i] = e.entry
               \/ \E later \in placed : later.over = e.entry
    <3>1. temp[c] # e.entry
      BY <1>2, <2>2, EntriesAssumption DEF Spare, PlacedOnce
    <3>2. \A i \in 1..MaxClaims : temp[i] = e.entry => temp'[i] = e.entry
      BY <2>2, <3>1
    <3>3. DOMAIN temp' = 1..MaxClaims
      BY <2>2
    <3> QED BY <2>1, <2>2, <3>2, <3>3
  <2>3. CASE stable' = temp[c] /\ temp' = [temp EXCEPT ![c] = stable]
    <3>1. DOMAIN temp' = 1..MaxClaims /\ temp'[c] = stable
      BY <2>3
    <3>2. \A i \in 1..MaxClaims : temp[i] = e.entry /\ i # c => temp'[i] = e.entry
      BY <2>3
    <3> QED BY <2>1, <2>3, <3>1, <3>2
  <2> QED BY <2>2, <2>3
<1>3. OccupantRestored'
  <2>1. placed' = placed
    OBVIOUS
  <2> QED BY <1>2, <2>1 DEF OccupantRestored
<1> QED BY <1>1, <1>3

\* A step of the updater that leaves it doing r and moves entries.
LEMMA KeepMoves ==
    ASSUME IInv, NEW p \in Procs, KeepInv(p), UNCHANGED <<claims, placed>>,
           NEW r, proc' = [proc EXCEPT ![p] = r], Keeps(r)',
           NEW c \in DOMAIN claims, c \in 1..MaxClaims,
           \/ /\ Spare(temp[c]) /\ UNCHANGED stable
              /\ \E x \in Entry : temp' = [temp EXCEPT ![c] = x]
           \/ stable' = temp[c] /\ temp' = [temp EXCEPT ![c] = stable]
    PROVE  KeepInv(p)'
<1>1. temp \in [1..MaxClaims -> Entry] /\ proc \in [Procs -> Doing]
  BY DEF IInv, Types
<1>2. PlacedOnce' /\ OccupantRestored'
  BY <1>1, OccupantStep DEF KeepInv
<1>3. \A i \in 1..MaxClaims : i # c => temp'[i] = temp[i]
  BY <1>1
<1>4. Unused'
  BY <1>3 DEF KeepInv, Unused
<1>5. proc'[p] = r
  BY <1>1
<1>6. Keeps(proc[p])'
  BY <1>5
<1> QED BY <1>2, <1>4, <1>6 DEF KeepInv

\* A step of the updater that leaves it doing r and the entries where they are.
LEMMA KeepStill ==
    ASSUME IInv, NEW p \in Procs, KeepInv(p), UNCHANGED <<stable, temp, placed>>,
           DOMAIN claims \subseteq DOMAIN claims',
           NEW r, proc' = [proc EXCEPT ![p] = r], Keeps(r)'
    PROVE  KeepInv(p)'
<1>1. proc'[p] = r
  BY DEF IInv, Types
<1>2. PlacedOnce' /\ OccupantRestored' /\ Unused'
  BY DEF KeepInv, PlacedOnce, OccupantRestored, Unused
<1>3. Keeps(proc[p])'
  BY <1>1
<1> QED BY <1>2, <1>3 DEF KeepInv

\* Before its claim, reading and at its record the updater relies on nothing.
Resting(r) == r.at \in {"idle", "claim", "reconcile", "resolve", "complete"}

LEMMA RestingKeeps == ASSUME NEW r, Resting(r) PROVE Keeps(r)'
BY DEF Resting, Keeps, Unlinked

\* The check fails, or is done, and the disk stays.
LEMMA KeepRest ==
    ASSUME IInv, NEW p \in Procs, KeepInv(p), UNCHANGED <<stable, temp, placed>>,
           DOMAIN claims \subseteq DOMAIN claims',
           NEW r, proc' = [proc EXCEPT ![p] = r], Resting(r)
    PROVE  KeepInv(p)'
BY RestingKeeps, KeepStill

\* The claims a result or a hold changes are those there are.
LEMMA SameClaims ==
    ASSUME NEW i,
           \/ \E outcome, active, version : Record(i, outcome, active, version)
           \/ claims' = [claims EXCEPT ![i].state = "held"]
           \/ UNCHANGED ledger
    PROVE  DOMAIN claims' = DOMAIN claims
BY DEF Record, ledger

\* Claims, reconciliations, results and stops leave the disk alone.
LEMMA KeepLedger ==
    ASSUME IInv, NEW p \in Procs, KeepInv(p),
           \/ \E trigger \in {"manual", "detached"} : Start(p, trigger)
           \/ ResolveRead(p) \/ Reconcile(p) \/ Resolve(p) \/ Complete(p) \/ Kill(p)
    PROVE  KeepInv(p)'
<1>1. UNCHANGED <<stable, temp, placed>>
  BY DEF Start, ResolveRead, Reconcile, Resolve, Complete, Kill, disk
<1>2. DOMAIN claims' = DOMAIN claims
  BY SameClaims DEF Start, ResolveRead, Reconcile, Resolve, Complete, Kill, Interrupted, ledger
<1>3. \E r : proc' = [proc EXCEPT ![p] = r] /\ Resting(r)
  BY DEF Start, ResolveRead, Reconcile, Resolve, Complete, Kill, Stop, Idle, Resting
<1> QED BY <1>1, <1>2, <1>3, KeepRest
\* The claim a check works under, and what its next step keeps of it.
LEMMA Under ==
    ASSUME IInv, NEW p \in Procs, proc[p].at \in Checking
    PROVE  /\ proc[p].claim \in DOMAIN claims /\ proc[p].claim \in 1..MaxClaims
           /\ temp \in [1..MaxClaims -> Entry]
BY Facts, Shapes DEF Checking, Delivering, HasClaim

LEMMA Stepped ==
    ASSUME IInv, NEW p \in Procs, proc[p].at \in Delivering, NEW at
    PROVE  /\ [proc[p] EXCEPT !.at = at].at = at
           /\ [proc[p] EXCEPT !.at = at].claim = proc[p].claim
<1>1. proc[p] \in [at : Delivering, claim : 1..MaxClaims, start : Versions, offer : Versions]
  BY Facts DEF Doing, Idle, Delivering
<1> QED BY <1>1

\* A new claim has no temporary entry.
LEMMA KeepClaim ==
    ASSUME IInv, NEW p \in Procs, KeepInv(p), Claim(p)
    PROVE  KeepInv(p)'
<1>1. UNCHANGED <<stable, temp, placed>>
  BY DEF Claim, disk
<1>2. CASE /\ Len(claims) < MaxClaims
           /\ \E e : claims' = Append(claims, e)
           /\ proc' = [proc EXCEPT ![p] = [at |-> "fetch", claim |-> Len(claims) + 1]]
  <2>1. claims \in Seq(ClaimRecord) /\ Len(claims) \in Nat /\ MaxClaims \in Nat
    BY BoundAssumption DEF IInv, Types
  <2>2. DOMAIN claims \subseteq DOMAIN claims'
    BY <1>2, <2>1
  <2>3. Len(claims) + 1 \in 1..MaxClaims /\ Len(claims) + 1 \notin DOMAIN claims
    BY <1>2, <2>1
  <2>4. temp'[Len(claims) + 1] = Nothing
    BY <1>1, <2>3 DEF KeepInv, Unused
  <2>5. PICK r : /\ r.at = "fetch" /\ r.claim = Len(claims) + 1
                 /\ proc' = [proc EXCEPT ![p] = r]
    BY <1>2
  <2>6. Keeps(r)'
    BY <2>4, <2>5 DEF Keeps
  <2> QED BY <1>1, <2>2, <2>5, <2>6, KeepStill
<1>3. CASE /\ UNCHANGED ledger
           /\ \E r : proc' = [proc EXCEPT ![p] = r] /\ Resting(r)
  BY <1>1, <1>3, KeepRest DEF ledger
<1>4. \/ /\ Len(claims) < MaxClaims
         /\ \E e : claims' = Append(claims, e)
         /\ proc' = [proc EXCEPT ![p] = [at |-> "fetch", claim |-> Len(claims) + 1]]
      \/ /\ UNCHANGED ledger
         /\ \E r : proc' = [proc EXCEPT ![p] = r] /\ Resting(r)
  BY DEF Claim, Stop, Idle, Resting
<1> QED BY <1>2, <1>3, <1>4

\* A failure to do a step, and a step that does nothing to the disk.
LEMMA KeepFail ==
    ASSUME IInv, NEW p \in Procs, KeepInv(p), UNCHANGED <<stable, temp, placed, claims>>,
           NEW active, NEW version, FailWith(p, active, version)
    PROVE  KeepInv(p)'
<1>1. PICK r : /\ r = [at |-> "complete", claim |-> proc[p].claim, outcome |-> "failed",
                        active |-> active, staged |-> version]
               /\ proc' = [proc EXCEPT ![p] = r]
  BY DEF FailWith
<1>2. Resting(r)
  BY <1>1 DEF Resting
<1> QED BY <1>1, <1>2, KeepRest

LEMMA KeepGoing ==
    ASSUME IInv, NEW p \in Procs, KeepInv(p), UNCHANGED <<stable, temp, placed, claims>>,
           proc[p].at \in Unlinked \cap Delivering, NEW at \in Unlinked, GoTo(p, at)
    PROVE  KeepInv(p)'
<1>1. PICK r : r.at = at /\ r.claim = proc[p].claim /\ proc' = [proc EXCEPT ![p] = r]
  BY Stepped DEF GoTo
<1>2. temp'[r.claim] = Nothing
  BY <1>1 DEF KeepInv, Keeps
<1>3. Keeps(r)'
  BY <1>1, <1>2 DEF Keeps, Unlinked
<1> QED BY <1>1, <1>3, KeepStill

\* Fetch, staging and the rechecks make no temporary entry.
LEMMA KeepFetch ==
    ASSUME IInv, NEW p \in Procs, KeepInv(p), Fetch(p)
    PROVE  KeepInv(p)'
<1>1. UNCHANGED <<stable, temp, placed, claims>> /\ temp[proc[p].claim] = Nothing
  BY DEF Fetch, disk, ledger, KeepInv, Keeps, Unlinked
<1>2. CASE Fail(p, Nothing)
  BY <1>1, <1>2, KeepFail DEF Fail
<1>3. ASSUME NEW v \in Versions, v > stable,
             NEW r, r = [at |-> "confirmStaging", claim |-> proc[p].claim,
                         start |-> stable, offer |-> v],
             proc' = [proc EXCEPT ![p] = r]
      PROVE  KeepInv(p)'
  <2>1. temp'[r.claim] = Nothing /\ r.at = "confirmStaging"
    BY <1>1, <1>3
  <2>2. Keeps(r)'
    BY <2>1 DEF Keeps
  <2> QED BY <1>1, <1>3, <2>2, KeepStill
<1>4. ASSUME NEW r, proc' = [proc EXCEPT ![p] = r],
             r = [at |-> "complete", claim |-> proc[p].claim, outcome |-> "current",
                  active |-> stable, staged |-> Nothing]
      PROVE  KeepInv(p)'
  <2>1. Resting(r)
    BY <1>4 DEF Resting
  <2> QED BY <1>1, <1>4, <2>1, KeepRest
<1> QED BY <1>2, <1>3, <1>4 DEF Fetch

LEMMA KeepStaging ==
    ASSUME IInv, NEW p \in Procs, KeepInv(p), ConfirmStaging(p) \/ Stage(p) \/ Recheck(p)
    PROVE  KeepInv(p)'
<1>1. UNCHANGED <<stable, temp, placed, claims>> /\ proc[p].at \in Unlinked \cap Delivering
  BY DEF ConfirmStaging, Stage, Recheck, disk, ledger, Unlinked, Delivering
<1>2. CASE \E active, version : FailWith(p, active, version)
  BY <1>1, <1>2, KeepFail
<1>3. CASE \E at \in Unlinked : GoTo(p, at)
  BY <1>1, <1>3, KeepGoing
<1> QED BY <1>2, <1>3 DEF ConfirmStaging, Stage, Recheck, Fail, Unlinked

\* The temporary link is the offer, made where nothing was.
LEMMA KeepConfirmActivation ==
    ASSUME IInv, NEW p \in Procs, KeepInv(p), ConfirmActivation(p)
    PROVE  KeepInv(p)'
<1>1. /\ UNCHANGED <<stable, placed, claims>> /\ temp[proc[p].claim] = Nothing
      /\ proc[p].at \in Delivering /\ proc[p].at \in Checking
      /\ proc[p].claim \in DOMAIN claims /\ proc[p].claim \in 1..MaxClaims
      /\ proc[p].offer \in Versions
  BY Under, Delivers
     DEF ConfirmActivation, KeepInv, Keeps, Unlinked, Delivering, Checking
<1>2. CASE Fail(p, proc[p].offer) /\ UNCHANGED temp
  BY <1>1, <1>2, KeepFail DEF Fail
<1>3. CASE temp' = [temp EXCEPT ![proc[p].claim] = proc[p].offer] /\ GoTo(p, "exchange")
  <2>1. PICK r : /\ r.at = "exchange" /\ r.claim = proc[p].claim
                 /\ proc' = [proc EXCEPT ![p] = r]
    BY <1>1, <1>3, Stepped DEF GoTo
  <2>2. temp'[r.claim] \in Versions
    BY <1>1, <1>3, <2>1, Under
  <2>3. Keeps(r)'
    BY <2>1, <2>2 DEF Keeps, Unlinked
  <2>4. Spare(temp[proc[p].claim]) /\ proc[p].offer \in Entry
    BY <1>1 DEF Spare, Entry
  <2> QED BY <1>1, <1>3, <2>1, <2>3, <2>4, KeepMoves
<1> QED BY <1>2, <1>3 DEF ConfirmActivation
\* The exchange displaces an entry into the temporary one and leaves the offer.
LEMMA KeepExchange ==
    ASSUME IInv, NEW p \in Procs, KeepInv(p), Exchange(p)
    PROVE  KeepInv(p)'
<1>1. /\ UNCHANGED <<placed, claims>> /\ temp[proc[p].claim] \in Versions
      /\ proc[p].at \in Delivering /\ proc[p].at \in Checking
      /\ proc[p].claim \in DOMAIN claims /\ proc[p].claim \in 1..MaxClaims
  BY Under DEF Exchange, ledger, KeepInv, Keeps, Delivering, Checking
<1>2. CASE /\ stable' = temp[proc[p].claim]
           /\ temp' = [temp EXCEPT ![proc[p].claim] = stable]
           /\ GoTo(p, "inspect")
  <2>1. PICK r : r.at = "inspect" /\ proc' = [proc EXCEPT ![p] = r]
    BY <1>1, <1>2, Stepped DEF GoTo
  <2>2. Keeps(r)'
    BY <1>1, <1>2, <2>1 DEF Keeps, Unlinked, Spare
  <2> QED BY <1>1, <1>2, <2>1, <2>2, KeepMoves
<1>3. CASE /\ temp' = [temp EXCEPT ![proc[p].claim] = Nothing]
           /\ Fail(p, proc[p].offer) /\ UNCHANGED stable
  <2>1. PICK r : r.at = "complete" /\ proc' = [proc EXCEPT ![p] = r]
    BY <1>3 DEF Fail, FailWith
  <2>2. Keeps(r)'
    BY <2>1, RestingKeeps DEF Resting
  <2>3. Spare(temp[proc[p].claim]) /\ Nothing \in Entry
    BY <1>1 DEF Spare, Entry
  <2> QED BY <1>1, <1>3, <2>1, <2>2, <2>3, KeepMoves
<1> QED BY <1>2, <1>3 DEF Exchange

\* Only the link read at the start, a version, is removed when displaced.
LEMMA KeepInspect ==
    ASSUME IInv, NEW p \in Procs, KeepInv(p), Inspect(p)
    PROVE  KeepInv(p)'
<1>1. /\ UNCHANGED <<placed, claims, stable>> /\ Spare(stable)
      /\ proc[p].at = "inspect" /\ proc[p].at \in Delivering /\ proc[p].at \in Checking
      /\ proc[p].claim \in DOMAIN claims /\ proc[p].claim \in 1..MaxClaims
  BY Under DEF Inspect, ledger, KeepInv, Keeps, Delivering, Checking
<1>2. ASSUME Displaced(p), temp' = [temp EXCEPT ![proc[p].claim] = Nothing],
             NEW r, proc' = [proc EXCEPT ![p] = r],
             r = [at |-> "complete", claim |-> proc[p].claim, outcome |-> "staged",
                  active |-> proc[p].offer, staged |-> proc[p].offer]
      PROVE  KeepInv(p)'
  <2>1. Keeps(r)'
    BY <1>2, RestingKeeps DEF Resting
  <2>2. proc[p].start \in Versions
    BY <1>1, Facts, Shapes
  <2>3. Spare(temp[proc[p].claim]) /\ Nothing \in Entry
    BY <1>2, <2>2 DEF Displaced, Spare, Entry
  <2> QED BY <1>1, <1>2, <2>1, <2>3, KeepMoves
<1>3. CASE GoTo(p, "restore") /\ UNCHANGED temp
  <2>1. PICK r : r.at = "restore" /\ proc' = [proc EXCEPT ![p] = r]
    BY <1>1, <1>3, Stepped DEF GoTo
  <2>2. Keeps(r)'
    BY <1>1, <2>1 DEF Keeps, Unlinked, Spare
  <2> QED BY <1>1, <1>3, <2>1, <2>2, KeepStill
<1> QED BY <1>2, <1>3 DEF Inspect

\* Restoring puts into the temporary entry what was at the stable path since
\* the exchange.
LEMMA KeepRestore ==
    ASSUME IInv, NEW p \in Procs, KeepInv(p), Restore(p)
    PROVE  KeepInv(p)'
<1>1. /\ UNCHANGED <<placed, claims>> /\ Spare(stable)
      /\ proc[p].at \in Delivering /\ proc[p].at \in Checking
      /\ proc[p].claim \in DOMAIN claims /\ proc[p].claim \in 1..MaxClaims
      /\ temp \in [1..MaxClaims -> Entry]
  BY Under DEF Restore, ledger, KeepInv, Keeps, Delivering, Checking
<1>2. CASE /\ stable' = temp[proc[p].claim]
           /\ temp' = [temp EXCEPT ![proc[p].claim] = stable]
           /\ GoTo(p, "clean")
  <2>1. PICK r : r.at = "clean" /\ r.claim = proc[p].claim /\ proc' = [proc EXCEPT ![p] = r]
    BY <1>1, <1>2, Stepped DEF GoTo
  <2>2. temp'[r.claim] = stable
    BY <1>1, <1>2, <2>1
  <2>3. Keeps(r)'
    BY <1>1, <2>1, <2>2 DEF Keeps, Unlinked, Spare
  <2> QED BY <1>1, <1>2, <2>1, <2>3, KeepMoves
<1>3. CASE Fail(p, proc[p].offer) /\ UNCHANGED <<stable, temp>>
  BY <1>1, <1>3, KeepFail DEF Fail
<1> QED BY <1>2, <1>3 DEF Restore

\* Which is what the clean removes, or leaves.
LEMMA KeepClean ==
    ASSUME IInv, NEW p \in Procs, KeepInv(p), Clean(p)
    PROVE  KeepInv(p)'
<1>1. /\ UNCHANGED <<placed, claims, stable>> /\ Spare(temp[proc[p].claim])
      /\ proc[p].claim \in DOMAIN claims /\ proc[p].claim \in 1..MaxClaims
      /\ Fail(p, proc[p].offer)
  BY Under DEF Clean, ledger, KeepInv, Keeps, Delivering, Checking
<1>2. CASE UNCHANGED temp
  BY <1>1, <1>2, KeepFail DEF Fail
<1>3. CASE temp' = [temp EXCEPT ![proc[p].claim] = Nothing]
  <2>1. PICK r : r.at = "complete" /\ proc' = [proc EXCEPT ![p] = r]
    BY <1>1 DEF Fail, FailWith
  <2>2. Keeps(r)'
    BY <2>1, RestingKeeps DEF Resting
  <2>3. Nothing \in Entry
    BY DEF Entry
  <2> QED BY <1>1, <1>3, <2>1, <2>2, <2>3, KeepMoves
<1> QED BY <1>2, <1>3 DEF Clean

\* What the owner places is at the stable path, over what it replaces; between
\* the exchange and the end of an activation it is marked so.
LEMMA KeepOwner ==
    ASSUME IInv, NEW p \in Procs, KeepInv(p), NEW x \in Entries, Owner(x)
    PROVE  KeepInv(p)'
<1>1. PICK new : /\ new.entry = x /\ new.over = stable
                 /\ new.during = Activating /\ placed' = placed \cup {new}
  BY DEF Owner
<1>2. /\ stable' = x /\ UNCHANGED <<claims, temp, proc>>
      /\ \A old \in placed : old.entry # x
  BY DEF Owner, ledger
<1>3. PlacedOnce'
  BY <1>1, <1>2 DEF KeepInv, PlacedOnce
<1>4. Unused'
  BY <1>2 DEF KeepInv, Unused
<1>5. OccupantRestored'
  <2> SUFFICES ASSUME NEW e \in placed', ~e.during
               PROVE  \/ e.entry = stable' \/ \E i \in DOMAIN temp' : temp'[i] = e.entry
                      \/ \E later \in placed' : later.over = e.entry
    BY DEF OccupantRestored
  <2>1. CASE e = new
    BY <1>1, <1>2, <2>1
  <2>2. CASE e \in placed
    <3>1. \/ e.entry = stable \/ \E i \in DOMAIN temp : temp[i] = e.entry
          \/ \E later \in placed : later.over = e.entry
      BY <2>2 DEF KeepInv, OccupantRestored
    <3> QED BY <1>1, <1>2, <3>1
  <2> QED BY <1>1, <2>1, <2>2
<1>6. \A y : Spare(y) => Spare(y)'
  BY <1>1 DEF Spare
<1>7. proc[p].at \in {"inspect", "restore"} => Spare(stable)'
  BY <1>1, <1>2 DEF Activating, Spare
<1>8. Keeps(proc[p])'
  BY <1>2, <1>6, <1>7 DEF KeepInv, Keeps
<1> QED BY <1>3, <1>4, <1>5, <1>8 DEF KeepInv

\* Time, a lapse and a heartbeat move nothing.
LEMMA KeepAround ==
    ASSUME NEW p \in Procs, KeepInv(p),
           Lapse \/ Midnight \/ (\E q \in Procs : Heartbeat(q)) \/ UNCHANGED updateVars
    PROVE  KeepInv(p)'
<1>1. UNCHANGED <<claims, stable, temp, placed, proc>>
  BY DEF Lapse, Midnight, Heartbeat, updateVars, ledger, disk
<1> QED BY <1>1 DEF KeepInv, PlacedOnce, Unused, OccupantRestored, Keeps, Spare

LEMMA KeepInit == ASSUME NEW p \in Procs, UpdateInit PROVE KeepInv(p)
BY DEF UpdateInit, Idle, KeepInv, PlacedOnce, Unused, OccupantRestored, Keeps, Unlinked

LEMMA KeepNext ==
    ASSUME NEW p, Procs = {p}, IInv, KeepInv(p), [UpdateNext]_updateVars
    PROVE  KeepInv(p)'
<1>1. p \in Procs
  OBVIOUS
<1>2. CASE Goes(p)
  BY <1>1, <1>2, KeepClaim, KeepLedger, KeepFetch, KeepStaging, KeepConfirmActivation,
     KeepExchange, KeepInspect, KeepRestore, KeepClean DEF Goes
<1>3. CASE \/ \E trigger \in {"manual", "detached"} : Start(p, trigger)
           \/ ResolveRead(p) \/ Kill(p)
  BY <1>1, <1>3, KeepLedger
<1>4. CASE Lapse \/ Midnight \/ Heartbeat(p) \/ UNCHANGED updateVars
  BY <1>1, <1>4, KeepAround
<1>5. CASE \E e \in Entries : Owner(e)
  BY <1>1, <1>5, KeepOwner
<1> QED BY <1>2, <1>3, <1>4, <1>5 DEF UpdateNext

\* deliver.rs, swapped_decision and restore_operations: one updater, however it
\* fails or is killed, loses nothing the owner put at the stable path outside
\* its own activation.
THEOREM OccupantKept ==
    ASSUME NEW p, Procs = {p}
    PROVE  UpdateSpec => []OccupantRestored
<1>1. UpdateInit => KeepInv(p)
  BY KeepInit
<1>2. IInv /\ KeepInv(p) /\ [UpdateNext]_updateVars => KeepInv(p)'
  BY KeepNext
<1>3. KeepInv(p) => OccupantRestored
  BY DEF KeepInv
<1> QED BY <1>1, <1>2, <1>3, Updater, PTL DEF UpdateSpec
=============================================================================

# Baley's ledger, specified

Baley records what AI coding agents do as an append-only, hash-chained event
log in SQLite, with views derived from it, claims that fence effects outside
the database, anchors of the chain on a git forge, and payload bodies that can
be reduced and purged. Sessions, hooks and command-line processes share one
database file, crash independently and talk to a forge that may answer late or
never. This directory holds TLA+ models of that core, the TLC configurations
that check them, and TLAPS proofs.

Paths are relative to `src/crates/`. "The store" is `baley-store` (ports, pure
rules) with `baley-store-sqlite` (the implementation).

Contents: [the system](#1-the-system), [the modules](#2-the-modules),
[the runs](#3-the-runs), [fairness](#4-fairness), [the proofs](#5-the-proofs),
[findings](#6-findings), [what is not modelled](#7-what-is-not-modelled),
[the plan](#8-the-plan), [how to run it](#9-running-the-checks).

## 1. The system

### Components

| Component | State | Operations | Hard behaviour | What makes it correct |
|---|---|---|---|---|
| Command path (`transact.rs`, `claim.rs`, `request.rs`) | event table, `request` and `claim_scope` views, `claim_lease` | `transact`, `claim`, `renew_lease`, `complete`, `reconcile`, replay | retries, two processes on one claim, lease expiry against late completion, times read before a wait | a request lives once and has one answer; a token has one holder; only the owner touches a live claim |
| Writer queue and maintenance lock (`queue.rs`, `store.rs`) | two locks, each a mutex and a `flock`; the write connection; the deadline of a guard store | wait, try, pause, batch, exit checkpoint | unbounded waits, deadline races, threads of one open file, dead processes | turns are exclusive, a call returns, a guard never starts late |
| View generations (`rebuild.rs`, `view.rs`) | `project_gen`, `view_gen`, rows by generation, maintenance lock | stamp, rebuild, verify, catch up, sweep | commands between batches, crashes between batches, binaries of two versions, guard stores without the lock | readers always see the whole log folded once, by one version |
| Anchoring (`baley-core/anchor.rs`, `reconcile.rs`, `baley/ledger/forge.rs`) | anchor rows, the tag on the forge, the claim's intent | `anchor_command`: claim, fetch, verify, push, record; reconciliation | late and lost pushes, lost answers, stalled pusher against reconciler | a recorded anchor exists; an outcome stands; the chain keeps agreeing with the forge |
| Restore (`baley-core/restore.rs`, `chain.rs`) | acknowledgement events | `acknowledge_restore`, chain verification | head moves between verification and commit; two histories on the forge | histories part only where the owner acknowledged it |
| Payload retention (`retention.rs`, `payload.rs`) | `payload`, `payload_ref`, scrub marker, free pages | put, attach, reduce, purge, scrub | bodies and excerpts shared over projects, busy readers, crash before the scrub | bodies follow references; tombstones stay; no purged byte is forgotten |
| Export (`export.rs`) | `export_record`, target directories | export | crash, failed cleanup, two runs on one target, purge meanwhile | a purge report names every copy |
| Guard (`baley-core/guard`, `baley/guard_hook`) | `guard` and `guard_policy` views of the `user` project | one process per delivery: look up, observe, judge, record, write | a call delivered twice, an id used again, settings torn between two reads, a busy store, a kill | one record per call; an answer given as recorded is in the log; torn settings keep the last denials |
| Checkouts and policy (`checkout/`, `policy_step/`, `mcp/prepare.rs`) | `checkout` and `policy` views, settings files | replay lookup, check, admission, policy step, then the command | five transactions of one call, callers of other checkouts and hosts between them | one remote for a project; a write runs under the policy recorded for it; a retry is answered like its original |
| Story refinement (`refine/`, `questions/`, `work_order/`, `truth/`) | `work_order`, `questions`, `backlog` and `truths` views, drafts | issue, return, fail, retry, answer, defer, submit, approve, purge, drop | every call reads first and commits much later; late and double returns | one live order; drafts only from decided questions; a version names one text |
| Detached updater (`update/`) | claims in `user`, the stable path, staged versions | check, stage, activate, record, reconcile, resolve | two sessions, midnight, suspension between two disk operations, an owner who edits | one check per installation and day, one result per claim, a stable path that runs |
| Chain and canonical JSON (`chain.rs`, `canonical.rs`) | hashes | append, verify | damaged rows | equal hashes mean equal histories |
| Store opening, health, doctor (`store.rs`, `checks.rs`, `health.rs`, `doctor.rs`) | files, schema | open, report | file-system states | refuses what it cannot trust |
| Scope, plans, project start (`scope/`, `plan/`, `project_start/`) | views of their events | judges called inside one command | approvals of superseded versions | per-area rules |
| Model catalog, registry, detection | parsed tables | resolve | none concurrent | data |
| Host interface (`mcp/`, `session/`, `install/`, `host_doctor/`) | none of its own | decode, prepare, call, render | the preparation of a write | all state changes go through the command path |
| Hardin (reads views and names the one allowed next step; inherited so far) | none | read | stale views | the step follows from the record |
| Inherited services, review engine, benchmarks | outside the ledger | parked | | |

### How they interact

Every write is a *turn*: the writer queue, then one SQLite write transaction.
`transact`, `claim`, `complete`, `reconcile`, `reduce` and `purge` all run
through `command_path` and `command_turn`: judge the live views, look the
request up, check the scope tokens, run the caller's decision, append, fold
into the live generation, write. A rebuild or verification additionally holds
the maintenance lock over many turns. Anchoring, the updater and restores are
sequences of such commands with forge calls in between, so their
interleavings are between commands, and a crash falls between two of them.
Readers use snapshots and never wait for writers.

Slow work (an agent that answers, an owner who decides, git, the network) never
runs inside a turn. A command reads documents in a snapshot, works, and then
commits in a turn that checks again what it *observed*: the store's `recheck`
refuses when a document or a stream moved. Where two documents are not read
together, or a fact is judged that no document carries, that recheck does not
protect the call, and these are the places the models of refinement and
preparation are about.

That structure decides the grain of the models: one turn is one step, a read is
one step, and whatever happens between them (forge calls, clocks, crashes, other
processes) is a step of its own. `WriterQueue` alone looks inside a turn, at how
it is taken.

### Hazards

`PROJECT.json` lists 40 hazards with their lines and the properties that would
catch each. Every one has a property, and every property has a mutant of a
mapped definition that it catches.

## 2. The modules

| Module | Models | Used by |
|---|---|---|
| `Claims` | the command path of one project | `MCClaims`, `ClaimsProofs` |
| `WriterQueue` | both locks, the write connection, the guard's deadline | `MCWriterQueue`, `MachineProofs` |
| `Projection` | what projectors make of a log | `Views`, `Rebuild` |
| `Views` | abstract: what a reader of the views is promised | refined by `Rebuild` |
| `Rebuild` | the generations of one project's views | `MCRebuild`, `RebuildProofs` |
| `Anchor` | anchoring, reconciliation, restore and acknowledgement | `MCAnchor`, `AnchorProofs` |
| `Retention` | bodies, references, purge, scrub and exports | `MCRetention`, `RetentionProofs` |
| `GuardHook` | the hook process and its deliveries | `MCGuardHook`, `GuardHookProofs` |
| `Questions` | question sets: rounds, answers, deferrals | `Refinement` |
| `WorkOrders` | orders, returns, failures and retry chains | `Refinement` |
| `Truths` | versions of truths | `Refinement` |
| `StoryStates` | abstract: the states of a story | refined by `Refinement` |
| `Refinement` | the calls that refine one story | `MCRefinement`, `RefinementProofs` |
| `Preparation` | replay lookup, admission, policy step and command of a write | `MCPreparation`, `PreparationProofs` |
| `Update` | the update check and the installation on disk | `MCUpdate`, `MachineProofs` |
| `MC*` | instances for TLC | the `.cfg` files |
| `*Proofs` | theorems; `MachineProofs` holds those of the two components outside the ledger | |

Definitions whose comment starts with "Mutant:" are wrong variants of the
definition that follows. They are not used by any specification; each shows
that a property notices the mistake.

Some properties are conjunctions of named parts, so that one run checks them
together: `RequestsInv` (types, view against log), `GenerationsInv`, `AnchorInv`
and `RetentionInv` (types and the ledger's own bookkeeping), `ForgeInv` (the tags
tell one history, pushes only in agreement with it), `QueueInv` (one
turn of a lock, no writer answered Busy, batches yield), `RecordsInv` (types,
one record per id), `StoryInv` (one live order, only closed sets abandoned,
answers in order, drafting decided), `StorySteps` (four things a call may never
do), `UpdateInv` (one result per claim, one detached check a day, a stable path
that runs) and `LogInv` (one remote, only changes seen, policies chained).

### Claims

`events` is the project's event table, `request` and `claimScope` the two views
the path reads itself, `lease` the `claim_lease` table, `now` the real clock
and `answers` a history variable: every outcome a caller was told.

One action per port operation: `Transact`, `Claim`/`RefuseClaim`, `RenewLease`,
`Complete`, `Resolve` and `Hold` (the two results of `reconcile`), `Replay`.
Inside an action the command's work is a record built by `Push`, as `Work::push`
does it: each event takes its own sequence and both projectors run on it before
the next. `Write` makes the work the state.

- A command's time `at` is any time up to `now`, because the caller reads its
  clock before it waits for the queue.
- A refusal records nothing (`BEGIN` is rolled back), so it is a stuttering
  step: it appears only as a guard that is false.
- The facts a decision appends are one abstract event that remembers the scope
  its command declared and the claim it belonged to.
- `UseExport` is work going on in an exported copy, whose lease table is empty.

### Projection, Views, Rebuild

A document body is abstracted to what replay can get wrong: for each event, how
often and by which projector version it was folded since the document was last
deleted. `Fold` then stands for both the fold of a command and of a replay
batch. Folding an event twice, skipping it, or mixing versions is visible.

`Rebuild` keeps `project_gen` (`live`, `building`, `applied`), the rows and
stamps of each generation, and `session`, the local state of the one process
that holds the maintenance lock: its program counter, purpose, generation and
sweep cursor. Each batch is one action and may stop early (time is up) at any
row or event after the first, as `BATCH_ROWS`, `BATCH_EVENTS` and the batch
clock allow. `Crash` drops the session and nothing else. `Command` never looks
at the lock. Binaries have versions; `Guards` are processes that opened the
store as a guard store.

`Views` has one log, one version and one set of documents; `Record` appends and
folds, `Adopt` changes the version of everything at once. The refinement
mapping takes the live generation's stamp and rows, and `RefinesViews` says that
no marker, batch, crash or cleanup shows through.

### Anchor

A head's hash commits to the whole chain before it, so an anchor is a prefix of
the chain and two hashes are equal exactly when the prefixes are. Entries made
before and after a restore differ by `era`. `run[p]` is the local state of
the command process `p` runs: what it intends, what it fetched, when, and whom
it is reconciling. The forge is `remote` (tags) and `flight` (pushes under
way); `Land` and `Lose` are its own steps, so a push may land after its sender
recorded a refusal or died. The heartbeat is `Renew`, enabled at any time during
the act step. The claim protocol is that of `Claims`, specialised to the one
token `anchor`.

### Retention

`body` is the state column of `payload`, `refs` is `payload_ref`, `log` the
attach, reduce and purge events of each project, `marker` the `scrub_pending`
row, `residue` the purged bodies whose bytes may still be in free pages or the
WAL. `report` is a purge call under way, `export` the runs of the export
command with their rows and `disk` the target directories, outside the store.

### WriterQueue

`pc[t]` is where a thread is in the code, `mutex` and `flock` the two halves of
each `FileLock`: the mutex belongs to a thread of one store, the file lock to the
store's open file, so a store that holds it is granted it again. `conn` is the
store's write connection and `tx` the transaction SQLite lets only one of them
hold. A writer goes mutex, file, connection, `BEGIN`, transaction, drop; a
rebuild keeps the maintenance lock and does that once per batch, with a pause
between batches. A guard store never blocks: `Decide` reads the clock and goes on,
pauses or gives up, `TryMutex`, `TryFile` and `TryConn` try, `Resume` ends a pause,
and `Check` reads the clock once more after the connection before `Begin`. `Crash`
kills the process of a store: the kernel releases its file locks, its mutexes go
with it.

`taken`, `answer` and `woken` are history variables. `woken` holds the threads
that waited when a batch released the queue; `BatchYields` says one of them has
its turn before the rebuild has another.

### GuardHook

One process per delivery: `Lookup` of the call id in the `guard` view,
`ReadBranch` and `ReadPolicy` for a commit, the judgement, `Record` in one
transaction (`Transact`) or as a decision that cannot be recorded, and `Write`.
The transaction reads the `guard` document again: it appends, replays what is
there, or finds a clash. Settings that were torn when they were read are judged
again with the denials the `guard_policy` view remembers; a complete policy that
changes them appends what it denies. `ChangeSettings` replaces the files at any
time and `Kill` ends a process at any step. A call's input stands for its
digest, project directory and cwd; an outcome stands for an answer.

### Refinement, with Questions, WorkOrders and Truths

The state is the documents of one story: `orders`, `sets`, `entry` (its backlog
entry), `log` (submissions and approvals), `truths`. `call[c]` is what the call
of caller `c` has observed; its `stale` says that one of those documents was
written since, which is exactly what `recheck` finds out, because a document is
observed by the sequence that produced it and sequences only grow. Each operation
is a *check* (reads and judges) and a *commit*, with any number of other commits
between them. An approval reads its earlier approvals last and unobserved, and a
new order reads its inputs after its check, so both are steps of their own.

`Questions`, `WorkOrders` and `Truths` are the pure rules of `baley-core` on the
documents (`JudgeSet`, `JudgeAnswers`, `JudgeRetry`, `NextVersion`, ...). They hold
no variables. `StoryStates` is what the owner is promised: a story is asked,
drafted and refined, an open set is left only by answering or deferring its
questions, and truths change only by an approval while no question is open.
`ImplementsStory` maps the documents to it.

### Preparation

`call[c]` is a record that grows with what the call has observed, `log` the
project's `checkout.seen`, policy and command events; the views are computed
from the log (that they agree is `Rebuild`). `Start`, `LookUp`, `Check`,
`Relook`, `Gather`, `AdmitRead` and `Admit`, `StepCatalog`, `PolicyRead` and
`Record`, `Command` are the steps in their order; a stale refusal decides afresh
up to `Attempts` times, `Fail` may end a call anywhere and leaves the prefix it
recorded. The owner edits remotes, settings and the catalog between any two.

### Update

The claims are those of `Claims` under the installation's one token, reduced to
what the updater sees of them. `stable`, `staged` and `temp` are the disk: the
entry at the stable path, the published versions and each attempt's temporary
entry. `Exchange`, `Inspect`, `Restore` and `Clean` are the file operations of an
activation in their order, with the failure each may have. A step that fails may
have changed the disk: `Stage` can fail with the version published, and a
confirmation can fail, after renewing the lease or not, though the claim is held. `Lapse` is a lease no
heartbeat renewed, so a process between two steps is one that was suspended;
`Kill` ends a process, `Owner` replaces the stable path. A reconciler observes
the disk and records for the claim.

## 3. The runs

| Run | Config | States | What it shows |
|---|---|---|---|
| `claims` | `Claims.cfg` | 252,120 | tokens have one holder, a request one life and one answer, a live claim is its owner's |
| `writer_queue` | `WriterQueue.cfg` | 42,978 | turns are exclusive, every call returns, a guard is in time and answers |
| `rebuild` | `Rebuild.cfg` | 409,973 | generations under crashes and commands, the promise to readers, sessions end |
| `rebuild_backward` | `RebuildBackward.cfg` | violation | see [findings](#6-findings) |
| `anchor` | `Anchor.cfg` | 601,459 | evidence for rows and outcomes, pushes in agreement, histories on the forge after a restore |
| `anchor_ends` | `AnchorEnds.cfg` | 145,314 | every step of a command brings it nearer to its end, one retry at most, and commands end |
| `retention` | `Retention.cfg` | 1,601,448 | sharing across projects, scrub, purge reports against exports, two exports on one target |
| `retention_kept` | `RetentionKept.cfg` | violation | see [findings](#6-findings) |
| `guard_hook` | `GuardHook.cfg` | 725,892 | calls delivered twice or under one id, commits under torn settings |
| `refinement` | `Refinement.cfg` | 2,064,433 | two callers on one story, and its lifecycle |
| `preparation` | `Preparation.cfg` | 1,675,164 | checkouts, policies and retried requests of concurrent calls |
| `update` | `Update.cfg` | 2,774,388 | racing checks, kills, lapses, an owner who edits |

### Bounds, and why they are enough

All counters are bounded by named constants (`MaxEvents`, `MaxTime`, `MaxGen`,
`MaxChain`, `MaxEra`, `MaxLog`, `MaxOrders`, `MaxClaims`, ...).

**Focus.** A component with several independent questions is checked as several
slices in one run. The MC module adds a variable `focus`, chosen in `MCInit` and
never changed, and gives each value an instance of the specification with smaller
constants (`INSTANCE Refinement WITH Ops <- ..., MaxOrders <- ...`). A behaviour
of a slice is a behaviour of the module. The actions and states are never
changed, so an invariant that holds in the run holds in every slice; what a slice
leaves out is in another one.

- `claims`: three requests are one holder, one contender and one reconciler; two
  tokens let scopes overlap partly. The slice `claims` has five events and one
  digest: a claim, a fact, a hold and its completion, and a foreign command. The
  slice `digests` has two digests and three events: a request retried with other
  arguments while it is open, held or completed. Two processes are an owner and a
  stranger; with `LeaseExpiry = 1` and two clock values a lease is live, renewed
  and expired.
- `writer_queue`: two threads of a store, one of another, two guard threads of a
  third. One of the stores with two threads is dead from the beginning, so the
  run is either three writers and rebuilders, or two guards beside a writer that
  may stop for ever while it holds a lock. Liveness of writers is asked where no
  guard is about, liveness of guards always.
- `rebuild`: two keys, three events, batches of two, generations 0 to 2. A replay
  has two batches, a command comes between them, one generation is orphaned and
  its number met again, and the numbers run out, which is the `checked_add`
  failure of `next_generation`.
- `anchor`: two processes and two requests are a pusher and a reconciler that then
  anchors itself. `MaxChain` holds back commands that start, never one under way:
  four entries hold work, claim, reconciliation and a claim, and what is under way
  may still record. `MCNext` lets time pass or a copy be restored, not both: a
  restored copy's lease has already expired, so the clock adds nothing to what it
  asks. `Finished` is the end of an instance: nothing under way, and no room.
- `anchor_ends`: a command that retried meets another interrupted claim only if a
  third request was claimed in between and its lease lapsed as well, which takes
  three requests and three clock values. The numbered requests come in their order,
  and other work is one entry. No copy is restored: with Baley stopped no command is
  under way.
- `retention`: two outputs with one excerpt and two projects, so an excerpt is
  shared both by originals and by projects; three events per project are attach,
  reduce, purge. Slices: sharing; one export against the purges of two projects;
  two exports of one project on one target.
- `guard_hook`: one commit delivered twice with its id used again by another call,
  or beside a push without an id; and three commits of one checkout while complete
  and torn settings replace each other twice.
- `refinement`: two callers. Slices: orders (three, two sets), retries (a chain of
  three with purged inputs), rounds (three questions, one behind another), truths
  (four lists of two truths, three drafts, two approvals of one id), story (asked,
  decided, refined and asked again).
- `preparation`: two callers. Slices: two checkouts while a remote changes, one
  checkout with three settings, a host and the command line while settings and
  catalog change, and a request sent again beside a write of the same subject.
- `update`: two updaters, two versions, two claims and a midnight; and one updater,
  three versions, two claims, a kill and an owner who edits the stable path twice,
  with an entry the second edit may put over the first.

`CHECK_DEADLOCK FALSE` stands in the runs whose processes may really all be
finished, killed or at a bound: `writer_queue` (every store closed or dead),
`guard_hook` (every delivery answered), `refinement`, `preparation` and `update`
(the bounds on documents, events and claims used up). The others are checked for
deadlock.

Symmetry is used where the model treats the elements alike and never in a run
with a liveness property.

## 4. Fairness

`Rebuild`: `WF(SessionStep)`. A session is a loop in one process that holds the
maintenance lock; it takes its next batch unless it crashes, and the writer
queue hands out turns. `Crash` needs no fairness, it only ends sessions.
Commands stop at `MaxEvents`: `finish` flips only when the whole tail fits one
batch and otherwise tries again after a pause, so a replay that commands outpace
forever does not end in the code either.

`Anchor`: `WF(Step(p))` for each process. A command keeps executing its own code;
every git call has a deadline (`OTHER_GIT_DEADLINE` in `git_process.rs`), so a
step that waits for the forge ends by itself. Nothing makes a lease expire, a
push land or another process act. `CommandEnds` has two halves. `CommandsAdvance`
needs no fairness: `StepsLeft` counts the steps a command can still take, ten at
most, and every step lowers it, so it retries once whatever claims it meets.
`CommandsReturn` says that under this fairness the steps are taken, so no command
waits for anyone else. Nothing excuses it: the chain's bound stops no command that
started.

`WriterQueue`: time passes (`WF(Tick)`) and a guard's own steps are taken
(`WF(GuardStep(t))`). Nothing is assumed of the writers while a guard is about, so
`GuardAnswers` holds even when a writer has stopped with a lock in its hand.
Where no guard is about, each writer has `SF(WriterStep(t))`, because a mutex and
`flock` serve everyone who waits again and again and the transactions end, and
`SF(EndRebuild(t))`, because a rebuild has finitely many batches. The pause between
batches is taken to be long enough for a thread the release woke to get its turn;
that is what `PauseFor` says and `BatchYields` needs.

The other modules state no fairness: their processes may stop at any step, and
what they promise is safety.

## 5. The proofs

The theorems hold for every value of the constants that meets the named
assumptions of each module (`RequestAssumption`, `BodiesAssumption`,
`StoresAssumption`, `TimesAssumption`, `DeliveriesAssumption`,
`VersionsAssumption`, ...).

| Module | Theorem | States |
|---|---|---|
| `ClaimsProofs` | `TypeCorrect`, `DocumentsFollowLog` | `Spec => []TypeOK`, `Spec => []RequestsInv` |
| | `ScopeExclusion` | `Spec => []ScopeAgrees` |
| | `RequestLivesOnce`, `SameAnswer` | `Spec => []OneLifeInLog`, `Spec => []AnswersAgree` |
| | `TokensKept` | `Spec => []NoFactUnderForeignClaim` |
| | `OwnerDecides` | `Spec => []HeldUntilOwner` |
| | `LiveClaimsKept` | `Spec => ActiveClaimUndisturbed`, an action property |
| `RetentionProofs` | `BodiesFollow`, `ExcerptsStay` | `Spec => []BodyFollowsReferences`, `Spec => []ReducedKeepsExcerpt` |
| | `NoWayBack`, `CopiesNamed` | `Spec => TombstonesStay`, `Spec => CopiesListed`, action properties |
| | `AccountsKept`, `RowsTell` | `Spec => []RetentionInv`, `Spec => []RowTellsCopy` |
| `RebuildProofs` | `GenerationsKept`, `NothingDiffers` | `Spec => []GenerationsInv`, `Spec => []VerifyFindsNoDifference` |
| | `NothingElseStored` | `Spec => []OneGenerationLeft` |
| | `LiveOnlyGrows` | `Spec => LiveGenerationGrows`, an action property |
| | `ViewsImplemented` | `Spec => RefinesViews`, the refinement of `Views` |
| `MachineProofs` | `QueueKept` | `Spec => []QueueInv` |
| | `GuardOnTime` | `Spec => []GuardInTime` |
| | `UpdaterKept` | `UpdateSpec => []UpdateInv` |
| | `OccupantKept` | `UpdateSpec => []OccupantRestored` for one updater |
| `GuardHookProofs` | `OneRecordKept`, `RepliesKept` | `Spec => []RecordsInv`, `Spec => []RepliesAudited` |
| | `DenialsKept` | `Spec => []TornKeepsDenials` |
| `PreparationProofs` | `LogKept` | `Spec => []LogInv` |
| | `PolicyKept`, `RetryKept` | `Spec => []RunsUnderItsPolicy`, `Spec => []RetryReplayed` |
| `AnchorProofs` | `RowsAreTags`, `TagsTell` | `Spec => []AnchorInv`, `Spec => []ForgeInv` |
| | `OutcomesStand`, `AgreementKept` | `Spec => OutcomeStands`, `Spec => AgreementStays`, action properties |
| | `CommandsShorten` | `Spec => CommandsAdvance`, the safety half of `CommandEnds` |
| `RefinementProofs` | `StoryStands`, `TextsStand` | `Spec => []StoryInv`, `Spec => []VersionsNameOneText` |
| | `StepsStand` | `Spec => StorySteps`, from one theorem for each of its four parts |
| | `StoryImplemented` | `Spec => ImplementsStory`, the refinement of `StoryStates` |

None of these invariants is inductive, and why each is not is what the proof is
about.

**Claims.** `ScopeAgrees` needs the document of the holder to be well typed.
`OneLifeInLog` needs to know that a request without a document has no event, and
that a completed document is the last word on its request, which is a statement
about the log *and* the view. `NoFactUnderForeignClaim` needs that a token is held
from a claim's event to its completion, and `HeldUntilOwner` that a held document
is as the log's last reconciliation left it. A command moreover pushes up to four
events, between which the state is not a state of the specification. So the
invariant is stated on a command's *work*: `WorkInv` (types and scope),
`WorkLives`, `WorkHeld` and `WorkFacts` (log against view). One lemma per kind of
event shows that pushing it keeps them under the condition its command checks; the
lemma of each action composes these in the order the code pushes, and `NextInv`
collects the actions. For `ActiveClaimUndisturbed` an event is shown to change the
document of its own request only (`PushOthers`), so what closes a live claim is
either its owner's completion or a reconciliation; and one that passes
`MayReconcile` read a time the clock has since passed (`Lapsed`).

**Retention.** `IInv` is the two invariants with the types of `body`, `refs` and
`log`. Whether a body is required can be told only from all references together,
so both directions of the equivalence are carried, and a purge removes the
originals of an excerpt it removes because the excerpt of a reduced body is known
to be stored and required until then. Three layers stand on it. `AccountInv`: every
command is one recorded event that brings at most one reference and releases
exactly those it names (`Recorded`), and since there is at most one reference per
event (`OneEach`) and an event names only earlier ones (`NamesEarlier`), the log
tells every release. `CopyInv`: a run whose row is final, or about to be, is the only
one that holds its directory (`OneHolder`), the directory is what the project
referenced at the row's head, and a directory that is there is explained by a row
that a purge looks at (`Explained`). `ReportInv`: what any earlier purge removed is
a tombstone, so a later purge never adds to the residue of a body already
reported as scrubbed. `None` must not be a set of bodies (`NoneAssumption`): an
empty directory is not a missing one.

**Rebuild.** Folding two batches that meet is folding once (`FoldFold`), and an
event appended later changes no earlier prefix (`ProjectedAppend`), so a batch takes
the generation being built from prefix to prefix and the flip makes the whole log
live. What keeps commands and batches apart is where the generations are: `Above`
(the one being built is above the live one, and there is a live one), `Bounded` and
`Fresh`; `Working` is what a session may rely on at each step after the turns it
let pass, in particular that a verification still compares views of its own
version. For the refinement, `LiveSteps` names the steps that a reader can see at
all: a command is `Record`, the first stamp and the flip are `Adopt`, everything
else is a stutter.

**WriterQueue.** That two threads never have one turn follows only from what each
half of the lock protects. `Shape` says what a thread at each point holds,
`LockInv` that the file lock of a store is held exactly while one of its threads
that owns the mutex is past it, `TxInv` that the open transaction belongs to a
thread with a turn. A crash removes all of a store's holdings at once. `OwnMutex`
and `AllYield` carry `BatchYields`; `Timely` relates a guard's readings to its
deadline.

**GuardHook.** `HookInv` adds to the types that the `guard` view is the last
`guard.answered` event of each id (`LogInv`) and what a process that was told an
answer may rely on (`ToldInv`). `DenialInv` says that the `guard_policy` view of each
checkout is the denials of the last complete policy in the log, or nothing when
there is none, and that every torn answer already in the log was given from the view
of its time. Both speak of the log up to a position, so an answer appended later
leaves them alone.

**Update.** `IInv` adds that one claim is open at most and its results are those
of closed claims, that no later detached claim can share a day although each
process compares days it read before it waited (`DailyClaim`), and what each step
of an activation knows of the disk (`Links`): which of the stable path and the
temporary entry may be a link, and that its version is published. It is stated so
that it survives another process which acts on the same disk after a lapsed lease.
For `OccupantRestored`, `KeepInv` says where the only updater can meet an entry the
owner placed outside an activation: not at the stable path between its exchange and
its end, and not in the temporary entry it finally removes, because what it displaced
is judged first. Two updaters break this (see [observations](#observations)), so
the theorem assumes one.

**Preparation.** `IInv` relates what a call has observed to the log: the checkout
was admitted before a policy step, an observed policy record is older and differs,
the version a command carries is a record of its own checkout and host
(`CallOK`). `Kept` shows that an event of anyone else leaves all of that true,
`AppendOK` that an event which may follow keeps the chains. The positions a view
looks up are shown to be the highest ones (`Lasts`).

**Anchor.** Four layers. `StoreInv`: what a store keeps, the one in place and the
copy alike, rests on tags of the forge, and an open claim's request has no outcome
yet; since a restore swaps one for the other, both must carry it. `HeadsInv`: what is
on its way to the forge is a head of the chain, because the chain only grows between
two restores (`Grows`). `PushInv`: the forge has one tag of each sequence, and the
tag a command fetched is the only latest tag its chain can mismatch, however many
landed since; so a command that passed its verification pushes in agreement.
`EraInv`: before a restore the chain holds every tag; after it the tags of the lost
history are heads of one chain the copy is a head of too, and nothing new is pushed
before every tag is held or acknowledged. `TagsExplained` is stated up to the first
restore: a second one may drop the acknowledgement with the entries it takes back,
and the two histories are then on the forge without it. `PushesAgree`,
`AgreementStays` and the rest hold for any number of restores. `CommandsAdvance` needs
`StoreInv` only: every action lowers the steps its command has left.

**Refinement.** A call judges what it read and commits later, so `OneLiveOrder`,
`StoryInv` and the action properties all rest on what its reads are still worth.
`IInv` says for each kind of call which documents it has observed and what is true
of them *as long as the call is not stale* (`CallOK`): the order is pending, the set
is the latest and decided, the digest is the newest draft, no earlier attempt has
returned. One lemma per kind of call shows that a recording that leaves the observed
documents alone leaves that true (`RefineSeen` to `RetrySeen`, `CallSeen`), and
`CommitCalls` that every recording marks stale exactly the calls that observed what
it wrote; a commit whose recheck passes may therefore use what its check judged. The
rest of `IInv` are the documents themselves: rounds have a highest
(`SetOK`), current and approved texts name kept versions (`TruthsOK`), no drafting
order without a decided set (`OrderOK`). For the refinement, `StoryStep` maps
each recording to `Ask`, `Decide`, `Approve` or a stutter of `StoryStates`.

### Only model-checked

- The liveness properties `SessionEnds`, `CommandsReturn` (half of `CommandEnds`),
  `EveryCallReturns` and `GuardAnswers`: liveness under fairness is outside this prover's reach.
- The two runs that expect a violation; a counterexample is their result.

Every invariant, action property and refinement that a passing run checks is stated
by a theorem; `OccupantRestored` is proved, as it is checked, of one updater.
The bounds (`MaxEvents`, `MaxChain`, ...) are arbitrary naturals in the proofs. What
the theorems do not cover is what the models leave out and how they read the code.

## 6. Findings

**`rebuild_backward`: an older rebuild can replace newer views.**
`Admin::rebuild` promises that "Views only rebuild forward: a project whose live
views a newer binary built is refused as read-only"
(`baley-store/src/ledger.rs:406`). `start` judges that in its first batch. If the
project is still empty and unstamped, a guard store of a newer binary may stamp
generation 0 right after, because `stamp_empty` needs no maintenance lock; the
last batch of `start` (`rebuild.rs:274`) creates generation 1 without judging
again, and `finish` makes it live. The views are the older version's until the
newer binary catches up again.

**`retention_kept`: a kept body is not reported.** `PurgeReport.shared` is
documented as "Hashes released or requested whose body or excerpt is still
required by another reference, in any project"
(`baley-store/src/ledger.rs:450`). When the purging project had reduced its own
reference to `h` earlier and another project still holds `h` whole, the purge
releases only the excerpt, and the loop over the requested hashes
(`retention.rs:362`) adds those in state `reduced` only. `h` is then in neither
list, and the exports that hold it are not listed.

### Observations

Met while modelling and not given a run of their own:

- **Two update checks may overlap on disk.** `docs/design/0012-host-interface.md:358`
  says the claim "prevents manual and detached checks from overlapping". The claim
  is confirmed before staging and before activation (`update/command.rs:351`), and
  a process suspended right after may outlive its lease: a reconciler closes its
  claim, another check takes one and both then exchange the stable path. What is
  kept is `UpdateInv`, with any number of updaters: the slow owner's result is not
  recorded as a second one. No property rests on the confirmation itself, which
  narrows the overlap and cannot close it. `OccupantRestored` is not: one
  may restore what the other then removes, so the `update` run asks it of one
  updater beside an owner who edits.
- **An entry placed during an activation may be removed.** When the folder's sync
  fails after the exchange, the restore exchanges again (`deliver.rs:290`); what
  the owner put at the stable path between the two exchanges is then the temporary
  entry and is removed. `OccupantRestored` speaks of entries placed at other times.
- **A story is asked twice while drafting.** Figure 1 of design 0005 lets Drafting
  lead to Refined only; a second return of questions opens another set
  (`refine/questions.rs:94`) and the story is asked again, as `StoryStates` allows.
- **Dropping a story does not end its orders.** The failed order of a dropped story
  can be retried, and an answer that closes a round over MCP issues a drafting order
  for it; `RefinedFromLatest` shows that no approval follows.

## 7. What is not modelled

Assumed by the models:

- a turn is atomic (SQLite transactions, the writer queue), and SHA-256 has no
  collisions;
- a restore happens with Baley stopped and no push in flight; `MaxEra` is one
  restore, since with two histories to acknowledge the run grows out of reach;
- `TagsExplained`, of `ForgeInv`, counts an acknowledgement in the local chain
  wherever it stands: a stalled pusher whose intent predates it can pass its
  verification afterwards; it speaks of the time up to one restore;
- the local chain is not damaged: the models ask what the code does to a sound
  chain, not how it reports a broken one.

Left out of a modelled part:

- caller identities and trace rows: never read by the protocol;
- queries, pages and cursors (what a cursor relies on is `LiveGenerationGrows`);
- in `Claims`, the `Observed` recheck; it is in `Refinement` and `Preparation`,
  whose calls observe;
- in `Retention`, an event attaches at most one body, the `command.completed`
  events are left out, only purged bodies have residue (a reduced body's freed
  pages are not claimed to be scrubbed), and the moment in which an export's target
  exists but is still empty is not a state of its own;
- in `WriterQueue`, what a transaction writes and how long SQLite works on it;
- in `GuardHook`, the parsing of a command line, an answer's reason, and git;
- in `WorkOrders`, a purge releases the inputs of one order: bodies two orders share
  may be released for one of them only, which is more than the code does;
- in `Refinement`, the replay of a recorded request (`Claims`), the policy step
  before a write (`Preparation`), dispatch-active, which no build records yet, and
  the purge of drafts;
- in `Preparation`, one setting stands for the parsed layers, its value for every
  member `judge_policy` compares beside the catalog version, and `command.completed`
  events of admission and policy records are left out;
- in `Update`, the download itself and the launch a session starts, which is the
  detached trigger.

Left out altogether, with reasons, in `PROJECT.json` under `components`: opening
and checking a store, byte formats, the catalog, the rendering of the host
interface, installation, the inherited services, the benchmarks. The inherited
services (`execution_service.rs`, `pause_service.rs`, `execution/`, `store/` and the
others `baley/src/inherited.rs` lists) are "the old per-project services", of which
"Production no longer reaches any of it" (`inherited.rs:1`): a model of them would
specify no running system.

## 8. The plan

Done: the command path, the queue under it, the views, anchors and restores,
retention, the guard, the preparation of writes, one story's refinement and the
updater. Next modules:

1. `Planning`: scope drafts and their approval, phases, plan submissions and
   reviews, as further clients of `WorkOrders`; one live plan per phase.
2. `ProjectStart`: the order of a project's first story, composed with `WorkOrders`.
3. `ChainWalk`: `ChainVerifier` over damaged logs against a reference definition
   of truncated, rewritten and acknowledged.
4. `Served`: the MCP worker's queue and session state around `Preparation`.

Next theorems: what `TagsExplained` becomes after a second restore; `OccupantRestored`
for several updaters of which one at a time is past its last confirmation; the
invariants of the modules above as they are written.

## 9. Running the checks

    tlc -workers 2 -config Rebuild.cfg MCRebuild
    tlapm ClaimsProofs.tla

Each run's module, config and expectation is in `PROJECT.json`.

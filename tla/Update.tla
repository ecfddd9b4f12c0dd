------------------------------- MODULE Update -------------------------------
(***************************************************************************)
(* `baley update` and the detached daily check of one installation (baley  *)
(* update/): the claim of the day, the fetch, staging and activation of a  *)
(* version, the record of the result, and the reconciliation of a check    *)
(* that was interrupted.                                                   *)
(*                                                                         *)
(* Claims are those of module Claims under the one token of the            *)
(* installation.  A lease is lapsed or not: its owner renews it from a     *)
(* heartbeat and before each step that changes the disk, and a process     *)
(* that is suspended or killed does not.  A suspended one may go on after  *)
(* another check has reconciled its claim and taken its own.               *)
(*                                                                         *)
(* The disk is the entry at the stable path, the versions staged and the   *)
(* temporary entry of each attempt beside the stable path.  The network,   *)
(* the manifest and the digest are the outcomes they can have.  Steps      *)
(* between two reads or writes of shared state are joined.                 *)
(*                                                                         *)
(* The specification's names carry the component's, for module             *)
(* MachineProofs, which reasons about this module beside WriterQueue.      *)
(***************************************************************************)
EXTENDS Integers, Sequences, FiniteSets

CONSTANTS
    Procs,       \* update processes, each running one check after another
    Versions,    \* version numbers
    Installed,   \* the version the installer placed
    Entries,     \* what the owner may put at the stable path
    Nothing,     \* no entry
    MaxClaims,   \* bound on the claims taken
    MaxDay,      \* bound on the days
    MaxOwner,    \* bound on the owner's changes of the stable path
    MaxKills     \* bound on the processes killed

ASSUME VersionsAssumption ==
    Versions \subseteq Nat /\ IsFiniteSet(Versions) /\ Installed \in Versions
ASSUME EntriesAssumption ==
    Nothing \notin Entries \cup Versions /\ Entries \cap Versions = {}
ASSUME BoundAssumption == {MaxClaims, MaxDay, MaxOwner, MaxKills} \subseteq Nat

VARIABLES
    day,      \* the UTC date
    claims,   \* the update.check claims: command.claimed in order
    lapsed,   \* whether the open claim's lease has lapsed
    install,  \* the update.checked and update.failed events
    stable,   \* the entry at the stable path; a version is a managed link
    staged,   \* the versions whose binary is published
    temp,     \* the temporary entry of each claim's attempt, named after it
    placed,   \* the entries the owner placed, over what, and whether during an
              \* activation
    proc,     \* what each process is doing
    kills     \* how many were killed

ledger == <<claims, lapsed, install>>
disk == <<stable, staged, temp, placed>>
around == <<day, kills>>
updateVars == <<around, ledger, disk, proc>>

Idle == [at |-> "idle"]

-----------------------------------------------------------------------------
(* The ledger as the updater uses it *)

OpenClaims == {i \in DOMAIN claims : claims[i].state # "closed"}
Held(p) == /\ claims[proc[p].claim].state = "claimed"
           /\ claims[proc[p].claim].owner = p

\* judge_active: a link into the versions folder whose binary is there.
JudgeActive(entry) == IF entry \in staged THEN entry ELSE Nothing

\* One update.checked or update.failed and the completion of its claim.
Record(i, outcome, active, version) ==
    /\ install' = Append(install, [claim |-> i, day |-> claims[i].day, outcome |-> outcome,
                                   active |-> active, staged |-> version])
    /\ claims' = [claims EXCEPT ![i].state = "closed"]
    /\ lapsed' = FALSE

GoTo(p, at) == proc' = [proc EXCEPT ![p].at = at]
Stop(p) == proc' = [proc EXCEPT ![p] = Idle]

-----------------------------------------------------------------------------
(* check: the claim of the day (claim.rs, command.rs) *)

\* The time is read once, before the store is opened.
Start(p, trigger) ==
    /\ proc[p] = Idle
    /\ proc' = [proc EXCEPT ![p] = [at |-> "claim", trigger |-> trigger, day |-> day,
                                    retried |-> FALSE]]
    /\ UNCHANGED <<around, ledger, disk>>

\* Mutant: only a detached check of the day counts.
NotDueDetached(p) ==
    /\ proc[p].trigger = "detached"
    /\ \E i \in DOMAIN claims : claims[i].day = proc[p].day /\ claims[i].trigger = "detached"

\* decide: a detached check finds any claim of its day, in whatever state.
NotDue(p) ==
    /\ proc[p].trigger = "detached"
    /\ \E i \in DOMAIN claims : claims[i].day = proc[p].day

\* gate: only a new claim goes on to fetch.  A check stops at a live or held
\* claim, reconciles an interrupted one once, and is refused when not due.
Claim(p) ==
    /\ proc[p].at = "claim"
    /\ \/ /\ OpenClaims = {} /\ ~NotDue(p) /\ Len(claims) < MaxClaims
          /\ claims' = Append(claims, [day |-> proc[p].day, owner |-> p,
                                       trigger |-> proc[p].trigger, state |-> "claimed"])
          /\ lapsed' = FALSE
          /\ proc' = [proc EXCEPT ![p] = [at |-> "fetch", claim |-> Len(claims) + 1]]
          /\ UNCHANGED install
       \/ /\ \/ OpenClaims = {} /\ NotDue(p)
             \/ \E i \in OpenClaims :
                    claims[i].state = "held" \/ ~lapsed \/ proc[p].retried
          /\ Stop(p)
          /\ UNCHANGED ledger
       \/ \E i \in OpenClaims :
             /\ claims[i].state = "claimed" /\ lapsed /\ ~proc[p].retried
             /\ proc' = [proc EXCEPT ![p] =
                            [at |-> "reconcile", trigger |-> @.trigger, day |-> @.day,
                             claim |-> i, active |-> JudgeActive(stable),
                             staged |-> staged]]
             /\ UNCHANGED ledger
    /\ UNCHANGED <<around, disk>>

-----------------------------------------------------------------------------
(* reconcile.rs *)

\* observed_result: the highest version present above the active one.
Above(versions, active) ==
    LET Higher == {v \in versions : active = Nothing \/ v > active}
    IN  IF Higher = {} THEN Nothing ELSE CHOOSE v \in Higher : \A w \in Higher : w <= v

Interrupted(i, active, versions) ==
    Record(i, "interrupted", active, Above(versions, active))

\* Claims' Reconcile: an automatic one needs an interrupted claim, the
\* owner's a held one; a claim that is live or closed refuses.
MayReconcile(i, by) ==
    IF by = "owner" THEN claims[i].state = "held"
                    ELSE claims[i].state = "claimed" /\ lapsed

\* A managed link closes the claim; any other entry holds it for the owner.
Reconcile(p) ==
    LET i == proc[p].claim
    IN  /\ proc[p].at = "reconcile"
        /\ \/ /\ MayReconcile(i, "baley") /\ proc[p].active # Nothing
              /\ Interrupted(i, proc[p].active, proc[p].staged)
              /\ proc' = [proc EXCEPT ![p] = [at |-> "claim", trigger |-> @.trigger,
                                              day |-> @.day, retried |-> TRUE]]
           \/ /\ MayReconcile(i, "baley") /\ proc[p].active = Nothing
              /\ claims' = [claims EXCEPT ![i].state = "held"]
              /\ Stop(p)
              /\ UNCHANGED <<lapsed, install>>
           \/ /\ ~MayReconcile(i, "baley")
              /\ Stop(p)
              /\ UNCHANGED ledger
        /\ UNCHANGED <<around, disk>>

\* `baley update resolve`, its reads and its transaction.
ResolveRead(p) ==
    /\ proc[p] = Idle
    /\ \E i \in OpenClaims :
          /\ claims[i].state = "held"
          /\ proc' = [proc EXCEPT ![p] =
                [at |-> "resolve", claim |-> i, active |-> JudgeActive(stable),
                 staged |-> staged]]
    /\ UNCHANGED <<around, ledger, disk>>

Resolve(p) ==
    /\ proc[p].at = "resolve"
    /\ IF MayReconcile(proc[p].claim, "owner")
       THEN Interrupted(proc[p].claim, proc[p].active, proc[p].staged)
       ELSE UNCHANGED ledger
    /\ Stop(p)
    /\ UNCHANGED <<around, disk>>

-----------------------------------------------------------------------------
(* gather_check and deliver: fetch, stage, activate *)

\* Check::failed: the step failed.  After an activation failure the stable
\* path is read again, before it the version read at the start is recorded.
FailWith(p, active, version) ==
    proc' = [proc EXCEPT ![p] =
        [at |-> "complete", claim |-> @.claim, outcome |-> "failed",
         active |-> active, staged |-> version]]
Fail(p, version) == FailWith(p, JudgeActive(stable), version)

\* The stable link is read, then the manifest and the binary are fetched.
Fetch(p) ==
    /\ proc[p].at = "fetch"
    /\ \/ Fail(p, Nothing)    \* not installed, no answer, a bad manifest or digest
       \/ /\ JudgeActive(stable) # Nothing
          /\ \E v \in Versions :
               proc' = [proc EXCEPT ![p] =
                   IF v > stable
                   THEN [at |-> "confirmStaging", claim |-> @.claim, start |-> stable,
                         offer |-> v]
                   ELSE [at |-> "complete", claim |-> @.claim, outcome |-> "current",
                         active |-> stable, staged |-> Nothing]]
    /\ UNCHANGED <<around, ledger, disk>>

\* lease_decision: the lease is renewed and the claim is open, unheld, ours.
Confirm(p) == Held(p) /\ lapsed' = FALSE

\* It is not, or a renewal failed, now or in the heartbeat, or a read after it.
Unconfirmed(p) == UNCHANGED lapsed \/ Confirm(p)

ConfirmStaging(p) ==
    /\ proc[p].at = "confirmStaging"
    /\ \/ Confirm(p) /\ GoTo(p, "stage")
       \/ Unconfirmed(p) /\ FailWith(p, proc[p].start, Nothing)
    /\ UNCHANGED <<around, claims, install, disk>>

\* The binary is published by a rename; a version found intact is kept.  The
\* version may be published and the step fail: its folder is not synced, or
\* the versions cannot be listed, and then the result names it.
Stage(p) ==
    /\ proc[p].at = "stage"
    /\ \/ /\ staged' = staged \cup {proc[p].offer}
          /\ \/ GoTo(p, "recheck")
             \/ \E version \in {Nothing, proc[p].offer} :
                    FailWith(p, proc[p].start, version)
       \/ /\ FailWith(p, proc[p].start, Nothing)    \* a conflict, an unwritable folder
          /\ UNCHANGED staged
    /\ UNCHANGED <<around, ledger, stable, temp, placed>>

\* activation_decision: the stable path is the managed link read at the start.
Recheck(p) ==
    /\ proc[p].at = "recheck"
    /\ IF stable = proc[p].start /\ JudgeActive(stable) # Nothing
       THEN GoTo(p, "confirmActivation") ELSE Fail(p, proc[p].offer)
    /\ UNCHANGED <<around, ledger, disk>>

\* The claim is confirmed and the temporary link made.
ConfirmActivation(p) ==
    /\ proc[p].at = "confirmActivation"
    /\ \/ /\ Confirm(p)
          /\ temp' = [temp EXCEPT ![proc[p].claim] = proc[p].offer]
          /\ GoTo(p, "exchange")
       \/ /\ Unconfirmed(p)
          /\ Fail(p, proc[p].offer)
          /\ UNCHANGED temp
    /\ UNCHANGED <<around, claims, install, stable, staged, placed>>

\* The two entries change places; a failed exchange removes the temporary.
Exchange(p) ==
    /\ proc[p].at = "exchange"
    /\ \/ /\ stable' = temp[proc[p].claim] /\ temp' = [temp EXCEPT ![proc[p].claim] = stable]
          /\ GoTo(p, "inspect")
       \/ /\ temp' = [temp EXCEPT ![proc[p].claim] = Nothing]
          /\ Fail(p, proc[p].offer)
          /\ UNCHANGED stable
    /\ UNCHANGED <<around, ledger, staged, placed>>

\* Mutant: what the exchange displaced is removed unlooked at.
DisplacedAny(p) == TRUE

\* swapped_decision: the exchange displaced the link read at the start.
Displaced(p) == temp[proc[p].claim] = proc[p].start

\* The folder is synced and the displaced entry judged: the start's link is
\* removed and the check done, anything else is put back; an error after the
\* exchange puts back as well.
Inspect(p) ==
    /\ proc[p].at = "inspect"
    /\ \/ /\ Displaced(p)
          /\ temp' = [temp EXCEPT ![proc[p].claim] = Nothing]
          /\ proc' = [proc EXCEPT ![p] =
                [at |-> "complete", claim |-> @.claim, outcome |-> "staged",
                 active |-> @.offer, staged |-> @.offer]]
       \/ GoTo(p, "restore") /\ UNCHANGED temp
    /\ UNCHANGED <<around, ledger, stable, staged, placed>>

\* restore_operations: exchange again and remove what then is temporary. A
\* failure at either leaves the temporary entry for inspection.
Restore(p) ==
    /\ proc[p].at = "restore"
    /\ \/ /\ stable' = temp[proc[p].claim] /\ temp' = [temp EXCEPT ![proc[p].claim] = stable]
          /\ GoTo(p, "clean")
       \/ Fail(p, proc[p].offer) /\ UNCHANGED <<stable, temp>>
    /\ UNCHANGED <<around, ledger, staged, placed>>

Clean(p) ==
    /\ proc[p].at = "clean"
    /\ Fail(p, proc[p].offer)
    /\ \/ temp' = [temp EXCEPT ![proc[p].claim] = Nothing]
       \/ UNCHANGED temp
    /\ UNCHANGED <<around, ledger, stable, staged, placed>>

-----------------------------------------------------------------------------
(* record.rs: the result and the claim's outcome commit together *)

Completable(p) == Held(p)

Complete(p) ==
    /\ proc[p].at = "complete"
    /\ IF Completable(p)
       THEN Record(proc[p].claim, proc[p].outcome, proc[p].active, proc[p].staged)
       ELSE UNCHANGED ledger    \* the receipt says the record is incomplete
    /\ Stop(p)
    /\ UNCHANGED <<around, disk>>

-----------------------------------------------------------------------------
(* Heartbeat, time, kills and the owner *)

Working(p) == "claim" \in DOMAIN proc[p] /\ proc[p].at \notin {"reconcile", "resolve", "complete"}

Heartbeat(p) ==
    /\ Working(p) /\ Held(p) /\ lapsed
    /\ lapsed' = FALSE
    /\ UNCHANGED <<around, claims, install, disk, proc>>

Lapse ==
    /\ \E i \in OpenClaims : claims[i].state = "claimed"
    /\ ~lapsed /\ lapsed' = TRUE
    /\ UNCHANGED <<around, claims, install, disk, proc>>

Midnight ==
    /\ day < MaxDay /\ day' = day + 1
    /\ UNCHANGED <<kills, ledger, disk, proc>>

\* A killed process leaves its claim open and its temporary entry in place.
Kill(p) ==
    /\ kills < MaxKills /\ kills' = kills + 1
    /\ proc[p] # Idle /\ Stop(p)
    /\ UNCHANGED <<day, ledger, disk>>

\* Whether an activation has exchanged the stable path and not finished.
Activating == \E p \in Procs : proc[p].at \in {"inspect", "restore", "clean"}

\* The owner puts another entry at the stable path.
Owner(e) ==
    /\ Cardinality(placed) < MaxOwner /\ \A old \in placed : old.entry # e
    /\ placed' = placed \cup {[entry |-> e, over |-> stable, during |-> Activating]}
    /\ stable' = e
    /\ UNCHANGED <<around, ledger, staged, temp, proc>>

-----------------------------------------------------------------------------
UpdateInit ==
    /\ day = 0 /\ claims = <<>> /\ lapsed = FALSE /\ install = <<>>
    /\ stable = Installed /\ staged = {Installed}
    /\ temp = [i \in 1..MaxClaims |-> Nothing]
    /\ placed = {} /\ kills = 0
    /\ proc = [p \in Procs |-> Idle]

\* What one process does of itself once started.
Goes(p) ==
    \/ Claim(p) \/ Reconcile(p) \/ Resolve(p)
    \/ Fetch(p) \/ ConfirmStaging(p) \/ Stage(p) \/ Recheck(p) \/ ConfirmActivation(p)
    \/ Exchange(p) \/ Inspect(p) \/ Restore(p) \/ Clean(p) \/ Complete(p)

UpdateNext ==
    \/ \E p \in Procs :
         \/ \E trigger \in {"manual", "detached"} : Start(p, trigger)
         \/ ResolveRead(p)
         \/ Goes(p)
         \/ Heartbeat(p)
         \/ Kill(p)
    \/ Lapse
    \/ Midnight
    \/ \E e \in Entries : Owner(e)

UpdateSpec == UpdateInit /\ [][UpdateNext]_updateVars

-----------------------------------------------------------------------------
Entry == Versions \cup Entries \cup {Nothing}

UpdateTypeOK ==
    /\ day \in 0..MaxDay /\ kills \in 0..MaxKills /\ lapsed \in BOOLEAN
    /\ Len(claims) <= MaxClaims
    /\ \A i \in DOMAIN claims :
         claims[i] \in [day : 0..MaxDay, owner : Procs, trigger : {"manual", "detached"},
                        state : {"claimed", "held", "closed"}]
    /\ \A i \in DOMAIN install :
         install[i] \in [claim : DOMAIN claims, day : 0..MaxDay,
                         outcome : {"current", "staged", "failed", "interrupted"},
                         active : Versions \cup {Nothing}, staged : Versions \cup {Nothing}]
    /\ stable \in Entry \ {Nothing} /\ staged \subseteq Versions
    /\ temp \in [1..MaxClaims -> Entry]
    /\ \A p \in Procs : "claim" \in DOMAIN proc[p] => proc[p].claim \in DOMAIN claims

\* A claim has one result, whoever records it: the check that took it, the
\* next check that reconciled it, or the owner.  Until then the installation
\* is held and no other claim is open (record.rs complete, reconcile.rs
\* record_reconciliation).
OneResultPerClaim ==
    /\ Cardinality(OpenClaims) <= 1
    /\ \A i \in DOMAIN claims :
         Cardinality({k \in DOMAIN install : install[k].claim = i})
            = IF claims[i].state = "closed" THEN 1 ELSE 0

\* A session's detached check fetches at most once a day, and not on a day the
\* owner already checked, also when it started before midnight, when it waited
\* or when it first reconciled another check (claim.rs decide).
DailyClaim ==
    \A i, j \in DOMAIN claims :
       i < j /\ claims[j].trigger = "detached" => claims[i].day # claims[j].day

\* Whatever is interrupted, the stable path is there: a link to a version
\* whose binary is published, or what the owner put (deliver.rs).
StableRuns == stable \in staged \cup Entries

\* One installation's claims, results and stable path.
UpdateInv == UpdateTypeOK /\ OneResultPerClaim /\ DailyClaim /\ StableRuns

\* An entry the owner put at the stable path while no activation was between
\* its exchange and its end is still there, or in the temporary entry a failed
\* or killed attempt leaves for inspection, unless the owner replaced it since
\* (deliver.rs swapped_decision).  It is what one updater promises: of two
\* checks that are both past their last claim check, one may restore what the
\* other then removes.
OccupantRestored ==
    \A e \in placed :
       ~e.during => \/ e.entry = stable \/ \E i \in DOMAIN temp : temp[i] = e.entry
                    \/ \E later \in placed : later.over = e.entry

=============================================================================

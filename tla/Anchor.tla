------------------------------- MODULE Anchor -------------------------------
(***************************************************************************)
(* Anchoring one project's hash chain on a forge (baley-core anchor.rs,    *)
(* reconcile.rs, restore.rs; baley-store chain.rs): the anchor command     *)
(* claims, fetches the latest tag, verifies, pushes its own tag and records*)
(* what it saw, while leases expire, processes crash, pushes land late,    *)
(* another process reconciles the claim from the remote, and the owner     *)
(* restores an older copy of the store and acknowledges it.                *)
(*                                                                         *)
(* The claim protocol is Claims with the one scope token `anchor`.  A      *)
(* command appends one entry to the chain here, whatever number of events  *)
(* it records.  A head's hash is the chain up to it, so an anchor is a     *)
(* prefix of a chain, its sequence the prefix's length, and equal prefixes *)
(* are equal hashes.  Entries made before and after a restore differ.      *)
(***************************************************************************)
EXTENDS Integers, Sequences

CONSTANTS
    Procs,        \* processes of the anchor and acknowledge commands
    Requests,     \* request ids of anchor commands
    None,         \* no process or request
    LeaseExpiry,  \* LEASE_EXPIRY_SECONDS
    MaxTime,      \* bound on the clock
    MaxChain,     \* a command starts only while the chain is shorter
    MaxEra        \* bound on the number of restores

ASSUME NoneAssumption == None \notin Procs \cup Requests
ASSUME ExpiryAssumption == LeaseExpiry \in Nat \ {0}
ASSUME BoundAssumption ==
    MaxTime \in Nat /\ MaxChain \in Nat /\ MaxEra \in Nat

VARIABLES
    chain,    \* the project's log
    claim,    \* the open anchor claim and its lease row
    outcome,  \* the request view: what a completed request answered
    rows,     \* the anchor table: anchors this store recorded as pushed
    remote,   \* the anchor tags on the forge
    flight,   \* pushes sent that the forge has not handled yet
    run,      \* the command each process runs
    now,      \* the time
    copy,     \* the copy of the store the owner keeps
    era       \* how many restores happened

store == <<chain, claim, outcome, rows>>
vars == <<store, remote, flight, run, now, copy, era>>

-----------------------------------------------------------------------------
NoAnchor == <<>>
NoLease == -LeaseExpiry
NoClaim == [req |-> None, owner |-> None, seq |-> 0, lease |-> NoLease]

\* The chain up to and including sequence n.
Prefix(c, n) == SubSeq(c, 1, n)

\* Chain c holds anchor a's head at a's sequence.
Holds(c, a) == Len(a) <= Len(c) /\ Prefix(c, Len(a)) = a

Entry(type) == [type |-> type, era |-> era]

\* Mutant: the restored head is compared with the chain's present head.
AcknowledgesAtHead(c, a) ==
    \E i \in DOMAIN c :
        c[i].type = "acknowledged" /\ c[i].anchor = a /\ i = Len(c)

\* An owner's acknowledgement of exactly this anchor in the chain.
Acknowledges(c, a) ==
    \E i \in DOMAIN c : c[i].type = "acknowledged" /\ c[i].anchor = a

\* chain_mismatch over ChainVerifier::finish: truncated or rewritten, and
\* not acknowledged. Absence of a remote anchor never is a mismatch.
Mismatch(c, a) == a # NoAnchor /\ ~Holds(c, a) /\ ~Acknowledges(c, a)

\* TagQuery::LatestAnchor: the tag with the highest sequence.
Latest(a) ==
    IF remote = {} THEN a = NoAnchor
    ELSE a \in remote /\ \A b \in remote : Len(b) <= Len(a)

Tagged(n) == \E a \in remote : Len(a) = n

\* The head the open claim intends to anchor: the one before its own event.
Target == Prefix(chain, claim.seq - 1)

Active(at) == at < claim.lease + LeaseExpiry

-----------------------------------------------------------------------------
NoRun == [pc |-> "idle", req |-> None, retried |-> FALSE, intent |-> NoAnchor,
          seen |-> NoAnchor, held |-> NoClaim, at |-> 0, pushed |-> FALSE]

Init ==
    /\ chain = <<>>
    /\ claim = NoClaim
    /\ outcome = [r \in Requests |-> "none"]
    /\ rows = {}
    /\ remote = {}
    /\ flight = {}
    /\ run = [p \in Procs |-> NoRun]
    /\ now = 0
    /\ copy = [chain |-> chain, claim |-> claim, outcome |-> outcome,
               rows |-> rows]
    /\ era = 0

At(p, pc) == run[p].pc = pc
Goto(p, pc) == run' = [run EXCEPT ![p].pc = pc]
Stop(p) == run' = [run EXCEPT ![p] = NoRun]

\* The chain's bound holds back commands that start, never one under way.
Room == Len(chain) < MaxChain
Extend(entry) == chain' = Append(chain, entry)
World == <<remote, flight, now, copy, era>>

\* Any other command appends to the chain.
Work ==
    /\ Room
    /\ Extend(Entry("work"))
    /\ UNCHANGED <<claim, outcome, rows, run, World>>

Tick ==
    /\ now < MaxTime
    /\ now' = now + 1
    /\ UNCHANGED <<store, remote, flight, run, copy, era>>

-----------------------------------------------------------------------------
(* anchor_command: the claim step *)

Begin(p, r) ==
    /\ At(p, "idle")
    /\ Room
    /\ run' = [run EXCEPT ![p].pc = "claim", ![p].req = r]
    /\ UNCHANGED <<store, World>>

\* The claim commits with the head it read as its intent.
ClaimNew(p) ==
    LET r == run[p].req IN
    /\ At(p, "claim")
    /\ outcome[r] = "none"
    /\ claim = NoClaim
    /\ chain # <<>>
    /\ Extend(Entry("claimed"))
    /\ claim' = [req |-> r, owner |-> p, seq |-> Len(chain) + 1, lease |-> now]
    /\ run' = [run EXCEPT ![p].pc = "fetch", ![p].intent = chain]
    /\ UNCHANGED <<outcome, rows, World>>

\* Nothing to anchor, or no remote: a refusal is recorded.
ClaimRefused(p) ==
    /\ At(p, "claim")
    /\ outcome[run[p].req] = "none"
    /\ claim = NoClaim
    /\ Extend(Entry("refused"))
    /\ outcome' = [outcome EXCEPT ![run[p].req] = "refused"]
    /\ Stop(p)
    /\ UNCHANGED <<claim, rows, World>>

\* The request was completed before, or holds the open claim itself.
ClaimAnswered(p) ==
    /\ At(p, "claim")
    /\ outcome[run[p].req] # "none" \/ claim.req = run[p].req
    /\ Stop(p)
    /\ UNCHANGED <<store, World>>

\* Mutant: a command that has retried looks into the next claim too.
ClaimBlockedAgain(p) ==
    /\ At(p, "claim")
    /\ outcome[run[p].req] = "none"
    /\ claim # NoClaim
    /\ claim.req # run[p].req
    /\ IF Active(now)
       THEN Stop(p)
       ELSE run' = [run EXCEPT ![p].pc = "holder", ![p].held = claim]
    /\ UNCHANGED <<store, World>>

\* Another claim holds the scope: an interrupted one is looked into once.
ClaimBlocked(p) ==
    /\ At(p, "claim")
    /\ outcome[run[p].req] = "none"
    /\ claim # NoClaim
    /\ claim.req # run[p].req
    /\ IF run[p].retried \/ Active(now)
       THEN Stop(p)
       ELSE run' = [run EXCEPT ![p].pc = "holder", ![p].held = claim]
    /\ UNCHANGED <<store, World>>

-----------------------------------------------------------------------------
(* anchor_command: reconciling the claim that blocks *)

\* open_claims: the blocking claim is still open, or the race is lost.
ReadHolder(p) ==
    /\ At(p, "holder")
    /\ IF claim.req = run[p].held.req
       THEN run' = [run EXCEPT ![p].pc = "exact", ![p].held = claim,
                               ![p].intent = Target]
       ELSE Stop(p)
    /\ UNCHANGED <<store, World>>

\* The fetch of the holder's exact tag answers what the forge holds.
FetchExact(p, a) ==
    /\ At(p, "exact")
    /\ IF Tagged(Len(run[p].intent))
       THEN a \in remote /\ Len(a) = Len(run[p].intent)
       ELSE a = NoAnchor
    /\ run' = [run EXCEPT ![p].pc = "reconcile", ![p].seen = a, ![p].at = now]
    /\ UNCHANGED <<store, World>>

\* An unreachable remote leaves a trace row, outside the chain, and the claim.
FetchExactFails(p) ==
    /\ At(p, "exact")
    /\ Stop(p)
    /\ UNCHANGED <<store, World>>

\* judge_anchor: the tag agrees in sequence and hash.
JudgedAnchored(p) == run[p].seen = run[p].intent

\* stage_anchor: a row already stored for the sequence, of another hash or
\* another time, refuses the whole command.
StageAnchor(a) ==
    /\ \A b \in rows : Len(b) # Len(a)
    /\ rows' = rows \cup {a}

\* reconcile: still the same claim, interrupted at the time of the check. A
\* matching tag completes it as done with its row, anything else as refused.
Reconcile(p) ==
    /\ At(p, "reconcile")
    /\ claim.req = run[p].held.req
    /\ claim.seq = run[p].held.seq
    /\ ~Active(run[p].at)
    /\ Extend(Entry("reconciled"))
    /\ claim' = NoClaim
    /\ outcome' = [outcome EXCEPT ![claim.req] =
                      IF JudgedAnchored(p) THEN "done" ELSE "refused"]
    /\ IF JudgedAnchored(p) THEN StageAnchor(run[p].intent)
       ELSE UNCHANGED rows
    /\ run' = [run EXCEPT ![p] =
                  [NoRun EXCEPT !.pc = "claim", !.req = run[p].req,
                                !.retried = TRUE]]
    /\ UNCHANGED World

\* The claim was renewed, completed or reconciled meanwhile.
ReconcileLost(p) ==
    /\ At(p, "reconcile")
    /\ \/ claim.req # run[p].held.req
       \/ claim.seq # run[p].held.seq
       \/ Active(run[p].at)
    /\ Stop(p)
    /\ UNCHANGED <<store, World>>

-----------------------------------------------------------------------------
(* act_and_record: under the heartbeat, fetch, verify and push *)

\* A tick of the heartbeat. A renewal that fails stops nothing.
Renew(p) ==
    /\ run[p].pc \in {"fetch", "verify", "push", "sent"}
    /\ claim.req = run[p].req
    /\ claim.owner = p
    /\ now > claim.lease
    /\ claim' = [claim EXCEPT !.lease = now]
    /\ UNCHANGED <<chain, outcome, rows, run, World>>

\* Mutant: the local anchor rows stand in for the remote.
FetchLatestLocal(p, a) ==
    /\ At(p, "fetch")
    /\ a \in rows \cup {NoAnchor}
    /\ \A b \in rows : Len(b) <= Len(a)
    /\ run' = [run EXCEPT ![p].pc = "verify", ![p].seen = a]
    /\ UNCHANGED <<store, World>>

FetchLatest(p, a) ==
    /\ At(p, "fetch")
    /\ Latest(a)
    /\ run' = [run EXCEPT ![p].pc = "verify", ![p].seen = a]
    /\ UNCHANGED <<store, World>>

\* An unreachable remote refuses, as a failed push does.
FetchLatestFails(p) ==
    /\ At(p, "fetch")
    /\ Goto(p, "record")
    /\ UNCHANGED <<store, World>>

\* pre_push_check: the whole local chain against the latest anchor.
Verify(p) ==
    /\ At(p, "verify")
    /\ run' = [run EXCEPT
          ![p].pc = IF Mismatch(chain, run[p].seen) THEN "record" ELSE "push",
          ![p].seen = NoAnchor]
    /\ UNCHANGED <<store, World>>

Send(p) ==
    /\ At(p, "push")
    /\ flight' = flight \cup {run[p].intent}
    /\ Goto(p, "sent")
    /\ UNCHANGED <<store, remote, now, copy, era>>

\* The forge handles a push: it never moves a tag it holds. It may do so
\* long after the pusher stopped waiting.
Land(a) ==
    /\ a \in flight
    /\ flight' = flight \ {a}
    /\ remote' = IF Tagged(Len(a)) THEN remote ELSE remote \cup {a}
    /\ UNCHANGED <<store, run, now, copy, era>>

\* A push the forge never receives.
Lose(a) ==
    /\ a \in flight
    /\ flight' = flight \ {a}
    /\ UNCHANGED <<store, remote, run, now, copy, era>>

\* Mutant: a push without an answer is taken for one that landed.
AnsweredOptimistic(p) ==
    /\ At(p, "sent")
    /\ run' = [run EXCEPT ![p].pc = "record", ![p].pushed = TRUE]
    /\ UNCHANGED <<store, World>>

\* git reports the new tag.
Answered(p) ==
    /\ At(p, "sent")
    /\ run[p].intent \in remote
    /\ run' = [run EXCEPT ![p].pc = "record", ![p].pushed = TRUE]
    /\ UNCHANGED <<store, World>>

\* git reports a rejected tag, or no complete answer came in time: the tag
\* may be there, or may still land.
NotAnswered(p) ==
    /\ At(p, "sent")
    /\ Goto(p, "record")
    /\ UNCHANGED <<store, World>>

\* Mutant: a record step does not look at the state of its claim.
RecordAnyway(p) ==
    /\ At(p, "record")
    /\ Extend(Entry("recorded"))
    /\ claim' = IF claim.req = run[p].req THEN NoClaim ELSE claim
    /\ outcome' = [outcome EXCEPT ![run[p].req] =
                      IF run[p].pushed THEN "done" ELSE "refused"]
    /\ IF run[p].pushed THEN StageAnchor(run[p].intent) ELSE UNCHANGED rows
    /\ Stop(p)
    /\ UNCHANGED World

\* record: the owner completes its claim, with the row for a confirmed tag.
Record(p) ==
    /\ At(p, "record")
    /\ claim.req = run[p].req
    /\ claim.owner = p
    /\ Extend(Entry("recorded"))
    /\ claim' = NoClaim
    /\ outcome' = [outcome EXCEPT ![run[p].req] =
                      IF run[p].pushed THEN "done" ELSE "refused"]
    /\ IF run[p].pushed THEN StageAnchor(run[p].intent) ELSE UNCHANGED rows
    /\ Stop(p)
    /\ UNCHANGED World

\* Mutant: only an outcome that agrees with the push is answered.
RecordReplayedDone(p) ==
    /\ At(p, "record")
    /\ outcome[run[p].req] = "done"
    /\ Stop(p)
    /\ UNCHANGED <<store, World>>

\* LateReplay: reconciliation closed the claim first and its outcome stands.
RecordReplayed(p) ==
    /\ At(p, "record")
    /\ outcome[run[p].req] # "none"
    /\ Stop(p)
    /\ UNCHANGED <<store, World>>

\* A process dies. A push it sent may still land.
Crash(p) ==
    /\ ~At(p, "idle")
    /\ Stop(p)
    /\ UNCHANGED <<store, World>>

-----------------------------------------------------------------------------
(* Copies, restores and their acknowledgement *)

\* The owner copies the store, once here. A copy's leases have expired by
\* the time it is used.
Backup ==
    /\ era = 0
    /\ copy.chain = <<>>
    /\ copy' = [chain |-> chain, claim |-> [claim EXCEPT !.lease = NoLease],
                outcome |-> outcome, rows |-> rows]
    /\ UNCHANGED <<store, remote, flight, run, now, era>>

\* The owner puts the copy in the store's place, with Baley stopped and no
\* push under way.
Restore ==
    /\ era < MaxEra
    /\ flight = {}
    /\ \A p \in Procs : At(p, "idle")
    /\ chain' = copy.chain
    /\ claim' = copy.claim
    /\ outcome' = copy.outcome
    /\ rows' = copy.rows
    /\ era' = era + 1
    /\ UNCHANGED <<remote, flight, run, now, copy>>

\* acknowledge_restore: the latest anchor is fetched and the chain verified
\* against it, at the head `intent` keeps.
AckVerify(p, a) ==
    /\ At(p, "idle")
    /\ Room
    /\ remote # {}
    /\ Latest(a)
    /\ run' = [run EXCEPT ![p].pc = "acknowledge", ![p].seen = a,
                          ![p].intent = chain]
    /\ UNCHANGED <<store, World>>

\* Its transaction, blocked by an open claim and stale when the head moved:
\* a chain that mismatches gets the acknowledgement, any other a refusal.
AckRecord(p) ==
    /\ At(p, "acknowledge")
    /\ claim = NoClaim
    /\ chain = run[p].intent
    /\ Extend(IF Mismatch(chain, run[p].seen)
              THEN [type |-> "acknowledged", era |-> era, anchor |-> run[p].seen]
              ELSE Entry("refused"))
    /\ Stop(p)
    /\ UNCHANGED <<claim, outcome, rows, World>>

AckStale(p) ==
    /\ At(p, "acknowledge")
    /\ claim # NoClaim \/ chain # run[p].intent
    /\ Stop(p)
    /\ UNCHANGED <<store, World>>

-----------------------------------------------------------------------------
Anchors == remote \cup {NoAnchor}

\* The next step of the command p runs.
Step(p) ==
    \/ ClaimNew(p) \/ ClaimRefused(p) \/ ClaimAnswered(p) \/ ClaimBlocked(p)
    \/ ReadHolder(p) \/ FetchExactFails(p) \/ Reconcile(p) \/ ReconcileLost(p)
    \/ FetchLatestFails(p) \/ Verify(p) \/ Send(p)
    \/ Answered(p) \/ NotAnswered(p) \/ Record(p) \/ RecordReplayed(p)
    \/ AckRecord(p) \/ AckStale(p)
    \/ \E a \in Anchors : FetchExact(p, a) \/ FetchLatest(p, a)

Next ==
    \/ Work \/ Tick \/ Backup \/ Restore
    \/ \E a \in flight : Land(a) \/ Lose(a)
    \/ \E p \in Procs :
        \/ \E r \in Requests : Begin(p, r)
        \/ \E a \in Anchors : AckVerify(p, a)
        \/ Step(p)
        \/ Renew(p)
        \/ Crash(p)

Spec == Init /\ [][Next]_vars

\* A command under way takes its next step unless its process dies. Nothing
\* makes a lease expire, a push land or another command come.
Fairness == \A p \in Procs : WF_vars(Step(p))

FairSpec == Spec /\ Fairness

-----------------------------------------------------------------------------
(* Properties *)

\* The claim, the request outcomes and every command's locals have their
\* shapes, and an open claim names an entry that records a claim.
TypeOK ==
    /\ \/ claim = NoClaim
       \/ /\ claim.req \in Requests
          /\ claim.owner \in Procs
          /\ claim.seq \in 2..Len(chain)
          /\ chain[claim.seq].type = "claimed"
    /\ outcome \in [Requests -> {"none", "done", "refused"}]
    /\ \A p \in Procs :
          /\ run[p].pc \in {"idle", "claim", "holder", "exact", "reconcile",
                            "fetch", "verify", "push", "sent", "record",
                            "acknowledge"}
          /\ run[p].req \in Requests \cup {None}
          /\ run[p].pc \notin {"idle", "acknowledge"} => run[p].req \in Requests
    /\ now \in 0..MaxTime
    /\ era \in 0..MaxEra

\* An anchor row, and an answer that a head was anchored, are evidence: the
\* forge holds that tag with that head, however the record came about.
RowsWitnessed ==
    /\ rows \subseteq remote
    /\ \A r \in Requests : outcome[r] = "done" => rows # {}

\* What the store keeps of anchoring, and what it rests on.
AnchorInv == TypeOK /\ RowsWitnessed

\* The local chain holds an owner's acknowledgement of a tag whose history
\* a belongs to.
Explained(a) ==
    \E i \in DOMAIN chain :
        chain[i].type = "acknowledged" /\ Holds(chain[i].anchor, a)

\* The tags on the forge tell one history: of any two, one extends the other
\* unless the owner acknowledged the restore that parted them.  A second
\* restore of the copy may drop that acknowledgement with the rest.
TagsExplained ==
    era <= 1 =>
        \A a, b \in remote :
            Holds(a, b) \/ Holds(b, a) \/ Explained(a) \/ Explained(b)

Disagrees == \E a \in remote : Latest(a) /\ Mismatch(chain, a)

\* A command pushes only while the chain agrees with the latest tag, though
\* that tag was fetched long before and others landed since.
PushesAgree == \A p \in Procs : run[p].pc \in {"push", "sent"} => ~Disagrees

\* What the tags on the forge come to.
ForgeInv == TagsExplained /\ PushesAgree

\* Once the chain agrees with the forge's latest tag, by holding it or by an
\* acknowledged restore, only another restore makes verification call it
\* truncated or rewritten: no crash, lost answer, late landing,
\* reconciliation or later anchor does.
AgreementStays == [][era' = era /\ ~Disagrees => ~Disagrees']_vars

\* A recorded outcome stands: a late record step, or a second reconciler,
\* never changes what the store answered, until a copy is restored.
OutcomeStands ==
    [][era' = era =>
        \A r \in Requests :
            outcome[r] # "none" => outcome'[r] = outcome[r]]_<<outcome, era>>

\* The steps a command has before it at most: those of its point, and a look
\* into the claim that blocks it and back while it has not retried.
StepsLeft(x) ==
    LET left == [idle |-> 0, record |-> 1, acknowledge |-> 1, sent |-> 2,
                 push |-> 3, verify |-> 4, fetch |-> 5, claim |-> 6,
                 reconcile |-> 7, exact |-> 8, holder |-> 9]
    IN  IF x.pc = "claim" /\ ~x.retried THEN 10 ELSE left[x.pc]

\* Every step of a command under way brings it nearer to its end, whatever
\* claims it meets and whoever reconciles them: a retry is not retried.
CommandsAdvance ==
    [][\A p \in Procs :
          run[p].pc # "idle" /\ run'[p] # run[p] =>
              StepsLeft(run'[p]) < StepsLeft(run[p])]_run

\* No step waits for another process: a command that started ends.
CommandsReturn ==
    \A p \in Procs : run[p].pc # "idle" ~> run[p].pc = "idle"

\* An anchor or acknowledge command ends, whoever it races and however often
\* the claim that blocks it changes hands: it reconciles and retries at most
\* once, and waits for nobody.
CommandEnds == CommandsAdvance /\ CommandsReturn
=============================================================================

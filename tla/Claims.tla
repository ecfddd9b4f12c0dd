------------------------------- MODULE Claims -------------------------------
(***************************************************************************)
(* The command path of one project's ledger: transact, claim, renew_lease, *)
(* complete and reconcile (baley-store-sqlite transact.rs and claim.rs)    *)
(* with the two views the path itself reads, `request` and `claim_scope`   *)
(* (baley-store request.rs and claim.rs), and the claim_lease table.       *)
(*                                                                         *)
(* A command runs in one SQLite write transaction under the writer queue,  *)
(* so one command is one step; processes interleave between commands.  A   *)
(* command's time `at` is read by its caller before it waits for the       *)
(* queue, so it may be any time up to the real one.  A refused command     *)
(* records nothing and is a stuttering step.                               *)
(***************************************************************************)
EXTENDS Integers, Sequences, FiniteSets

CONSTANTS
    Requests,     \* request keys: a command kind and a request id
    Procs,        \* claim owners: process, host session, start time
    Tokens,       \* scope tokens, for example `anchor` or `phase/3`
    Digests,      \* digests of a command's arguments
    Outcomes,     \* what a command may answer
    None,         \* no request
    LeaseExpiry,  \* LEASE_EXPIRY_SECONDS
    MaxTime,      \* bound on the clock
    MaxEvents     \* bound on the length of the log

ASSUME RequestAssumption == None \notin Requests
ASSUME ExpiryAssumption == LeaseExpiry \in Nat \ {0}
ASSUME BoundAssumption == MaxTime \in Nat /\ MaxEvents \in Nat

VARIABLES
    events,      \* the event table: the project's log
    request,     \* the `request` view: a document per request
    claimScope,  \* the `claim_scope` view: a holder per token
    lease,       \* the claim_lease table: a row per request
    now,         \* the real time
    answers      \* history: every outcome a caller was given

vars == <<events, request, claimScope, lease, now, answers>>

-----------------------------------------------------------------------------
(* Documents, rows and events *)

Time == 0..MaxTime
Seqs == Nat \ {0}

NoDoc == [state |-> "none"]
NoHolder == [req |-> None, seq |-> 0]
NoLease == [seq |-> 0, at |-> 0]

ClaimedDocs ==
    [state : {"claimed"}, seq : Seqs, at : Time, digest : Digests,
     scope : SUBSET Tokens, owner : Procs]
HeldDocs ==
    [state : {"awaiting_owner"}, seq : Seqs, at : Time, digest : Digests,
     scope : SUBSET Tokens, owner : Procs, held : Seqs]
CompletedDocs ==
    [state : {"completed"}, digest : Digests, outcome : Outcomes]
Docs == {NoDoc} \cup ClaimedDocs \cup HeldDocs \cup CompletedDocs

Holders == [req : Requests \cup {None}, seq : Nat]
Leases == [seq : Nat, at : Time]

ClaimedEvent(r, d, S, p, at) ==
    [type |-> "command.claimed", req |-> r, digest |-> d, scope |-> S,
     owner |-> p, at |-> at]
\* `by` is the request of the command that recorded the completion.
CompletedEvent(r, d, S, o, by) ==
    [type |-> "command.completed", req |-> r, digest |-> d, scope |-> S,
     outcome |-> o, by |-> by]
ReconciledEvent(r, n, res, actor) ==
    [type |-> "command.reconciled", req |-> r, claimSeq |-> n,
     resolution |-> res, actor |-> actor]
\* A fact a decision appends. `under` is the scope its command declared and
\* `within` the claim the scope check left out, kept for the properties.
DomainEvent(S, c) == [type |-> "domain", under |-> S, within |-> c]

Events ==
    [type : {"command.claimed"}, req : Requests, digest : Digests,
     scope : SUBSET Tokens, owner : Procs, at : Time]
    \cup [type : {"command.completed"}, req : Requests, digest : Digests,
          scope : SUBSET Tokens, outcome : Outcomes, by : Requests]
    \cup [type : {"command.reconciled"}, req : Requests, claimSeq : Seqs,
          resolution : {"resolved", "awaiting_owner"},
          actor : {"owner", "baley"}]
    \cup [type : {"domain"}, under : SUBSET Tokens,
          within : Requests \cup {None}]

Open(doc) == doc.state \in {"claimed", "awaiting_owner"}

-----------------------------------------------------------------------------
(* The projectors *)

\* RequestProjector: the view after event e at sequence n. A hold keeps the
\* claim's fields; a resolved reconciliation changes nothing by itself.
RequestApply(view, e, n) ==
    CASE e.type = "command.claimed" ->
            [view EXCEPT ![e.req] =
                [state |-> "claimed", seq |-> n, at |-> e.at,
                 digest |-> e.digest, scope |-> e.scope, owner |-> e.owner]]
      [] e.type = "command.reconciled" /\ e.resolution = "awaiting_owner" ->
            [view EXCEPT ![e.req] =
                [state |-> "awaiting_owner", seq |-> @.seq, at |-> @.at,
                 digest |-> @.digest, scope |-> @.scope, owner |-> @.owner,
                 held |-> n]]
      [] e.type = "command.completed" ->
            [view EXCEPT ![e.req] =
                [state |-> "completed", digest |-> e.digest,
                 outcome |-> e.outcome]]
      [] OTHER -> view

\* ClaimScopeProjector: a claim puts its tokens; a completion deletes those
\* of its tokens that still name its own request.
ScopeApply(view, e, n) ==
    CASE e.type = "command.claimed" ->
            [t \in Tokens |-> IF t \in e.scope
                              THEN [req |-> e.req, seq |-> n] ELSE view[t]]
      [] e.type = "command.completed" ->
            [t \in Tokens |-> IF t \in e.scope /\ view[t].req = e.req
                              THEN NoHolder ELSE view[t]]
      [] OTHER -> view

-----------------------------------------------------------------------------
(* One command's work inside its write transaction *)

Work == [events |-> events, request |-> request, claimScope |-> claimScope]

\* Mutant: the projectors see the head's sequence, not the event's own.
PushAtHead(w, e) ==
    [events |-> Append(w.events, e),
     request |-> RequestApply(w.request, e, Len(w.events)),
     claimScope |-> ScopeApply(w.claimScope, e, Len(w.events))]

\* Work::push: place an event after the head and run the projectors on it.
Push(w, e) ==
    LET n == Len(w.events) + 1
    IN [events |-> Append(w.events, e),
        request |-> RequestApply(w.request, e, n),
        claimScope |-> ScopeApply(w.claimScope, e, n)]

\* The facts a decision appends before the store's own events.
Decided(w, facts, S, c) == IF facts THEN Push(w, DomainEvent(S, c)) ELSE w

\* Work::write: the events, the staged documents and the head, at once.
Write(w) ==
    /\ Len(w.events) <= MaxEvents
    /\ events' = w.events
    /\ request' = w.request
    /\ claimScope' = w.claimScope

Answer(r, d, o) ==
    answers' = answers \cup {[req |-> r, digest |-> d, outcome |-> o]}

-----------------------------------------------------------------------------
(* The checks of command_turn *)

\* lease_state over the row claim_from_doc accepts: one naming this claim.
LeaseActive(r, at) ==
    /\ lease[r].seq = request[r].seq
    /\ at < lease[r].at + LeaseExpiry

ClaimState(r, at) ==
    IF request[r].state = "awaiting_owner" THEN "awaiting_owner"
    ELSE IF LeaseActive(r, at) THEN "active" ELSE "interrupted"

\* A claim_scope row names an open claim that holds the token.
RowValid(t) ==
    LET row == claimScope[t] IN
    /\ row.req \in Requests
    /\ Open(request[row.req])
    /\ request[row.req].seq = row.seq
    /\ t \in request[row.req].scope

\* Mutant: a claim held for the owner no longer blocks its tokens.
UnblockedByHeld(S, excluded) ==
    \A t \in S : claimScope[t] # NoHolder =>
        \/ request[claimScope[t].req].state = "awaiting_owner"
        \/ RowValid(t) /\ claimScope[t].req = excluded

\* check_scope: every held token belongs to the excluded claim. An expired
\* claim still blocks, and a row that names no holder fails the command.
Unblocked(S, excluded) ==
    \A t \in S : claimScope[t] # NoHolder =>
        RowValid(t) /\ claimScope[t].req = excluded

-----------------------------------------------------------------------------
Init ==
    /\ events = <<>>
    /\ request = [r \in Requests |-> NoDoc]
    /\ claimScope = [t \in Tokens |-> NoHolder]
    /\ lease = [r \in Requests |-> NoLease]
    /\ now = 0
    /\ answers = {}

\* Mutant: a replay does not compare the digest.
ReplayAnyDigest(r, d) ==
    /\ request[r].state = "completed"
    /\ Answer(r, d, request[r].outcome)
    /\ UNCHANGED <<events, request, claimScope, lease, now>>

\* A command on a completed request answers what was recorded, if the digest
\* agrees. Every entry of the path replays the same way.
Replay(r, d) ==
    /\ request[r].state = "completed"
    /\ request[r].digest = d
    /\ Answer(r, d, request[r].outcome)
    /\ UNCHANGED <<events, request, claimScope, lease, now>>

\* transact: a decision's facts and its completion, which holds no token.
Transact(r, d, S, facts, o) ==
    /\ request[r] = NoDoc
    /\ Unblocked(S, None)
    /\ Write(Push(Decided(Work, facts, S, None),
                  CompletedEvent(r, d, {}, o, r)))
    /\ Answer(r, d, o)
    /\ UNCHANGED <<lease, now>>

\* Mutant: an open claim is taken again instead of answered as in progress.
ClaimAgain(r, d, S, p, facts, at) ==
    /\ request[r].state # "completed"
    /\ Unblocked(S, r)
    /\ LET w == Push(Decided(Work, facts, S, r), ClaimedEvent(r, d, S, p, at))
       IN /\ Write(w)
          /\ lease' = [lease EXCEPT ![r] = [seq |-> Len(w.events), at |-> at]]
    /\ UNCHANGED <<now, answers>>

\* claim, when the decision takes it: what the decision appended, the event
\* and the lease row, which names the event's sequence.
Claim(r, d, S, p, facts, at) ==
    /\ request[r] = NoDoc
    /\ Unblocked(S, None)
    /\ LET w == Push(Decided(Work, facts, S, None),
                     ClaimedEvent(r, d, S, p, at))
       IN /\ Write(w)
          /\ lease' = [lease EXCEPT ![r] = [seq |-> Len(w.events), at |-> at]]
    /\ UNCHANGED <<now, answers>>

\* claim, when the decision refuses: an ordinary completion, no lease.
RefuseClaim(r, d, S, facts, o) ==
    /\ request[r] = NoDoc
    /\ Unblocked(S, None)
    /\ Write(Push(Decided(Work, facts, S, None),
                  CompletedEvent(r, d, {}, o, r)))
    /\ Answer(r, d, o)
    /\ UNCHANGED <<lease, now>>

\* The lowest time a renewal may carry: the claim's matching row, or the time
\* of the claim when the row is lost.
LeaseFloor(r) ==
    IF lease[r].seq = request[r].seq THEN lease[r].at ELSE request[r].at

\* renew_lease: by the owner of a claim that is neither held nor closed, at a
\* time no earlier than the floor.
RenewLease(r, p, at) ==
    /\ request[r].state = "claimed"
    /\ request[r].owner = p
    /\ at >= LeaseFloor(r)
    /\ lease' = [lease EXCEPT ![r] = [seq |-> request[r].seq, at |-> at]]
    /\ UNCHANGED <<events, request, claimScope, now, answers>>

\* Mutant: a claim's completion is recorded like an ordinary one, scopeless.
CompleteScopeless(r, d, S, p, facts, o) ==
    /\ request[r].state = "claimed"
    /\ request[r].digest = d
    /\ request[r].owner = p
    /\ request[r].scope = S
    /\ Unblocked(S, r)
    /\ Write(Push(Decided(Work, facts, S, r), CompletedEvent(r, d, {}, o, r)))
    /\ lease' = [lease EXCEPT ![r] = NoLease]
    /\ Answer(r, d, o)
    /\ UNCHANGED now

\* complete: the acting owner's result, even when its lease expired.
Complete(r, d, S, p, facts, o) ==
    /\ request[r].state = "claimed"
    /\ request[r].digest = d
    /\ request[r].owner = p
    /\ request[r].scope = S
    /\ Unblocked(S, r)
    /\ Write(Push(Decided(Work, facts, S, r), CompletedEvent(r, d, S, o, r)))
    /\ lease' = [lease EXCEPT ![r] = NoLease]
    /\ Answer(r, d, o)
    /\ UNCHANGED now

\* Mutant: a held claim is reconciled under any authority.
MayReconcileHeld(c, authority, actor, at) ==
    /\ authority = "owner" => actor = "owner"
    /\ Open(request[c])
    /\ ClaimState(c, at) # "active"

\* Mutant: a claim is reconciled whatever its lease says.
MayReconcileActive(c, authority, actor, at) ==
    /\ authority = "owner" => actor = "owner"
    /\ Open(request[c])
    /\ ClaimState(c, at) = "awaiting_owner" => authority = "owner"

\* Who may reconcile claim c at this time: never an active one, and a held
\* one only under the owner's authority, which only the owner can use.
MayReconcile(c, authority, actor, at) ==
    /\ authority = "owner" => actor = "owner"
    /\ Open(request[c])
    /\ ClaimState(c, at) # "active"
    /\ ClaimState(c, at) = "awaiting_owner" => authority = "owner"

\* reconcile, resolved: request q records the finding and completes claim c
\* with the claim's own digest and scope, then completes itself.
Resolve(q, d, S, c, authority, actor, at, facts, o, oq) ==
    /\ request[q] = NoDoc
    /\ Unblocked(S, c)
    /\ MayReconcile(c, authority, actor, at)
    /\ LET doc == request[c]
           w1 == Decided(Work, facts, S, c)
           w2 == Push(w1, ReconciledEvent(c, doc.seq, "resolved", actor))
           w3 == Push(w2, CompletedEvent(c, doc.digest, doc.scope, o, q))
           w4 == Push(w3, CompletedEvent(q, d, {}, oq, q))
       IN Write(w4)
    /\ lease' = [lease EXCEPT ![c] = NoLease]
    /\ Answer(q, d, oq)
    /\ UNCHANGED now

\* reconcile, ambiguous: the claim stays open and waits for the owner.
Hold(q, d, S, c, authority, actor, at, facts, oq) ==
    /\ request[q] = NoDoc
    /\ Unblocked(S, c)
    /\ MayReconcile(c, authority, actor, at)
    /\ LET w1 == Decided(Work, facts, S, c)
           w2 == Push(w1, ReconciledEvent(c, request[c].seq,
                                          "awaiting_owner", actor))
           w3 == Push(w2, CompletedEvent(q, d, {}, oq, q))
       IN Write(w3)
    /\ Answer(q, d, oq)
    /\ UNCHANGED <<lease, now>>

\* Work goes on in an exported copy, which carries no claim_lease rows.
UseExport ==
    /\ lease' = [r \in Requests |-> NoLease]
    /\ UNCHANGED <<events, request, claimScope, now, answers>>

Tick ==
    /\ now < MaxTime
    /\ now' = now + 1
    /\ UNCHANGED <<events, request, claimScope, lease, answers>>

ClaimCommand(r, d, S) ==
    \E facts \in BOOLEAN :
        \/ \E p \in Procs, at \in 0..now : Claim(r, d, S, p, facts, at)
        \/ \E o \in Outcomes : RefuseClaim(r, d, S, facts, o)

ReconcileCommand(q, d, S) ==
    \E c \in Requests, authority \in {"automatic", "owner"},
       actor \in {"owner", "baley"}, at \in 0..now, facts \in BOOLEAN,
       oq \in Outcomes :
        \/ \E o \in Outcomes :
              Resolve(q, d, S, c, authority, actor, at, facts, o, oq)
        \/ Hold(q, d, S, c, authority, actor, at, facts, oq)

Next ==
    \/ \E r \in Requests, d \in Digests :
        \/ Replay(r, d)
        \/ \E S \in SUBSET Tokens :
            \/ \E facts \in BOOLEAN, o \in Outcomes : Transact(r, d, S, facts, o)
            \/ ClaimCommand(r, d, S)
            \/ \E p \in Procs, facts \in BOOLEAN, o \in Outcomes :
                  Complete(r, d, S, p, facts, o)
            \/ ReconcileCommand(r, d, S)
    \/ \E r \in Requests, p \in Procs, at \in 0..now : RenewLease(r, p, at)
    \/ UseExport
    \/ Tick

Spec == Init /\ [][Next]_vars

-----------------------------------------------------------------------------
(* Properties *)

\* The documents, rows, events and answers have their shapes, and nothing is
\* dated in the future.
TypeOK ==
    /\ events \in Seq(Events)
    /\ request \in [Requests -> Docs]
    /\ claimScope \in [Tokens -> Holders]
    /\ lease \in [Requests -> Leases]
    /\ now \in Time
    /\ answers \subseteq [req : Requests, digest : Digests, outcome : Outcomes]

\* A token is held by exactly the open claim whose scope contains it: two
\* open claims never share a token, a closed claim leaves none behind, and
\* check_scope never meets a row that "names a claim that does not hold it".
ScopeAgrees ==
    /\ \A t \in Tokens : claimScope[t] # NoHolder => RowValid(t)
    /\ \A r \in Requests : Open(request[r]) =>
        \A t \in request[r].scope :
            claimScope[t] = [req |-> r, seq |-> request[r].seq]

\* The request document is what the log says: an open document names its own
\* command.claimed event, and a completed one the digest and the outcome of a
\* command.completed event of its request.
RequestAgrees ==
    \A r \in Requests :
        /\ Open(request[r]) =>
            /\ request[r].seq \in DOMAIN events
            /\ LET e == events[request[r].seq]
               IN /\ e.type = "command.claimed"
                  /\ e.req = r
                  /\ e.scope = request[r].scope
                  /\ e.owner = request[r].owner
                  /\ e.digest = request[r].digest
        /\ request[r].state = "completed" =>
            \E i \in DOMAIN events :
                /\ events[i].type = "command.completed"
                /\ events[i].req = r
                /\ events[i].digest = request[r].digest
                /\ events[i].outcome = request[r].outcome

\* What `request` promises its readers: documents of the right shape that say
\* what the log says, whatever claims, holds and retries have come between.
RequestsInv == TypeOK /\ RequestAgrees

Of(i, type, r) == events[i].type = type /\ events[i].req = r

\* A request is claimed at most once and completed at most once, nothing of a
\* request follows its completion, and a reconciliation follows the claim it
\* names: the effect behind a claim is never started or concluded twice.
OneLifeInLog ==
    \A i, j \in DOMAIN events : i < j =>
        \A r \in Requests :
            /\ ~ (Of(i, "command.completed", r)
                  /\ events[j].type # "domain" /\ events[j].req = r)
            /\ ~ (Of(j, "command.claimed", r)
                  /\ events[i].type # "domain" /\ events[i].req = r)

\* While a claim is open, no command that declared one of its tokens records
\* a fact, except the claim's own completion and its reconciliation.
NoFactUnderForeignClaim ==
    \A i, j \in DOMAIN events :
        /\ i < j
        /\ events[i].type = "command.claimed"
        /\ events[j].type = "domain"
        /\ events[j].under \cap events[i].scope # {}
        /\ events[j].within # events[i].req
        => \E k \in i..j : Of(k, "command.completed", events[i].req)

\* Once a claim is held for the owner, only the owner's reconciliation says
\* anything more of it, and its completion comes from that reconciliation.
HeldUntilOwner ==
    \A i, j \in DOMAIN events :
        /\ i < j
        /\ events[i].type = "command.reconciled"
        /\ events[i].resolution = "awaiting_owner"
        /\ events[j].type # "domain"
        /\ events[j].req = events[i].req
        => \/ events[j].type = "command.reconciled" /\ events[j].actor = "owner"
           \/ /\ events[j].type = "command.completed"
              /\ events[j].by # events[j].req
              /\ Of(j - 1, "command.reconciled", events[j].req)

\* Every caller that was answered for a request was told the same outcome for
\* the same arguments, and it is the one in the log.
AnswersAgree ==
    \A a \in answers :
        /\ request[a.req].state = "completed"
        /\ request[a.req].digest = a.digest
        /\ request[a.req].outcome = a.outcome

\* A claim whose lease is live by the real clock is closed or held by nobody
\* but its owner's own completion.
ActiveClaimUndisturbed ==
    [][\A r \in Requests :
        /\ request[r].state = "claimed"
        /\ lease[r].seq = request[r].seq
        /\ now < lease[r].at + LeaseExpiry
        /\ request'[r] # request[r]
        => /\ request'[r].state = "completed"
           /\ events'[Len(events')].by = r]_vars
=============================================================================

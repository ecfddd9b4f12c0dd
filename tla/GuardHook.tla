----------------------------- MODULE GuardHook -----------------------------
(***************************************************************************)
(* `baley guard`: one process per delivery of a host's tool call           *)
(* (baley guard_hook/ and baley-core guard/).  The process looks for the   *)
(* answer recorded under the call's id, observes the branch and the        *)
(* settings of a commit, judges, records the answer in one transaction of  *)
(* the `user` project and writes it.  The host may deliver a call more     *)
(* than once and may reuse a call id for another call; deliveries run at   *)
(* the same time, the settings change under them, the store may be busy    *)
(* (see WriterQueue) and the host kills a process that is too slow.        *)
(*                                                                         *)
(* An answer is its outcome.  Its reason is left out, and with it git's    *)
(* stderr, which a live answer quotes and the record does not.  A call's   *)
(* input stands for its digest, project directory and cwd together.        *)
(***************************************************************************)
EXTENDS Integers, Sequences, FiniteSets

CONSTANTS
    Deliveries,   \* hook processes
    Calls,        \* keys of the guard view: host, session and call id
    CallOf,       \* the call id of each delivery, None without one
    Inputs,       \* what the guard reads of a call
    InputOf,      \* the input of each delivery
    Tool,         \* what each input asks for: "commit", "asked" or "path"
    Checkouts,    \* keys of the guard_policy view
    CheckoutOf,   \* the checkout each input's commit reaches
    Branches,
    Policies,     \* complete guard settings
    None,
    MaxChanges    \* bound on the changes of the settings files

ASSUME DeliveriesAssumption ==
    /\ None \notin Calls
    /\ CallOf \in [Deliveries -> Calls \cup {None}]
    /\ InputOf \in [Deliveries -> Inputs]
    /\ Tool \in [Inputs -> {"commit", "asked", "path"}]
    /\ CheckoutOf \in [Inputs -> Checkouts]
ASSUME PoliciesAssumption ==
    Policies \subseteq [on : {"refuse", "ask", "allow"}, hard : BOOLEAN,
                        protected : SUBSET Branches]
ASSUME BoundAssumption == MaxChanges \in Nat

Torn == [on |-> "torn"]
Settings == Policies \cup {Torn}
NoSettings == [on |-> "absent"]     \* no settings were read

VARIABLES
    files,    \* what the settings files would give a reader now
    changes,  \* how often they changed
    log,      \* the events of stream `guard` in `user`
    guard,    \* the `guard` view
    policy,   \* the `guard_policy` view
    proc      \* each delivery's process

ledger == <<log, guard, policy>>
vars == <<files, changes, ledger, proc>>

-----------------------------------------------------------------------------
(* Observations, answers, events *)

Outcomes == {"ask", "deny", "pass_on_failure"}
Observations == [how : {"read", "fallback"}, name : Branches]
                \cup {[how |-> "unreadable", name |-> None]}
NoBranch == [how |-> "none", name |-> None]
NoDoc == [input |-> None, outcome |-> "none"]
Denials == [refuse : BOOLEAN, hard : BOOLEAN, protected : SUBSET Branches]
NoDenials == [refuse |-> FALSE, hard |-> FALSE, protected |-> {}]

Answered(d, outcome, s, b) ==
    [type |-> "guard.answered", call |-> CallOf[d], input |-> InputOf[d],
     outcome |-> outcome, settings |-> s, branch |-> b]
PolicyRecorded(k, parts) ==
    [type |-> "guard.policy_recorded", checkout |-> k, parts |-> parts]

\* denial_parts: what a complete policy leaves behind for torn settings.
DenialParts(s) ==
    [refuse |-> s.on = "refuse", hard |-> s.hard,
     protected |-> IF s.on = "refuse" \/ s.hard THEN s.protected ELSE {}]

CompleteCommit(s, b) ==
    CASE b.how = "read" /\ b.name \in s.protected ->
            [refuse |-> "deny", ask |-> "ask", allow |-> "pass"][s.on]
      [] b.how = "read" /\ b.name \notin s.protected -> "pass"
      [] b.how = "fallback" /\ s.hard /\ b.name \in s.protected -> "deny"
      [] OTHER -> "pass_on_failure"

\* torn_commit with the denials remembered, or none.
TornCommit(parts, b) ==
    IF \/ b.how = "read" /\ parts.refuse /\ b.name \in parts.protected
       \/ b.how = "fallback" /\ parts.hard /\ b.name \in parts.protected
    THEN "deny" ELSE "ask"

\* commit_push_answer for a commit in a bound project.
CommitAnswer(s, parts, b) ==
    IF s = Torn THEN TornCommit(parts, b) ELSE CompleteCommit(s, b)

\* record_answer: an ask that is not recorded becomes a deny.
RecordAnswer(answer, recorded) ==
    IF answer = "ask" /\ ~ recorded THEN "deny" ELSE answer

\* Mutant: a call id is enough to know the call again.
RedeliveryById(doc, input) ==
    IF doc = NoDoc THEN "no_record" ELSE "replay"

\* redelivery: what a delivery gets from the document under its call id.
Redelivery(doc, input) ==
    CASE doc = NoDoc -> "no_record"
      [] doc # NoDoc /\ doc.input = input -> "replay"
      [] OTHER -> "clash"

-----------------------------------------------------------------------------
Idle == [pc |-> "idle", failed |-> FALSE, branch |-> NoBranch,
         settings |-> NoSettings, answer |-> "none", recorded |-> FALSE]

Init ==
    /\ files \in Settings
    /\ changes = 0
    /\ log = <<>>
    /\ guard = [c \in Calls |-> NoDoc]
    /\ policy = [k \in Checkouts |-> NoDenials]
    /\ proc = [d \in Deliveries |-> Idle]

\* The owner edits a settings file, or a reader would find it torn.
ChangeSettings(s) ==
    /\ changes < MaxChanges
    /\ s # files
    /\ files' = s
    /\ changes' = changes + 1
    /\ UNCHANGED <<ledger, proc>>

Doc(d) == guard[CallOf[d]]

\* Process d goes on with its record p.
Becomes(d, p) == proc' = [proc EXCEPT ![d] = p]
At(d, p) == proc[d].pc = p

\* The process has its final answer and writes it next.
Settle(d, answer, recorded) ==
    Becomes(d, [proc[d] EXCEPT !.pc = "answer",
                               !.answer = RecordAnswer(answer, recorded),
                               !.recorded = recorded])

\* decide::next once everything is gathered: a plain pass is written as it
\* is, any other answer is recorded first.
Judged(d, p, answer) ==
    Becomes(d, [p EXCEPT !.pc = IF answer = "pass" THEN "answer" ELSE "record",
                         !.answer = answer])

\* The call is in no bound project: a command passes.
Unbound(d) ==
    /\ At(d, "idle")
    /\ Tool[InputOf[d]] # "path"
    /\ Judged(d, proc[d], "pass")
    /\ UNCHANGED <<files, changes, ledger>>

\* A path call is judged at once, with no lookup.
JudgePath(d, answer) ==
    /\ At(d, "idle")
    /\ Tool[InputOf[d]] = "path"
    /\ Judged(d, proc[d], answer)
    /\ UNCHANGED <<files, changes, ledger>>

\* After the lookup a commit reads its branch; a push, a commit whose target
\* is not established and a PowerShell call ask.
LookedUp(d, failed) ==
    LET p == [proc[d] EXCEPT !.failed = failed] IN
    IF Tool[InputOf[d]] = "commit"
    THEN Becomes(d, [p EXCEPT !.pc = "branch"])
    ELSE Judged(d, p, "ask")

\* record::lookup on a store open of its own. Without a call id, on a store
\* failure and after a clash the decision will not be recorded.
Lookup(d) ==
    /\ At(d, "idle")
    /\ Tool[InputOf[d]] # "path"
    /\ \/ LookedUp(d, TRUE)
       \/ /\ CallOf[d] # None
          /\ CASE Redelivery(Doc(d), InputOf[d]) = "no_record" ->
                     LookedUp(d, FALSE)
               [] Redelivery(Doc(d), InputOf[d]) = "replay" ->
                     Settle(d, Doc(d).outcome, TRUE)
               [] Redelivery(Doc(d), InputOf[d]) = "clash" ->
                     LookedUp(d, TRUE)
    /\ UNCHANGED <<files, changes, ledger>>

\* branch::git_branch and symbolic_head.
ReadBranch(d, b) ==
    /\ At(d, "branch")
    /\ Becomes(d, [proc[d] EXCEPT !.pc = "policy", !.branch = b])
    /\ UNCHANGED <<files, changes, ledger>>

\* policy::gather and settings. The commit is judged without what is
\* remembered, which only the transaction reads.
ReadPolicy(d) ==
    /\ At(d, "policy")
    /\ Judged(d, [proc[d] EXCEPT !.settings = files],
              CommitAnswer(files, NoDenials, proc[d].branch))
    /\ UNCHANGED <<files, changes, ledger>>

-----------------------------------------------------------------------------
(* record::record *)

\* Mutant: a policy without a denial is nothing to remember.
DenialsChangedOnly(stored, parts) == parts.refuse \/ parts.hard

DenialsChanged(stored, parts) == stored # parts

\* decide: the answer under torn settings is judged again with what is
\* remembered; a complete policy's denials are appended when they changed.
Decide(d) ==
    LET p == proc[d]
        k == CheckoutOf[InputOf[d]]
    IN  CASE p.settings = Torn ->
                [answer |-> TornCommit(policy[k], p.branch), before |-> <<>>]
          [] p.settings \in Policies
             /\ DenialsChanged(policy[k], DenialParts(p.settings)) ->
                [answer |-> p.answer,
                 before |-> <<PolicyRecorded(k, DenialParts(p.settings))>>]
          [] OTHER -> [answer |-> p.answer, before |-> <<>>]

\* GuardProjector and GuardPolicyProjector: the latest event for a key
\* replaces its document.
Projected(evs) ==
    /\ guard' = [c \in Calls |->
          IF \E e \in evs : e.type = "guard.answered" /\ e.call = c
          THEN LET e == CHOOSE x \in evs : x.type = "guard.answered"
               IN [input |-> e.input, outcome |-> e.outcome]
          ELSE guard[c]]
    /\ policy' = [k \in Checkouts |->
          IF \E e \in evs : e.type = "guard.policy_recorded" /\ e.checkout = k
          THEN (CHOOSE x \in evs : x.type = "guard.policy_recorded").parts
          ELSE policy[k]]

\* The transaction when nothing is recorded under the call id.
AppendAnswer(d) ==
    LET r == Decide(d)
        e == Answered(d, r.answer, proc[d].settings, proc[d].branch)
    IN  /\ log' = log \o Append(r.before, e)
        /\ Projected({e} \cup {r.before[i] : i \in DOMAIN r.before})
        /\ Settle(d, r.answer, TRUE)

\* Mutant: the transaction appends whatever another process recorded since.
TransactUnread(d) == AppendAnswer(d)

\* The guard document is read inside the transaction: a replay gives what is
\* recorded, a clash what the call was judged to on its own.
Transact(d) ==
    CASE Redelivery(Doc(d), InputOf[d]) = "no_record" -> AppendAnswer(d)
      [] Redelivery(Doc(d), InputOf[d]) = "replay" ->
            Settle(d, Doc(d).outcome, TRUE) /\ UNCHANGED ledger
      [] Redelivery(Doc(d), InputOf[d]) = "clash" ->
            Settle(d, proc[d].answer, FALSE) /\ UNCHANGED ledger

\* The audit transaction, or the failure that makes the decision one that
\* cannot be recorded: an earlier one, no call id, a store that is busy or
\* broken, or an error after the answer was staged.
Record(d) ==
    /\ At(d, "record")
    /\ \/ ~ proc[d].failed /\ CallOf[d] # None /\ Transact(d)
       \/ Settle(d, proc[d].answer, FALSE) /\ UNCHANGED ledger
    /\ UNCHANGED <<files, changes>>

\* The answer reaches the host.
Write(d) ==
    /\ At(d, "answer")
    /\ Becomes(d, [proc[d] EXCEPT !.pc = "done"])
    /\ UNCHANGED <<files, changes, ledger>>

\* The host's timeout ends the process before it answered.
Kill(d) ==
    /\ proc[d].pc \notin {"idle", "done", "killed"}
    /\ Becomes(d, [proc[d] EXCEPT !.pc = "killed"])
    /\ UNCHANGED <<files, changes, ledger>>

Run(d) ==
    \/ Unbound(d) \/ Lookup(d) \/ ReadPolicy(d) \/ Record(d) \/ Write(d)
    \/ \E a \in {"pass", "deny"} : JudgePath(d, a)
    \/ \E b \in Observations : ReadBranch(d, b)

Next ==
    \/ \E s \in Settings : ChangeSettings(s)
    \/ \E d \in Deliveries : Run(d) \/ Kill(d)

Spec == Init /\ [][Next]_vars

-----------------------------------------------------------------------------
(* Properties *)

TypeOK ==
    /\ files \in Settings
    /\ changes \in 0..MaxChanges
    /\ guard \in [Calls -> {NoDoc} \cup [input : Inputs, outcome : Outcomes]]
    /\ policy \in [Checkouts -> Denials]
    /\ proc \in [Deliveries ->
          [pc : {"idle", "branch", "policy", "record", "answer", "done",
                 "killed"},
           failed : BOOLEAN, branch : Observations \cup {NoBranch},
           settings : Settings \cup {NoSettings},
           answer : Outcomes \cup {"none", "pass"}, recorded : BOOLEAN]]

AnsweredAt(n) == log[n].type = "guard.answered"

\* GRD-R9, "one call id never has two records": however many deliveries of
\* however many calls share an id, the log answers it once.
OneRecord ==
    \A m, n \in DOMAIN log :
        AnsweredAt(m) /\ AnsweredAt(n) /\ log[m].call = log[n].call => m = n

\* What the `user` project keeps of the guard.
RecordsInv == TypeOK /\ OneRecord

\* GRD-R9 and GRD-R10: an ask the host was given, and any answer given as
\* recorded, is the answer the log holds for this very call.
RepliesAudited ==
    \A d \in Deliveries :
        /\ proc[d].pc = "done"
        /\ proc[d].recorded \/ proc[d].answer = "ask"
        => \E n \in DOMAIN log :
              /\ AnsweredAt(n)
              /\ log[n].call = CallOf[d]
              /\ log[n].input = InputOf[d]
              /\ log[n].outcome = proc[d].answer

\* GRD-R7: a commit recorded under torn settings gets the denial the latest
\* complete policy recorded for its checkout would give, and asks otherwise.
TornKeepsDenials ==
    \A n \in DOMAIN log :
        AnsweredAt(n) /\ log[n].settings = Torn =>
            LET k == CheckoutOf[log[n].input]
                Complete == {m \in 1..(n - 1) :
                                /\ AnsweredAt(m)
                                /\ log[m].settings \in Policies
                                /\ CheckoutOf[log[m].input] = k}
                last == CHOOSE m \in Complete : \A o \in Complete : o <= m
                b == log[n].branch
                s == log[last].settings
                denied == /\ Complete # {}
                          /\ b.name \in s.protected
                          /\ \/ b.how = "read" /\ s.on = "refuse"
                             \/ b.how = "fallback" /\ s.hard
            IN  log[n].outcome = IF denied THEN "deny" ELSE "ask"
=============================================================================

---------------------------- MODULE Preparation ----------------------------
(***************************************************************************)
(* How a project write is prepared (baley mcp/prepare.rs, checkout/,       *)
(* policy_step/): the replay lookup, the write's own check, the settings,  *)
(* checkout admission, the policy step and then the domain command, each a *)
(* transaction of its own, for callers in several checkouts of one         *)
(* project.  The command line runs the same steps without the lookup and   *)
(* the check, under a fresh request and no host.                           *)
(*                                                                         *)
(* A checkout is a path with the facts git gives for it, a root commit and *)
(* a remote URL.  The settings of a checkout are the layers that set the   *)
(* one setting a policy is about.  The views are computed from the log;    *)
(* that they agree is module Rebuild's.  Events that only record that a    *)
(* command completed are left out, except the domain command's.            *)
(***************************************************************************)
EXTENDS Integers, Sequences, FiniteSets

CONSTANTS
    Callers,     \* threads of the command line and of session servers
    Paths,       \* checkouts of the project
    Facts,       \* [root, url] records git may give for a checkout
    Settings,    \* functions from Layers to values a checkout may hold
    Requests,    \* request ids of served writes, all of one subject
    Host,        \* the session's host
    None,        \* no host, no URL, no value
    MaxLog,      \* bound on the events
    MaxEdits,    \* bound on the owner's edits of facts, settings and catalog
    Attempts     \* ATTEMPTS: tries in all

Layers == {"default", "global", "globalHost", "project", "projectHost"}

ASSUME AttemptsAssumption == Attempts \in Nat \ {0}
ASSUME SettingsAssumption == \A s \in Settings : DOMAIN s = Layers /\ s["default"] # None
ASSUME HostAssumption == Host # None
ASSUME BoundAssumption == {MaxLog, MaxEdits} \subseteq Nat

VARIABLES
    log,       \* the project's events
    facts,     \* what git says of each checkout
    settings,  \* what the settings files say for each checkout
    catalog,   \* the model catalog's version in `user`
    edits,     \* edits so far
    call       \* what each caller is doing

owner == <<facts, settings, catalog, edits>>
vars == <<log, owner, call>>

Idle == [at |-> "idle"]

-----------------------------------------------------------------------------
(* The views *)

Last(S) == IF S = {} THEN 0 ELSE CHOOSE n \in S : \A m \in S : m <= n

SeenIn(events, path) ==
    Last({n \in DOMAIN events : events[n].type = "seen" /\ events[n].path = path})

\* The policy document of a checkout and host: its version, 0 for none.
PolicyIn(events, path, host) ==
    Last({n \in DOMAIN events :
            events[n].type = "policy" /\ events[n].path = path /\ events[n].host = host})

Done(request) == {n \in DOMAIN log : log[n].type = "done" /\ log[n].request = request}

\* Whether the subject of the served writes was written.
Taken == \E r \in Requests : Done(r) # {}

-----------------------------------------------------------------------------
(* Pure decisions *)

\* judge_checkout's conflict: the row of another path holds another URL.
Conflict(path, url) ==
    /\ url # None
    /\ \E other \in Paths \ {path} :
          /\ SeenIn(log, other) # 0
          /\ log[SeenIn(log, other)].facts.url \notin {None, url}

\* judge_checkout.
JudgeCheckout(path, f) ==
    CASE Conflict(path, f.url) -> "conflict"
      [] ~Conflict(path, f.url) /\ SeenIn(log, path) # 0
            /\ log[SeenIn(log, path)].facts = f -> "unchanged"
      [] OTHER -> "record"

\* merge: each layer overrides the one below, a host's section only for it.
Merge(s, host) ==
    LET Order == <<"default", "global", "globalHost", "project", "projectHost">>
        Applies(n) == /\ s[Order[n]] # None
                      /\ Order[n] \in {"globalHost", "projectHost"} => host # None
    IN  s[Order[CHOOSE n \in 1..5 : Applies(n) /\ \A m \in (n + 1)..5 : ~Applies(m)]]

\* judge_policy: the version in force, 0 when the payload must be recorded.  The
\* value stands for the values, sources and diagnostics it compares.
JudgePolicy(path, host, value, version) ==
    LET v == PolicyIn(log, path, host)
    IN  IF v # 0 /\ log[v].value = value /\ log[v].catalog = version THEN v ELSE 0

-----------------------------------------------------------------------------
(* Calls.  A call's record grows with what it has observed. *)

\* A call goes to `at` with what it observed `more`.
Grown(r, at, more) ==
    [k \in {"at"} \cup DOMAIN more \cup DOMAIN r |->
        CASE k = "at" -> at
          [] k # "at" /\ k \in DOMAIN more -> more[k]
          [] OTHER -> r[k]]

Goto(c, at, more) == call' = [call EXCEPT ![c] = Grown(@, at, more)]
End(c, answer) == call' = [call EXCEPT ![c] =
    [at |-> "ended", answer |-> answer, request |-> @.request, checked |-> @.checked]]

\* A served write of a session in `path`, or a command of the command line.
Start(c, path, host, request) ==
    /\ call[c] = Idle
    /\ host = None <=> request = None
    /\ call' = [call EXCEPT ![c] =
          [at |-> IF host = None THEN "gather" ELSE "lookup", path |-> path, host |-> host,
           request |-> request, checked |-> 0, attempt |-> 1]]
    /\ UNCHANGED <<log, owner>>

\* A request the ledger holds goes to its transaction with version 0.
LookUp(c) ==
    /\ call[c].at = "lookup"
    /\ IF Done(call[c].request) # {} THEN Goto(c, "command", [version |-> 0])
                                     ELSE Goto(c, "check", <<>>)
    /\ UNCHANGED <<log, owner>>

\* Mutant: a refusing check ends the call at once.
CheckEnds(c) ==
    /\ call[c].at = "check"
    /\ IF Taken THEN call' = [call EXCEPT ![c] =
                        [at |-> "ended", answer |-> "refused", request |-> @.request,
                         checked |-> Len(log)]]
                ELSE Goto(c, "gather", <<>>)
    /\ UNCHANGED <<log, owner>>

\* The write's own check, before anything records.
Check(c) ==
    /\ call[c].at = "check"
    /\ IF Taken THEN Goto(c, "relook", [checked |-> Len(log)])
                ELSE Goto(c, "gather", <<>>)
    /\ UNCHANGED <<log, owner>>

\* The request is looked up again before the refusal is answered.
Relook(c) ==
    /\ call[c].at = "relook"
    /\ IF Done(call[c].request) # {} THEN Goto(c, "command", [version |-> 0])
                                     ELSE End(c, "refused")
    /\ UNCHANGED <<log, owner>>

\* The settings are judged and the checkout's facts gathered by git.
Gather(c) ==
    /\ call[c].at = "gather"
    /\ Goto(c, "admit", [value |-> Merge(settings[call[c].path], call[c].host),
                         facts |-> facts[call[c].path]])
    /\ UNCHANGED <<log, owner>>

\* A stale refusal recorded nothing: read and decide afresh, ATTEMPTS in all.
Again(c, at) ==
    IF call[c].attempt < Attempts THEN Goto(c, at, [attempt |-> call[c].attempt + 1])
                                  ELSE End(c, "failed")

-----------------------------------------------------------------------------
(* Checkout admission (admit.rs) *)

\* admit_once, its reads: an unchanged checkout opens no command.
AdmitRead(c) ==
    /\ call[c].at = "admit"
    /\ IF JudgeCheckout(call[c].path, call[c].facts) = "unchanged"
       THEN Goto(c, "step", [attempt |-> 1])
       ELSE Goto(c, "admitting", [observed |-> PolicyIn(log, call[c].path, None),
                                  verdict |-> JudgeCheckout(call[c].path, call[c].facts)])
    /\ UNCHANGED <<log, owner>>

\* Mutant: the verdict of the read outside is used inside.
VerdictRead(c) == call[c].verdict

\* The judgement made again inside the transaction.
Verdict(c) == JudgeCheckout(call[c].path, call[c].facts)

\* admit_once, its transaction.  A fork leaves the decision as an error.
Admit(c) ==
    /\ call[c].at = "admitting"
    /\ \/ /\ Verdict(c) = "conflict"
          /\ End(c, "fork")
          /\ UNCHANGED log
       \/ /\ Verdict(c) # "conflict"
          /\ PolicyIn(log, call[c].path, None) # call[c].observed
          /\ Again(c, "admit")
          /\ UNCHANGED log
       \/ /\ Verdict(c) # "conflict" /\ Len(log) < MaxLog
          /\ PolicyIn(log, call[c].path, None) = call[c].observed
          /\ log' = IF Verdict(c) = "unchanged" THEN log
                    ELSE Append(log, [type |-> "seen", path |-> call[c].path,
                                      facts |-> call[c].facts])
          /\ Goto(c, "step", [attempt |-> 1])
    /\ UNCHANGED owner

-----------------------------------------------------------------------------
(* The policy step (policy_step/) *)

\* observe_catalog_version, once, outside any transaction.
StepCatalog(c) ==
    /\ call[c].at = "step"
    /\ Goto(c, "policy", [catalog |-> catalog])
    /\ UNCHANGED <<log, owner>>

\* Mutant: the command line's record stands for the host's.
InForceHostless(c) == JudgePolicy(call[c].path, None, call[c].value, call[c].catalog)

InForce(c) == JudgePolicy(call[c].path, call[c].host, call[c].value, call[c].catalog)

\* record_once, its read: a match opens no command.
PolicyRead(c) ==
    /\ call[c].at = "policy"
    /\ IF InForce(c) # 0 THEN Goto(c, "command", [version |-> InForce(c)])
       ELSE Goto(c, "recording", [observed |-> PolicyIn(log, call[c].path, call[c].host)])
    /\ UNCHANGED <<log, owner>>

\* The store's recheck: another record of the key landed since it was read.
Moved(c) == PolicyIn(log, call[c].path, call[c].host) # call[c].observed

\* record_once, its transaction.
Record(c) ==
    /\ call[c].at = "recording"
    /\ \/ /\ Moved(c) /\ Again(c, "policy")
          /\ UNCHANGED log
       \/ /\ ~Moved(c) /\ Len(log) < MaxLog
          /\ log' = Append(log, [type |-> "policy", path |-> call[c].path, host |-> call[c].host,
                                 value |-> call[c].value, catalog |-> call[c].catalog,
                                 replaces |-> call[c].observed])
          /\ Goto(c, "command", [version |-> Len(log) + 1])
    /\ UNCHANGED owner

-----------------------------------------------------------------------------
(* The domain command *)

\* Its transaction replays a recorded request, judges a served one again and
\* records it with the version the step returned.
Command(c) ==
    /\ call[c].at = "command"
    /\ \/ /\ call[c].request # None /\ Done(call[c].request) # {}
          /\ End(c, "done") /\ UNCHANGED log
       \/ /\ call[c].request # None /\ Done(call[c].request) = {} /\ Taken
          /\ End(c, "late") /\ UNCHANGED log
       \/ /\ call[c].request # None => ~Taken
          /\ Len(log) < MaxLog
          /\ log' = Append(log, [type |-> "done", request |-> call[c].request,
                                 path |-> call[c].path, host |-> call[c].host,
                                 version |-> call[c].version, value |-> call[c].value])
          /\ End(c, "done")
    /\ UNCHANGED owner

\* The store is busy or fails, or the process stops: no later step is run and
\* what was recorded stands.
Fail(c) ==
    /\ call[c].at \notin {"idle", "ended"}
    /\ End(c, "failed")
    /\ UNCHANGED <<log, owner>>

\* The caller goes on to its next call, a retry of the request included.
Return(c) ==
    /\ call[c].at = "ended"
    /\ call' = [call EXCEPT ![c] = Idle]
    /\ UNCHANGED <<log, owner>>

-----------------------------------------------------------------------------
(* What happens outside *)

Edit == edits < MaxEdits /\ edits' = edits + 1 /\ UNCHANGED <<log, call>>

EditFacts(path, f) ==
    /\ Edit /\ facts' = [facts EXCEPT ![path] = f]
    /\ UNCHANGED <<settings, catalog>>

EditSettings(path, s) ==
    /\ Edit /\ settings' = [settings EXCEPT ![path] = s]
    /\ UNCHANGED <<facts, catalog>>

EditCatalog ==
    /\ Edit /\ catalog' = catalog + 1
    /\ UNCHANGED <<facts, settings>>

Init ==
    /\ log = <<>> /\ catalog = 0 /\ edits = 0
    /\ facts \in [Paths -> Facts]
    /\ settings \in [Paths -> Settings]
    /\ call = [c \in Callers |-> Idle]

Next ==
    \/ \E c \in Callers :
         \/ \E path \in Paths, host \in {Host, None}, r \in Requests \cup {None} :
              Start(c, path, host, r)
         \/ LookUp(c) \/ Check(c) \/ Relook(c) \/ Gather(c)
         \/ AdmitRead(c) \/ Admit(c)
         \/ StepCatalog(c) \/ PolicyRead(c) \/ Record(c)
         \/ Command(c) \/ Fail(c) \/ Return(c)
    \/ \E path \in Paths : \/ \E f \in Facts : EditFacts(path, f)
                           \/ \E s \in Settings : EditSettings(path, s)
    \/ EditCatalog

Spec == Init /\ [][Next]_vars

-----------------------------------------------------------------------------
Values == {s[k] : s \in Settings, k \in Layers} \ {None}
Event ==
    [type : {"seen"}, path : Paths, facts : Facts]
    \cup [type : {"policy"}, path : Paths, host : {Host, None}, value : Values,
          catalog : 0..MaxEdits, replaces : 0..MaxLog]
    \cup [type : {"done"}, request : Requests \cup {None}, path : Paths, host : {Host, None},
          version : 1..MaxLog, value : Values]

TypeOK ==
    /\ Len(log) <= MaxLog /\ \A n \in DOMAIN log : log[n] \in Event
    /\ facts \in [Paths -> Facts] /\ settings \in [Paths -> Settings]
    /\ \A c \in Callers : "attempt" \in DOMAIN call[c] => call[c].attempt \in 1..Attempts

\* Two checkouts of one project never hold different remotes, also when both
\* were admitted at once or changed their remote (admit.rs admit_once).
OneRemote ==
    \A p, q \in Paths :
       SeenIn(log, p) # 0 /\ SeenIn(log, q) # 0 =>
          LET u == log[SeenIn(log, p)].facts.url
              w == log[SeenIn(log, q)].facts.url
          IN  None \in {u, w} \/ u = w

\* checkout.seen records a change: a crash after it, a retry or another caller
\* of the same checkout does not record it again.
SeenChanges ==
    \A n \in DOMAIN log : log[n].type = "seen" =>
       LET before == SeenIn(SubSeq(log, 1, n - 1), log[n].path)
       IN  before = 0 \/ log[before].facts # log[n].facts

\* The policy records of a checkout and host form a chain: each names the one
\* it replaces and differs from it (policy_step/record.rs).
PolicyChain ==
    \A n \in DOMAIN log : log[n].type = "policy" =>
       LET before == PolicyIn(SubSeq(log, 1, n - 1), log[n].path, log[n].host)
       IN  /\ log[n].replaces = before
           /\ before = 0 \/ <<log[before].value, log[before].catalog>>
                              # <<log[n].value, log[n].catalog>>

\* What the checkout and policy views are computed from.
LogInv == TypeOK /\ OneRemote /\ SeenChanges /\ PolicyChain

\* A command is recorded with a policy version that names a record of its own
\* checkout and host holding the policy its settings gave, and after its
\* checkout was admitted, whatever other callers recorded meanwhile.
RunsUnderItsPolicy ==
    \A n \in DOMAIN log : log[n].type = "done" =>
       LET v == log[n].version
       IN  /\ v < n /\ log[v].type = "policy"
           /\ <<log[v].path, log[v].host, log[v].value>>
                = <<log[n].path, log[n].host, log[n].value>>
           /\ \E m \in 1..(v - 1) : log[m].type = "seen" /\ log[m].path = log[n].path

\* The retry of a request that was recorded before its check ran is answered
\* from the record, never refused because of what its original wrote.
RetryReplayed ==
    \A c \in Callers :
       call[c].at = "ended" /\ call[c].answer = "refused" =>
          \A n \in Done(call[c].request) : n > call[c].checked
=============================================================================

----------------------------- MODULE Refinement -----------------------------
(***************************************************************************)
(* Refining one story (baley refine/, questions/, work_order/ and the      *)
(* parts of mcp/ that serve them): the analyzer's questions orders and     *)
(* drafting orders, the question sets they return, the owner's answers,    *)
(* the truth drafts and their approval.                                    *)
(*                                                                         *)
(* Every call first checks: it reads documents outside any transaction and *)
(* judges.  Then, perhaps much later, it records in one transaction that   *)
(* observes the documents it read (`recheck`) and some facts that must     *)
(* still be absent.  A document is observed by the sequence that produced  *)
(* it; sequences only grow, so an observed document moved exactly when a   *)
(* transaction wrote it since, which `stale` remembers.  A check's reads   *)
(* are one step: all of them are observed, so a check torn by a write is   *)
(* refused like a stale one.  The approval reads its approvals last and    *)
(* unobserved, and a new order's inputs are read after the check, so both  *)
(* are steps of their own.                                                 *)
(*                                                                         *)
(* Left out: replays of a request the store holds (Claims), the policy     *)
(* step before a write, and dispatch-active, which no build records yet.   *)
(* A digest stands for what it hashes: the set and the truths.             *)
(***************************************************************************)
EXTENDS Questions, WorkOrders, Truths

CONSTANTS
    Callers,     \* sessions and terminals, each with one call at a time
    Shapes,      \* the question sets an analyzer returns, as dependencies
    TruthLists,  \* the truth lists an analyzer drafts
    MaxOrders,   \* bound on the orders issued
    MaxSets,     \* bound on the sets opened
    MaxDrafts,   \* bound on the truth submissions recorded
    Ops          \* the calls made: every one, or those a run is about

ASSUME BoundAssumption == {MaxOrders, MaxSets, MaxDrafts} \subseteq Nat
ASSUME ListsAssumption ==
    \A l \in TruthLists : DOMAIN l \subseteq TruthIds /\ NoText \notin {l[i] : i \in DOMAIN l}

VARIABLES
    orders,   \* the story's analyzer orders, the `work_order` view
    sets,     \* its question sets, the `questions` view
    entry,    \* its `backlog` entry: dropped, latest set, set refined from
    log,      \* its scope.submitted and story.refined events
    truths,   \* the `truths` document
    call      \* what each caller's call has read

vars == <<orders, sets, entry, log, truths, call>>

NoSet == 0
None == <<>>
Idle == [op |-> "none"]

-----------------------------------------------------------------------------
(* Documents, and the recheck of what a call observed *)

\* A document by view and key, one a story has only one of with key 0.
Roadmap == <<"roadmap", 0>>
Backlog == <<"backlog", 0>>
TruthsDoc == <<"truths", 0>>
DraftDoc == <<"draft", 0>>
RetentionDoc == <<"retention", 0>>    \* the version of stream `retention`
OrderDoc(o) == <<"order", o>>
SetDoc(s) == <<"set", s>>
LatestDoc == IF entry.latest = NoSet THEN {} ELSE {SetDoc(entry.latest)}

\* A check leaves what it read: op names the call, obs are the documents it
\* observed, and the rest is the call's own.
Begin(c, record) == call' = [call EXCEPT ![c] = record]

\* Mutant: the recording trusts its check.
RecheckNothing(c) == TRUE

\* recheck: every observed document is at the sequence that was read.
Recheck(c) == ~call[c].stale

\* The call of c commits, writing the documents of `written`.
Commit(c, written) ==
    call' = [d \in Callers |->
                IF d = c THEN Idle
                ELSE IF call[d] # Idle /\ call[d].obs \cap written # {}
                THEN [call[d] EXCEPT !.stale = TRUE]
                ELSE call[d]]

\* analyzer_absences: no pending analyzer order of the story.
NonePending == Pending(orders) = {}

\* pending_analyzer_order: the newest pending one.
PendingAnalyzer == CHOOSE o \in Pending(orders) : \A p \in Pending(orders) : p <= o

\* A refusal at any point, a failed recheck, or a process that stops.
EndCall(c) ==
    /\ call[c] # Idle
    /\ call' = [call EXCEPT ![c] = Idle]
    /\ UNCHANGED <<orders, sets, entry, log, truths>>

-----------------------------------------------------------------------------
(* The refinement state (truth/state.rs) *)

State ==
    IF entry.latest = NoSet THEN "unrefined"
    ELSE IF IsOpen(sets[entry.latest]) THEN "asking"
    ELSE IF entry.refined = entry.latest THEN "refined" ELSE "drafting"

LatestOpen == State = "asking"

-----------------------------------------------------------------------------
(* Preparing an order: its inputs are read after admission and observed *)

Issues(c) == "issues" \in DOMAIN call[c] /\ call[c].issues

Prepare(c) ==
    /\ call[c] # Idle /\ Issues(c) /\ ~call[c].prepared
    /\ call' = [call EXCEPT ![c].obs = @ \cup {Roadmap, TruthsDoc},
                            ![c].prepared = TRUE]
    /\ UNCHANGED <<orders, sets, entry, log, truths>>

Ready(c) == Issues(c) => call[c].prepared

-----------------------------------------------------------------------------
(* story-refine (refine/order.rs) *)

RefineCheck(c) ==
    /\ call[c] = Idle
    /\ ~entry.dropped /\ NonePending /\ ~LatestOpen
    /\ LET drafting == State = "drafting"
       IN  Begin(c, [op |-> "refine", obs |-> {Roadmap, Backlog} \cup LatestDoc,
                     stale |-> FALSE, issues |-> TRUE, prepared |-> FALSE,
                     kind |-> IF drafting THEN "drafting" ELSE "questions",
                     set |-> IF drafting THEN entry.latest ELSE NoSet])
    /\ UNCHANGED <<orders, sets, entry, log, truths>>

RefineRecord(c) ==
    /\ call[c].op = "refine" /\ Ready(c) /\ Recheck(c) /\ NonePending
    /\ Len(orders) < MaxOrders
    /\ orders' = Issued(orders, call[c].kind, call[c].set, NoOrder)
    /\ Commit(c, {OrderDoc(Len(orders) + 1)})
    /\ UNCHANGED <<sets, entry, log, truths>>

-----------------------------------------------------------------------------
(* story-questions-submit (refine/questions.rs): a set naming the questions *)
(* order it answers, in whatever state that order is                        *)

\* An empty set drafts at once, unless another analyzer order is pending.
Drafts(o, deps) == DOMAIN deps = {} /\ Pending(orders) \subseteq {o}

QuestionsCheck(c, o, deps) ==
    /\ call[c] = Idle
    /\ JudgeSet(deps)
    /\ ~entry.dropped /\ orders[o].kind = "questions" /\ ~LatestOpen
    /\ LET drafting == Drafts(o, deps)
           pending == orders[o].state = "pending"
       IN  Begin(c, [op |-> "questions",
                     obs |-> {Roadmap, Backlog} \cup LatestDoc
                                \cup (IF drafting /\ pending THEN {OrderDoc(o)} ELSE {}),
                     stale |-> FALSE, issues |-> drafting, prepared |-> FALSE, order |-> o,
                     pending |-> pending, deps |-> deps, latest |-> entry.latest])
    /\ UNCHANGED <<orders, sets, entry, log, truths>>

\* The latest set abandoned, the new one opened and its order answered, and
\* with an empty set the drafting order issued.
QuestionsRecord(c) ==
    LET new == Len(sets) + 1
        o == call[c].order
        answered == Answered(orders, o, SetDoc(new))
    IN  /\ call[c].op = "questions" /\ Ready(c) /\ Recheck(c)
        /\ call[c].issues /\ ~call[c].pending => NonePending
        /\ call[c].latest # NoSet => ~sets[call[c].latest].abandoned
        /\ call[c].issues => Len(orders) < MaxOrders
        /\ Len(sets) < MaxSets
        /\ sets' = Append([s \in DOMAIN sets |->
                              IF s = call[c].latest
                              THEN [sets[s] EXCEPT !.abandoned = TRUE] ELSE sets[s]],
                          OpenedSet(call[c].deps))
        /\ entry' = [entry EXCEPT !.latest = new]
        /\ orders' = IF call[c].issues
                     THEN Issued(answered, "drafting", new, NoOrder) ELSE answered
        /\ Commit(c, {Backlog, SetDoc(new), SetDoc(call[c].latest), OrderDoc(o)}
                     \cup (IF call[c].issues THEN {OrderDoc(Len(orders) + 1)} ELSE {}))
        /\ UNCHANGED <<log, truths>>

-----------------------------------------------------------------------------
(* questions-answer over MCP and `baley questions answer` at the terminal *)

\* Over MCP a call that closes the set issues the drafting order, or is held
\* by the pending order it then observes.
AnswerCheck(c, via, s, items) ==
    /\ call[c] = Idle
    /\ JudgeAnswers(sets[s], items)
    /\ LET due == via = "mcp" /\ Closes(sets[s], items)
           held == due /\ ~NonePending
       IN  Begin(c, [op |-> "answer",
                     obs |-> {SetDoc(s)}
                                \cup (IF held THEN {OrderDoc(PendingAnalyzer)} ELSE {}),
                     stale |-> FALSE, issues |-> due /\ ~held, prepared |-> FALSE,
                     set |-> s, items |-> items, round |-> RoundNumber(sets[s]), due |-> due])
    /\ UNCHANGED <<orders, sets, entry, log, truths>>

AnswerRecord(c) ==
    LET s == call[c].set
    IN  /\ call[c].op = "answer" /\ Ready(c) /\ Recheck(c)
        /\ DOMAIN call[c].items \subseteq OpenQuestions(sets[s])
        /\ call[c].issues => NonePending /\ Len(orders) < MaxOrders
        /\ sets' = [sets EXCEPT ![s] = Settle(@, call[c].items, call[c].round)]
        /\ orders' = IF call[c].issues
                     THEN Issued(orders, "drafting", s, NoOrder) ELSE orders
        /\ Commit(c, {SetDoc(s)}
                     \cup (IF call[c].issues THEN {OrderDoc(Len(orders) + 1)} ELSE {}))
        /\ UNCHANGED <<entry, log, truths>>

-----------------------------------------------------------------------------
(* story-truths-submit (refine/submit.rs): a draft from the latest set,     *)
(* naming a drafting order in whatever state and of whatever set            *)

Digest(s, list) == <<"truths", s, list>>

TruthsCheck(c, s, o, list) ==
    /\ call[c] = Idle
    /\ ~entry.dropped /\ s = entry.latest /\ orders[o].kind = "drafting"
    /\ Begin(c, [op |-> "truths", obs |-> {Backlog, TruthsDoc}, stale |-> FALSE,
                 order |-> o, digest |-> Digest(s, list)])
    /\ UNCHANGED <<orders, sets, entry, log, truths>>

\* A scope.submitted makes the draft's document, at this event's sequence,
\* and the draft view's newest is the one submitted last.
Submissions == {n \in DOMAIN log : log[n].type = "submitted"}
SubmissionsOf(d) == {n \in Submissions : log[n].digest = d}
Last(S) == CHOOSE n \in S : \A m \in S : m <= n
Digests == {log[n].digest : n \in Submissions}
Newest == IF Submissions = {} THEN None ELSE log[Last(Submissions)].digest

TruthsRecord(c) ==
    LET d == call[c].digest
    IN  /\ call[c].op = "truths" /\ Recheck(c)
        /\ Cardinality(Submissions) < MaxDrafts
        /\ log' = Append(log, [type |-> "submitted", digest |-> d])
        /\ orders' = Answered(orders, call[c].order, d)
        /\ Commit(c, {DraftDoc, OrderDoc(call[c].order)})
        /\ UNCHANGED <<sets, entry, truths>>

-----------------------------------------------------------------------------
(* story-truths-approve (refine/approve.rs, truth/approval.rs) *)

Approvals(d) == {n \in DOMAIN log : log[n].type = "refined" /\ log[n].digest = d}

\* What the first step observes.  Every submission of the story moves
\* DraftDoc: the second step confirms the draft and the newest one.
ApprovalDocs == {DraftDoc, Roadmap, Backlog, TruthsDoc} \cup LatestDoc

\* The documents are read and judged, and the versions worked out...
ApproveRead(c, d) ==
    /\ call[c] = Idle
    /\ d = Newest
    /\ ~entry.dropped /\ d[2] = entry.latest /\ ~LatestOpen
    /\ Begin(c, [op |-> "approve", obs |-> ApprovalDocs, stale |-> FALSE,
                 digest |-> d, seq |-> Last(SubmissionsOf(d)),
                 given |-> Versions(truths, d[3]), judged |-> FALSE, before |-> FALSE])
    /\ UNCHANGED <<orders, sets, entry, log, truths>>

\* ... then the approvals of the digest, last: one after the submission that
\* was read refuses.
ApproveJudge(c) ==
    /\ call[c].op = "approve" /\ ~call[c].judged
    /\ \A n \in Approvals(call[c].digest) : n < call[c].seq
    /\ call' = [call EXCEPT ![c].judged = TRUE,
                            ![c].before = Approvals(call[c].digest) # {}]
    /\ UNCHANGED <<orders, sets, entry, log, truths>>

\* A transaction can ask only whether any approval names the digest.
ApproveRecord(c) ==
    LET d == call[c].digest
    IN  /\ call[c].op = "approve" /\ call[c].judged /\ Recheck(c)
        /\ call[c].before \/ Approvals(d) = {}
        /\ log' = Append(log, [type |-> "refined", digest |-> d, given |-> call[c].given])
        /\ truths' = Refined(call[c].given, truths)
        /\ entry' = [entry EXCEPT !.refined = d[2]]
        /\ Commit(c, {Roadmap, Backlog, TruthsDoc})
        /\ UNCHANGED <<orders, sets>>

-----------------------------------------------------------------------------
(* work-order-fail and work-order-retry (mcp/work_order.rs) *)

FailCheck(c, o) ==
    /\ call[c] = Idle /\ orders[o].state = "pending"
    /\ Begin(c, [op |-> "fail", obs |-> {OrderDoc(o)}, stale |-> FALSE, order |-> o])
    /\ UNCHANGED <<orders, sets, entry, log, truths>>

FailRecord(c) ==
    LET o == call[c].order
    IN  /\ call[c].op = "fail" /\ Recheck(c) /\ orders[o].state # "failed"
        /\ orders' = Failed(orders, o)
        /\ Commit(c, {OrderDoc(o)})
        /\ UNCHANGED <<sets, entry, log, truths>>

ChainDocs(o) == {OrderDoc(p) : p \in Earlier(orders, o) \cup {o}}

RetryCheck(c, o) ==
    /\ call[c] = Idle
    /\ JudgeRetry(orders, o) /\ NonePending /\ ~LatestOpen
    /\ Begin(c, [op |-> "retry", stale |-> FALSE, order |-> o,
                 obs |-> ChainDocs(o) \cup {Backlog, RetentionDoc} \cup LatestDoc])
    /\ UNCHANGED <<orders, sets, entry, log, truths>>

\* The new attempt carries its parent's kind and inputs, whatever set they name.
RetryRecord(c) ==
    LET o == call[c].order
    IN  /\ call[c].op = "retry" /\ Recheck(c) /\ NonePending
        /\ orders[o].child = NoOrder
        /\ Len(orders) < MaxOrders
        /\ orders' = Issued(orders, orders[o].kind, orders[o].set, o)
        /\ Commit(c, {OrderDoc(o), OrderDoc(Len(orders) + 1)})
        /\ UNCHANGED <<sets, entry, log, truths>>

-----------------------------------------------------------------------------
(* Other calls that move what these observe *)

\* A purge of an order's input (Retention) moves the retention stream.
PurgeInput(c, o) ==
    /\ call[c] = Idle /\ ~orders[o].released
    /\ orders' = Released(orders, o)
    /\ Commit(c, {RetentionDoc})
    /\ UNCHANGED <<sets, entry, log, truths>>

\* story.dropped, from an approved scope change.
DropStory(c) ==
    /\ call[c] = Idle /\ ~entry.dropped
    /\ entry' = [entry EXCEPT !.dropped = TRUE]
    /\ Commit(c, {Roadmap, Backlog})
    /\ UNCHANGED <<orders, sets, log, truths>>

-----------------------------------------------------------------------------

Init ==
    /\ orders = <<>> /\ sets = <<>>
    /\ entry = [dropped |-> FALSE, latest |-> NoSet, refined |-> NoSet]
    /\ log = <<>>
    /\ truths = NoTruths
    /\ call = [c \in Callers |-> Idle]

\* The items of an answer call to set s.
Items(s) == UNION {[Q -> {"answered", "deferred"}] : Q \in SUBSET OpenQuestions(sets[s])}

Refine(c) == "refine" \in Ops /\ (RefineCheck(c) \/ RefineRecord(c))
SubmitQuestions(c) ==
    /\ "questions" \in Ops
    /\ \/ \E o \in DOMAIN orders, deps \in Shapes : QuestionsCheck(c, o, deps)
       \/ QuestionsRecord(c)
Answer(c) ==
    /\ "answer" \in Ops
    /\ \/ \E via \in {"mcp", "terminal"}, s \in DOMAIN sets : \E items \in Items(s) :
               AnswerCheck(c, via, s, items)
       \/ AnswerRecord(c)
SubmitTruths(c) ==
    /\ "truths" \in Ops
    /\ \/ \E s \in DOMAIN sets, o \in DOMAIN orders, list \in TruthLists :
               TruthsCheck(c, s, o, list)
       \/ TruthsRecord(c)
Approve(c) ==
    /\ "approve" \in Ops
    /\ \/ \E d \in Digests : ApproveRead(c, d)
       \/ ApproveJudge(c) \/ ApproveRecord(c)
Fail(c) == "fail" \in Ops /\ ((\E o \in DOMAIN orders : FailCheck(c, o)) \/ FailRecord(c))
Retry(c) == "retry" \in Ops /\ ((\E o \in DOMAIN orders : RetryCheck(c, o)) \/ RetryRecord(c))
Purge(c) == "purge" \in Ops /\ \E o \in DOMAIN orders : PurgeInput(c, o)
Drop(c) == "drop" \in Ops /\ DropStory(c)

Next == \E c \in Callers :
            \/ Refine(c) \/ SubmitQuestions(c) \/ Answer(c) \/ SubmitTruths(c)
            \/ Approve(c) \/ Fail(c) \/ Retry(c) \/ Purge(c) \/ Drop(c)
            \/ Prepare(c) \/ EndCall(c)

Spec == Init /\ [][Next]_vars

-----------------------------------------------------------------------------
(* Properties *)

\* Documents of the shapes the projectors make; references stay in range.
TypeOK ==
    /\ orders \in Seq([kind : {"questions", "drafting"}, set : 0..Len(sets),
                       parent : 0..Len(orders), child : 0..Len(orders),
                       state : {"pending", "answered", "failed"},
                       returns : SUBSET ({SetDoc(s) : s \in DOMAIN sets} \cup Digests),
                       released : BOOLEAN])
    /\ entry \in [dropped : BOOLEAN, latest : {Len(sets)}, refined : 0..Len(sets)]
    /\ \A c \in Callers : call[c] # Idle => call[c].stale \in BOOLEAN

\* D-09, "a story has one live analyzer order": however refine, retry, an
\* empty set and a closing answer race, at most one is pending.
OneLiveOrder == \A o, p \in Pending(orders) : o = p

\* PLN-R25: a later set abandons the one before it, so exactly the latest
\* set is live, and never while one of its questions is open.
OnlyClosedAbandoned ==
    \A s \in DOMAIN sets :
        /\ sets[s].abandoned <=> s # entry.latest
        /\ sets[s].abandoned => OpenQuestions(sets[s]) = {}

\* An answer rests on answers of earlier rounds: none was given in the round
\* that answers a question it depends on, nor on a deferred one.
AnsweredInOrder ==
    \A s \in DOMAIN sets : \A q \in AnsweredQuestions(sets[s]) : \A p \in sets[s].deps[q] :
        /\ p \in AnsweredQuestions(sets[s])
        /\ sets[s].settled[p].round < sets[s].settled[q].round

\* A drafting order's `questions` input names a set the owner has decided:
\* the analyzer never drafts from a set with an open question.
DraftingDecided ==
    \A o \in DOMAIN orders :
        orders[o].kind = "drafting" =>
            /\ orders[o].set \in DOMAIN sets
            /\ OpenQuestions(sets[orders[o].set]) = {}

\* D-03: a truth id and version never come to name two texts, though drafts
\* are approved, replaced, left out and added again.
VersionsNameOneText ==
    LET Given == {log[n].given : n \in {m \in DOMAIN log : log[m].type = "refined"}}
    IN  \A g, h \in Given : \A i \in DOMAIN g \cap DOMAIN h :
            g[i].version = h[i].version => g[i].text = h[i].text

\* The calls of one round are one call: what a step settles carries a round
\* no question of the set had, and what is settled stays as it is.
RoundsOfOneCall ==
    [][\A s \in DOMAIN sets : \A q \in Asked(sets[s]) :
           IF q \in OpenQuestions(sets[s])
           THEN sets'[s].settled[q].how # "open" =>
                    sets'[s].settled[q].round = RoundNumber(sets[s])
           ELSE sets'[s].settled[q] = sets[s].settled[q]]_vars

\* A close over MCP leaves the session an order to follow: the drafting
\* order, or the pending order it was held by.
CloseLeavesOrder ==
    [][\A c \in Callers :
           call[c].op = "answer" /\ call[c].due /\ sets' # sets /\ call'[c] = Idle
               => Pending(orders') # {}]_vars

\* D-17: at the moment it is recorded, an approval is of the newest draft,
\* unapproved since its latest submission, drafted from the story's latest
\* set with no question open, and the story is not dropped.
RefinedFromLatest ==
    [][\A n \in DOMAIN log' \ DOMAIN log :
           log'[n].type = "refined" =>
               LET d == log'[n].digest
               IN  /\ d = Newest
                   /\ \A m \in Approvals(d) : m < Last(SubmissionsOf(d))
                   /\ d[2] = entry.latest /\ ~LatestOpen /\ ~entry.dropped]_vars

\* A retry never follows a return: when it is recorded no attempt of its
\* chain has one, its inputs are held and no question is open.
RetryExtendsUnanswered ==
    [][\A o \in DOMAIN orders :
           orders[o].child # orders'[o].child =>
               /\ \A p \in Earlier(orders, o) \cup {o} : orders[p].returns = {}
               /\ ~orders[o].released /\ ~LatestOpen]_vars

\* What a story's documents hold at any time.
StoryInv ==
    /\ TypeOK
    /\ OneLiveOrder
    /\ OnlyClosedAbandoned
    /\ AnsweredInOrder
    /\ DraftingDecided

\* What a call may never do to them.
StorySteps ==
    /\ RoundsOfOneCall
    /\ CloseLeavesOrder
    /\ RefinedFromLatest
    /\ RetryExtendsUnanswered

-----------------------------------------------------------------------------
(* The abstract specification *)

Story == INSTANCE StoryStates WITH
    QuestionSets <- {DOMAIN deps : deps \in Shapes},
    state <- State,
    open <- IF entry.latest = NoSet THEN {} ELSE OpenQuestions(sets[entry.latest]),
    given <- Cardinality({n \in DOMAIN log : log[n].type = "refined"})

\* However its calls interleave, the story goes through StoryStates: no call
\* replaces an open set, and no approval lands while it is asked.
ImplementsStory == Story!Spec

=============================================================================

-------------------------- MODULE RefinementProofs --------------------------
(***************************************************************************)
(* Proofs about refining a story, for any callers, question sets, truth    *)
(* lists, calls and bounds.                                                *)
(***************************************************************************)
EXTENDS Refinement, FiniteSetTheorems, TLAPS

-----------------------------------------------------------------------------
(* The inductive invariant *)

\* The sets of questions, the texts and the documents there can be.
Texts == UNION {{l[i] : i \in DOMAIN l} : l \in TruthLists}
Given == UNION {[D -> [text : Texts, version : Nat]] : D \in SUBSET TruthIds}
AnyDigest == {Digest(s, l) : s \in Nat, l \in TruthLists}
Returns == {SetDoc(s) : s \in Nat} \cup AnyDigest
OrderShape == [kind : {"questions", "drafting"}, set : Nat, parent : Nat, child : Nat,
               state : {"pending", "answered", "failed"}, returns : SUBSET Returns,
               released : BOOLEAN]
Settlement == [how : {"open", "answered", "deferred"}, round : Nat]
SetShape == UNION {[deps : {d}, settled : [DOMAIN d -> Settlement], abandoned : BOOLEAN] :
                       d \in Shapes}

\* Some number of S is its highest.
Topped(S) == S \subseteq Nat /\ \E top \in S : \A n \in S : n <= top

Rounds(set) == {0} \cup {set.settled[q].round : q \in Asked(set)}
InOrder(set) ==
    \A q \in AnsweredQuestions(set) : \A p \in set.deps[q] :
        p \in AnsweredQuestions(set) /\ set.settled[p].round < set.settled[q].round
SetOK(set) == JudgeSet(set.deps) /\ Topped(Rounds(set)) /\ InOrder(set)

\* A set of the story the owner has decided.
Decided(s) == s \in DOMAIN sets /\ OpenQuestions(sets[s]) = {}

OrderOK(order) ==
    /\ order.set \in 0..Len(sets) /\ order.parent \in 0..Len(orders)
    /\ order.child \in 0..Len(orders)
    /\ order.returns \subseteq {SetDoc(s) : s \in DOMAIN sets} \cup Digests
    /\ order.kind = "drafting" => Decided(order.set)

OrdersOK == orders \in Seq(OrderShape) /\ \A o \in DOMAIN orders : OrderOK(orders[o])
SetsOK == sets \in Seq(SetShape) /\ \A s \in DOMAIN sets : SetOK(sets[s])
EntryOK ==
    /\ entry \in [dropped : BOOLEAN, latest : Nat, refined : Nat]
    /\ entry.latest = Len(sets)
    /\ entry.refined # NoSet => Decided(entry.refined)

\* The events a story's drafts and approvals are.
Event == [type : {"submitted"}, digest : AnyDigest]
         \cup [type : {"refined"}, digest : AnyDigest, given : Given]
LogOK == log \in Seq(Event) /\ \A n \in DOMAIN log : log[n].digest[2] \in DOMAIN sets

\* What was approved is kept, and the current texts are those approved.
Consistent(g, h) ==
    \A i \in DOMAIN g \cap DOMAIN h : g[i].version = h[i].version => g[i].text = h[i].text
Approved == {log[n].given : n \in {m \in DOMAIN log : log[m].type = "refined"}}
TruthsOK ==
    /\ truths.truths \in Given /\ truths.kept \in [TruthIds -> SUBSET Nat]
    /\ \A i \in TruthIds : Topped({0} \cup truths.kept[i])
    /\ \A g \in Approved \cup {truths.truths} :
          \A i \in DOMAIN g : g[i].version \in truths.kept[i]
    /\ \A g, h \in Approved \cup {truths.truths} : Consistent(g, h)

\* What a call relies on, some of it as long as it is not stale.
Reads(r, op, fields) ==
    /\ {"op", "obs", "stale"} \cup fields \subseteq DOMAIN r
    /\ r.op = op /\ r.stale \in BOOLEAN

RefineCall(r) ==
    /\ Reads(r, "refine", {"kind", "set"})
    /\ r.kind \in {"questions", "drafting"} /\ r.set \in 0..Len(sets)
    /\ r.kind = "drafting" => Decided(r.set)

QuestionsCall(r) ==
    /\ Reads(r, "questions", {"issues", "pending", "deps", "order", "latest"})
    /\ r.issues \in BOOLEAN /\ r.pending \in BOOLEAN
    /\ r.deps \in Shapes /\ JudgeSet(r.deps) /\ r.order \in DOMAIN orders
    /\ r.issues => DOMAIN r.deps = {}
    /\ Backlog \in r.obs
    /\ r.issues /\ r.pending => OrderDoc(r.order) \in r.obs
    /\ ~r.stale =>
         /\ r.latest = entry.latest
         /\ r.latest # NoSet => Decided(r.latest)
         /\ r.issues /\ r.pending => orders[r.order].state = "pending"

AnswerCall(r) ==
    /\ Reads(r, "answer", {"issues", "due", "set", "items", "round"})
    /\ r.issues \in BOOLEAN /\ r.due \in BOOLEAN
    /\ r.set \in DOMAIN sets /\ SetDoc(r.set) \in r.obs
    /\ \A q \in DOMAIN r.items : r.items[q] \in {"answered", "deferred"}
    /\ r.issues => r.due
    /\ ~r.stale =>
         /\ JudgeAnswers(sets[r.set], r.items)
         /\ r.round = RoundNumber(sets[r.set])
         /\ r.due => Closes(sets[r.set], r.items)
    /\ r.due /\ ~r.issues =>
         \E o \in DOMAIN orders :
            OrderDoc(o) \in r.obs /\ (~r.stale => orders[o].state = "pending")

DraftCall(r) ==
    /\ Reads(r, "truths", {"order", "digest"})
    /\ r.order \in DOMAIN orders
    /\ r.digest \in AnyDigest /\ r.digest[2] \in DOMAIN sets

ApproveCall(r) ==
    /\ Reads(r, "approve", {"digest", "seq", "given", "judged", "before"})
    /\ r.judged \in BOOLEAN
    /\ r.digest \in AnyDigest /\ r.digest[2] \in DOMAIN sets
    /\ {DraftDoc, Backlog, TruthsDoc} \subseteq r.obs
    /\ ~r.stale =>
         /\ r.digest = Newest /\ r.seq = Last(SubmissionsOf(r.digest))
         /\ r.given = Versions(truths, r.digest[3])
         /\ r.digest[2] = entry.latest /\ Decided(entry.latest) /\ ~entry.dropped
         /\ r.judged => \A n \in Approvals(r.digest) : n < r.seq

FailCall(r) == Reads(r, "fail", {"order"}) /\ r.order \in DOMAIN orders

RetryCall(r) ==
    /\ Reads(r, "retry", {"order"}) /\ r.order \in DOMAIN orders
    /\ {RetentionDoc, Backlog} \subseteq r.obs
    /\ \A p \in Earlier(orders, r.order) \cup {r.order} : OrderDoc(p) \in r.obs
    /\ ~r.stale =>
         /\ \A p \in Earlier(orders, r.order) \cup {r.order} : orders[p].returns = {}
         /\ ~orders[r.order].released
         /\ entry.latest # NoSet => Decided(entry.latest)

CallOK(r) ==
    \/ r = Idle
    \/ RefineCall(r) \/ QuestionsCall(r) \/ AnswerCall(r) \/ DraftCall(r)
    \/ ApproveCall(r) \/ FailCall(r) \/ RetryCall(r)

IInv ==
    /\ OrdersOK /\ SetsOK /\ EntryOK /\ LogOK /\ TruthsOK
    /\ OneLiveOrder /\ OnlyClosedAbandoned
    /\ DOMAIN call = Callers /\ \A c \in Callers : CallOK(call[c])

-----------------------------------------------------------------------------
(* Question sets *)

\* The highest of a set that has one.
LEMMA TopIs ==
    ASSUME NEW S, Topped(S)
    PROVE  /\ (CHOOSE r \in S : \A s \in S : s <= r) \in Nat
           /\ \A s \in S : s <= (CHOOSE r \in S : \A t \in S : t <= r)
BY DEF Topped

\* round_of: the next round is above every one recorded.
LEMMA RoundAbove ==
    ASSUME NEW set, Topped(Rounds(set))
    PROVE  /\ RoundNumber(set) \in Nat \ {0}
           /\ \A q \in Asked(set) :
                set.settled[q].round \in Nat /\ set.settled[q].round < RoundNumber(set)
<1> DEFINE top == CHOOSE r \in Rounds(set) : \A s \in Rounds(set) : s <= r
<1>1. top \in Nat /\ (\A r \in Rounds(set) : r <= top) /\ Rounds(set) \subseteq Nat
  BY TopIs DEF Topped
<1>2. RoundNumber(set) = 1 + top
  BY DEF RoundNumber, Rounds
<1>3. \A q \in Asked(set) : set.settled[q].round \in Rounds(set)
  BY DEF Rounds
<1> HIDE DEF top
<1> QED BY <1>1, <1>2, <1>3

\* A set's fields.
LEMMA SetFields ==
    ASSUME NEW set \in SetShape
    PROVE  /\ set.deps \in Shapes /\ set.abandoned \in BOOLEAN
           /\ set.settled \in [DOMAIN set.deps -> Settlement]
           /\ Asked(set) = DOMAIN set.deps
           /\ set = [deps |-> set.deps, settled |-> set.settled, abandoned |-> set.abandoned]
<1>1. PICK d \in Shapes :
        set \in [deps : {d}, settled : [DOMAIN d -> Settlement], abandoned : BOOLEAN]
  BY DEF SetShape
<1> QED BY <1>1 DEF Asked

\* A new set is asked whole.
LEMMA OpenedOK ==
    ASSUME NEW deps \in Shapes, JudgeSet(deps)
    PROVE  /\ OpenedSet(deps) \in SetShape /\ SetOK(OpenedSet(deps))
           /\ OpenQuestions(OpenedSet(deps)) = DOMAIN deps
           /\ AnsweredQuestions(OpenedSet(deps)) = {}
           /\ OpenedSet(deps).abandoned = FALSE
<1>1. PICK set : set = OpenedSet(deps)
  OBVIOUS
<1>2. /\ set.deps = deps /\ set.abandoned = FALSE /\ DOMAIN set.settled = DOMAIN deps
      /\ \A q \in DOMAIN deps : set.settled[q] = NoOne
  BY <1>1 DEF OpenedSet
<1>3. NoOne \in Settlement /\ NoOne.how = "open" /\ NoOne.round = 0
  BY DEF NoOne, Settlement
<1>4. set \in SetShape
  <2>1. set \in [deps : {deps}, settled : [DOMAIN deps -> Settlement], abandoned : BOOLEAN]
    BY <1>1, <1>3 DEF OpenedSet
  <2> QED BY <2>1 DEF SetShape
<1>5. OpenQuestions(set) = DOMAIN deps /\ AnsweredQuestions(set) = {}
  BY <1>2, <1>3 DEF OpenQuestions, AnsweredQuestions, Asked
<1>6. Rounds(set) = {0}
  BY <1>2, <1>3 DEF Rounds, Asked
<1>7. Topped({0})
  BY DEF Topped
<1>8. SetOK(set)
  BY <1>2, <1>5, <1>6, <1>7 DEF SetOK, InOrder
<1> QED BY <1>1, <1>2, <1>4, <1>5, <1>8

\* judge_answers and what it lets through: the questions of one call are
\* settled, in a round of their own.
LEMMA SettleOK ==
    ASSUME NEW set \in SetShape, SetOK(set), NEW items, JudgeAnswers(set, items),
           \A q \in DOMAIN items : items[q] \in {"answered", "deferred"},
           NEW new, new = Settle(set, items, RoundNumber(set))
    PROVE  /\ new \in SetShape /\ SetOK(new)
           /\ new.abandoned = set.abandoned /\ Asked(new) = Asked(set)
           /\ OpenQuestions(new) = OpenQuestions(set) \ DOMAIN items
           /\ \A q \in Asked(set) :
                new.settled[q] = IF q \in DOMAIN items
                                 THEN [how |-> items[q], round |-> RoundNumber(set)]
                                 ELSE set.settled[q]
<1>1. PICK r : r = RoundNumber(set)
  OBVIOUS
<1>2. r \in Nat \ {0} /\ \A q \in Asked(set) :
        set.settled[q].round \in Nat /\ set.settled[q].round < r
  BY <1>1, RoundAbove DEF SetOK
<1>3. /\ new.deps = set.deps /\ new.abandoned = set.abandoned
      /\ new.settled = [q \in Asked(set) |-> IF q \in DOMAIN items
                                             THEN [how |-> items[q], round |-> r]
                                             ELSE set.settled[q]]
      /\ new = [deps |-> set.deps, settled |-> new.settled, abandoned |-> set.abandoned]
  BY <1>1, SetFields DEF Settle
<1>4. /\ Asked(new) = Asked(set)
      /\ \A q \in Asked(set) :
            /\ q \in DOMAIN items => /\ new.settled[q] = [how |-> items[q], round |-> r]
                                     /\ new.settled[q].how = items[q]
                                     /\ new.settled[q].round = r
            /\ q \notin DOMAIN items => new.settled[q] = set.settled[q]
  BY <1>3 DEF Asked
<1>5. \A q \in Asked(set) : new.settled[q] \in Settlement
  <2> SUFFICES ASSUME NEW q \in Asked(set) PROVE new.settled[q] \in Settlement
    OBVIOUS
  <2>1. CASE q \in DOMAIN items
    <3>1. [how |-> items[q], round |-> r] \in Settlement
      BY <1>2, <2>1 DEF Settlement
    <3> QED BY <1>4, <2>1, <3>1
  <2>2. CASE q \notin DOMAIN items
    BY <1>4, <2>2, SetFields
  <2> QED BY <2>1, <2>2
<1>6. new \in SetShape
  <2>1. new.settled \in [DOMAIN set.deps -> Settlement]
    BY <1>3, <1>4, <1>5, SetFields
  <2>2. new \in [deps : {set.deps}, settled : [DOMAIN set.deps -> Settlement],
                 abandoned : BOOLEAN]
    BY <1>3, <2>1, SetFields
  <2> QED BY <2>2, SetFields DEF SetShape
<1>7. DOMAIN items # {} /\ DOMAIN items \subseteq OpenQuestions(set)
      /\ DOMAIN items \subseteq Asked(set)
      /\ \A q \in DOMAIN items : items[q] = "answered" =>
            set.deps[q] \subseteq AnsweredQuestions(set)
  BY DEF JudgeAnswers, OpenQuestions, Current
<1>8. OpenQuestions(new) = OpenQuestions(set) \ DOMAIN items
  BY <1>4, <1>7 DEF OpenQuestions
<1>9. Topped(Rounds(new))
  <2>1. ASSUME NEW q \in Asked(new)
        PROVE  new.settled[q].round \in Nat /\ new.settled[q].round <= r
    <3>1. CASE q \in DOMAIN items
      <4>1. q \in Asked(set) /\ new.settled[q].round = r
        BY <1>4, <3>1
      <4> QED BY <1>2, <4>1
    <3>2. CASE q \notin DOMAIN items
      <4>1. q \in Asked(set) /\ new.settled[q] = set.settled[q]
        BY <1>4, <3>2
      <4>2. set.settled[q].round \in Nat /\ set.settled[q].round < r
        BY <1>2, <4>1
      <4> QED BY <1>2, <4>1, <4>2
    <3> QED BY <3>1, <3>2
  <2>2. \E q \in Asked(new) : new.settled[q].round = r
    BY <1>4, <1>7
  <2>3. Rounds(new) \subseteq Nat /\ r \in Rounds(new) /\ \A n \in Rounds(new) : n <= r
    BY <1>2, <2>1, <2>2 DEF Rounds
  <2> QED BY <2>3 DEF Topped
<1>10. InOrder(new)
  <2> SUFFICES ASSUME NEW q \in AnsweredQuestions(new), NEW p \in set.deps[q]
               PROVE  p \in AnsweredQuestions(new)
                      /\ new.settled[p].round < new.settled[q].round
    BY <1>3 DEF InOrder
  <2>1. q \in Asked(set) /\ new.settled[q].how = "answered"
    BY <1>4 DEF AnsweredQuestions
  <2>2. \A x \in AnsweredQuestions(set) :
          /\ x \in Asked(set) /\ x \notin DOMAIN items /\ set.settled[x].how = "answered"
          /\ new.settled[x] = set.settled[x] /\ x \in AnsweredQuestions(new)
    BY <1>4, <1>7 DEF AnsweredQuestions, OpenQuestions
  <2>3. CASE q \in DOMAIN items
    <3>1. p \in AnsweredQuestions(set)
      BY <1>4, <1>7, <2>1, <2>3
    <3> QED BY <1>2, <1>4, <2>1, <2>2, <2>3, <3>1
  <2>4. CASE q \notin DOMAIN items
    <3>1. q \in AnsweredQuestions(set)
      BY <1>4, <2>1, <2>4 DEF AnsweredQuestions
    <3>2. p \in AnsweredQuestions(set) /\ set.settled[p].round < set.settled[q].round
      BY <3>1 DEF SetOK, InOrder
    <3> QED BY <2>2, <3>1, <3>2
  <2> QED BY <2>3, <2>4
<1>11. SetOK(new)
  BY <1>3, <1>9, <1>10 DEF SetOK
<1> QED BY <1>1, <1>3, <1>4, <1>6, <1>8, <1>11

-----------------------------------------------------------------------------
(* Work orders *)

\* A document of an order keeps what it was issued with.
SameIssue(a, b) == a.kind = b.kind /\ a.set = b.set /\ a.parent = b.parent

\* work_order.issued: one pending order more, its parent's child.
OneMore(os, new, kind, set, parent) ==
    /\ new \in Seq(OrderShape) /\ Len(new) = Len(os) + 1
    /\ DOMAIN new = DOMAIN os \cup {Len(os) + 1} /\ Len(os) + 1 \notin DOMAIN os
    /\ new[Len(os) + 1] = IssuedOrder(kind, set, parent)
    /\ \A o \in DOMAIN os :
         /\ SameIssue(new[o], os[o]) /\ new[o].state = os[o].state
         /\ new[o].returns = os[o].returns /\ new[o].released = os[o].released
         /\ new[o].child = IF o = parent THEN Len(os) + 1 ELSE os[o].child

LEMMA IssuedOK ==
    ASSUME NEW os \in Seq(OrderShape), NEW kind \in {"questions", "drafting"},
           NEW set \in Nat, NEW parent \in Nat,
           NEW new, new = Issued(os, kind, set, parent)
    PROVE  OneMore(os, new, kind, set, parent)
<1>1. PICK n : n = Len(os) + 1
  OBVIOUS
<1>2. n \in Nat /\ Len(os) \in Nat /\ DOMAIN os = 1..Len(os)
  BY <1>1
<1>3. PICK e : e = IssuedOrder(kind, set, parent)
  OBVIOUS
<1>4. e \in OrderShape
  BY <1>3 DEF IssuedOrder, OrderShape, NoOrder
<1>5. PICK old : old = [o \in DOMAIN os |->
                          IF o = parent THEN [os[o] EXCEPT !.child = n] ELSE os[o]]
  OBVIOUS
<1>6. ASSUME NEW o \in DOMAIN os
      PROVE  /\ old[o] \in OrderShape
             /\ SameIssue(old[o], os[o]) /\ old[o].state = os[o].state
             /\ old[o].returns = os[o].returns /\ old[o].released = os[o].released
             /\ old[o].child = IF o = parent THEN n ELSE os[o].child
  <2>1. os[o] \in OrderShape
    BY <1>2
  <2>2. old[o] = IF o = parent THEN [os[o] EXCEPT !.child = n] ELSE os[o]
    BY <1>5
  <2> QED BY <1>2, <2>1, <2>2 DEF OrderShape, SameIssue
<1>7. old \in Seq(OrderShape) /\ Len(old) = Len(os) /\ DOMAIN old = DOMAIN os
  BY <1>2, <1>5, <1>6
<1>8. new = Append(old, e)
  BY <1>1, <1>3, <1>5 DEF Issued
<1>9. /\ new \in Seq(OrderShape) /\ Len(new) = n /\ new[n] = e
      /\ DOMAIN new = DOMAIN os \cup {n} /\ n \notin DOMAIN os
      /\ \A o \in DOMAIN os : new[o] = old[o]
  BY <1>1, <1>2, <1>4, <1>7, <1>8
<1> QED BY <1>1, <1>3, <1>6, <1>9 DEF OneMore

\* A change of one order that keeps its links: a return, a failure, a purge.
LEMMA ChangedOK ==
    ASSUME NEW os \in Seq(OrderShape), NEW o \in DOMAIN os, NEW e \in OrderShape,
           NEW new, new = [os EXCEPT ![o] = e]
    PROVE  /\ new \in Seq(OrderShape) /\ Len(new) = Len(os) /\ DOMAIN new = DOMAIN os
           /\ new[o] = e /\ \A p \in DOMAIN os \ {o} : new[p] = os[p]
OBVIOUS

LEMMA AnsweredOK ==
    ASSUME NEW os \in Seq(OrderShape), NEW o \in DOMAIN os, NEW return \in Returns,
           NEW new, new = Answered(os, o, return)
    PROVE  /\ new \in Seq(OrderShape) /\ Len(new) = Len(os) /\ DOMAIN new = DOMAIN os
           /\ SameIssue(new[o], os[o]) /\ new[o].child = os[o].child
           /\ new[o].released = os[o].released
           /\ new[o].returns = os[o].returns \cup {return}
           /\ new[o].state # "pending"
           /\ \A p \in DOMAIN os \ {o} : new[p] = os[p]
<1>1. os[o] \in OrderShape
  OBVIOUS
<1>2. PICK e : e = [os[o] EXCEPT !.returns = @ \cup {return},
                                 !.state = IF @ = "pending" THEN "answered" ELSE @]
  OBVIOUS
<1>3. /\ e \in OrderShape /\ SameIssue(e, os[o]) /\ e.child = os[o].child
      /\ e.released = os[o].released /\ e.returns = os[o].returns \cup {return}
      /\ e.state # "pending"
  BY <1>1, <1>2 DEF OrderShape, SameIssue
<1>4. new = [os EXCEPT ![o] = e]
  BY <1>2 DEF Answered
<1> QED BY <1>3, <1>4, ChangedOK

LEMMA FailedOK ==
    ASSUME NEW os \in Seq(OrderShape), NEW o \in DOMAIN os, NEW new, new = Failed(os, o)
    PROVE  /\ new \in Seq(OrderShape) /\ Len(new) = Len(os) /\ DOMAIN new = DOMAIN os
           /\ SameIssue(new[o], os[o]) /\ new[o].child = os[o].child
           /\ new[o].released = os[o].released /\ new[o].returns = os[o].returns
           /\ new[o].state = "failed"
           /\ \A p \in DOMAIN os \ {o} : new[p] = os[p]
<1>1. os[o] \in OrderShape
  OBVIOUS
<1>2. PICK e : e = [os[o] EXCEPT !.state = "failed"]
  OBVIOUS
<1>3. /\ e \in OrderShape /\ SameIssue(e, os[o]) /\ e.child = os[o].child
      /\ e.released = os[o].released /\ e.returns = os[o].returns /\ e.state = "failed"
  BY <1>1, <1>2 DEF OrderShape, SameIssue
<1>4. new = [os EXCEPT ![o] = e]
  BY <1>2 DEF Failed
<1> QED BY <1>3, <1>4, ChangedOK

LEMMA ReleasedOK ==
    ASSUME NEW os \in Seq(OrderShape), NEW o \in DOMAIN os, NEW new, new = Released(os, o)
    PROVE  /\ new \in Seq(OrderShape) /\ Len(new) = Len(os) /\ DOMAIN new = DOMAIN os
           /\ SameIssue(new[o], os[o]) /\ new[o].child = os[o].child
           /\ new[o].state = os[o].state /\ new[o].returns = os[o].returns
           /\ \A p \in DOMAIN os \ {o} : new[p] = os[p]
<1>1. os[o] \in OrderShape
  OBVIOUS
<1>2. PICK e : e = [os[o] EXCEPT !.released = TRUE]
  OBVIOUS
<1>3. /\ e \in OrderShape /\ SameIssue(e, os[o]) /\ e.child = os[o].child
      /\ e.state = os[o].state /\ e.returns = os[o].returns
  BY <1>1, <1>2 DEF OrderShape, SameIssue
<1>4. new = [os EXCEPT ![o] = e]
  BY <1>2 DEF Released
<1> QED BY <1>3, <1>4, ChangedOK

\* read_earlier: a chain stays what it is while orders are issued after it.
LEMMA EarlierKept ==
    ASSUME NEW os, NEW ps, DOMAIN os \subseteq DOMAIN ps,
           \A p \in DOMAIN os : /\ ps[p].parent = os[p].parent
                                /\ os[p].parent = NoOrder \/ os[p].parent \in DOMAIN os,
           NEW o \in DOMAIN os
    PROVE  Earlier(ps, o) = Earlier(os, o) /\ Earlier(os, o) \subseteq DOMAIN os
<1>1. ASSUME NEW S \in SUBSET DOMAIN os, HasParents(os, o, S)
      PROVE  S \in SUBSET DOMAIN ps /\ HasParents(ps, o, S)
  BY <1>1 DEF HasParents
<1>2. HasParents(os, o, DOMAIN os)
  BY DEF HasParents
<1>3. ASSUME NEW S \in SUBSET DOMAIN ps, HasParents(ps, o, S)
      PROVE  HasParents(os, o, S \cap DOMAIN os)
  <2> SUFFICES ASSUME NEW p \in (S \cap DOMAIN os) \cup {o}
               PROVE  os[p].parent = NoOrder \/ os[p].parent \in S \cap DOMAIN os
    BY DEF HasParents
  <2>1. p \in DOMAIN os /\ p \in S \cup {o} /\ ps[p].parent = os[p].parent
    OBVIOUS
  <2> QED BY <1>3, <2>1 DEF HasParents
<1>4. Earlier(ps, o) \subseteq Earlier(os, o)
  <2> SUFFICES ASSUME NEW p \in Earlier(ps, o) PROVE p \in Earlier(os, o)
    OBVIOUS
  <2>1. \A S \in SUBSET DOMAIN os : HasParents(os, o, S) => p \in S
    BY <1>1 DEF Earlier
  <2> QED BY <1>2, <2>1 DEF Earlier
<1>5. Earlier(os, o) \subseteq Earlier(ps, o)
  <2> SUFFICES ASSUME NEW p \in Earlier(os, o) PROVE p \in Earlier(ps, o)
    OBVIOUS
  <2>1. \A S \in SUBSET DOMAIN ps : HasParents(ps, o, S) => p \in S
    BY <1>3 DEF Earlier
  <2> QED BY <2>1 DEF Earlier
<1> QED BY <1>4, <1>5 DEF Earlier

-----------------------------------------------------------------------------
(* What a recording leaves of the calls of others *)

\* Documents outside W stay; questions never open again, orders keep their
\* links, and nothing goes.
Writes(W) ==
    /\ Len(sets) <= Len(sets') /\ DOMAIN sets \subseteq DOMAIN sets'
    /\ \A s \in DOMAIN sets :
         /\ OpenQuestions(sets'[s]) \subseteq OpenQuestions(sets[s])
         /\ SetDoc(s) \notin W => sets'[s] = sets[s]
    /\ DOMAIN orders \subseteq DOMAIN orders'
    /\ \A o \in DOMAIN orders :
         /\ SameIssue(orders'[o], orders[o])
         /\ OrderDoc(o) \notin W => /\ orders'[o].state = orders[o].state
                                    /\ orders'[o].returns = orders[o].returns
         /\ RetentionDoc \notin W => orders'[o].released = orders[o].released
    /\ Backlog \notin W => entry'.latest = entry.latest /\ entry'.dropped = entry.dropped
    /\ DraftDoc \notin W /\ Backlog \notin W => log' = log
    /\ TruthsDoc \notin W => truths' = truths

\* What Commit makes of another's call.
Seen(r, W) == IF r # Idle /\ r.obs \cap W # {} THEN [r EXCEPT !.stale = TRUE] ELSE r

LEMMA SeenIs ==
    ASSUME NEW r, NEW op, NEW fields, Reads(r, op, fields), NEW W, NEW t, t = Seen(r, W)
    PROVE  /\ DOMAIN t = DOMAIN r /\ t.op = op /\ t.stale \in BOOLEAN
           /\ \A f \in DOMAIN r : f # "stale" => t[f] = r[f]
           /\ ~t.stale => t = r /\ ~r.stale /\ (r = Idle \/ r.obs \cap W = {})
BY DEF Seen, Reads

LEMMA IdleIs == Idle.op = "none"
BY DEF Idle

\* The documents that differ.
LEMMA DocsDiffer ==
    /\ \A s, t \in Nat : SetDoc(s) = SetDoc(t) => s = t
    /\ \A o, p \in Nat : OrderDoc(o) = OrderDoc(p) => o = p
    /\ \A s, o \in Nat : SetDoc(s) # OrderDoc(o)
    /\ \A s \in Nat : SetDoc(s) \notin {Roadmap, Backlog, TruthsDoc, DraftDoc, RetentionDoc}
    /\ \A o \in Nat : OrderDoc(o) \notin {Roadmap, Backlog, TruthsDoc, DraftDoc, RetentionDoc}
    /\ Backlog \notin {DraftDoc, TruthsDoc, RetentionDoc, Roadmap}
    /\ DraftDoc \notin {TruthsDoc, RetentionDoc, Roadmap}
    /\ TruthsDoc \notin {RetentionDoc, Roadmap} /\ RetentionDoc # Roadmap
BY DEF SetDoc, OrderDoc, Roadmap, Backlog, TruthsDoc, DraftDoc, RetentionDoc

\* A decided set stays decided.
LEMMA DecidedStays ==
    ASSUME NEW W, Writes(W), NEW s, Decided(s)
    PROVE  Decided(s)'
BY DEF Writes, Decided

LEMMA RefineSeen ==
    ASSUME NEW W, Writes(W), Len(sets) \in Nat, Len(sets') \in Nat,
           NEW r, RefineCall(r), NEW t, t = Seen(r, W)
    PROVE  RefineCall(t)'
<1>1. Reads(r, "refine", {"kind", "set"})
  BY DEF RefineCall
<1>2. /\ DOMAIN t = DOMAIN r /\ t.op = "refine" /\ t.stale \in BOOLEAN
      /\ \A f \in DOMAIN r : f # "stale" => t[f] = r[f]
  BY <1>1, SeenIs
<1>3. Reads(t, "refine", {"kind", "set"}) /\ t.kind = r.kind /\ t.set = r.set
  BY <1>1, <1>2 DEF Reads
<1>4. r.set \in 0..Len(sets')
  BY DEF RefineCall, Writes
<1>5. r.kind = "drafting" => Decided(r.set)'
  BY DecidedStays DEF RefineCall
<1> QED BY <1>3, <1>4, <1>5 DEF RefineCall, Reads

LEMMA QuestionsSeen ==
    ASSUME NEW W, Writes(W), NEW r, QuestionsCall(r), NEW t, t = Seen(r, W)
    PROVE  QuestionsCall(t)'
<1> DEFINE fields == {"issues", "pending", "deps", "order", "latest"}
<1>1. Reads(r, "questions", fields) /\ r # Idle
  BY IdleIs DEF QuestionsCall, Reads
<1>2. /\ DOMAIN t = DOMAIN r /\ t.op = "questions" /\ t.stale \in BOOLEAN
      /\ \A f \in DOMAIN r : f # "stale" => t[f] = r[f]
      /\ ~t.stale => ~r.stale /\ r.obs \cap W = {}
  BY <1>1, SeenIs
<1>3. /\ Reads(t, "questions", fields) /\ t.obs = r.obs /\ t.issues = r.issues
      /\ t.pending = r.pending /\ t.deps = r.deps /\ t.order = r.order /\ t.latest = r.latest
  BY <1>1, <1>2 DEF Reads
<1>4. r.order \in DOMAIN orders'
  BY DEF QuestionsCall, Writes
<1>5. ASSUME ~t.stale
      PROVE  /\ r.latest = entry'.latest
             /\ r.latest # NoSet => Decided(r.latest)'
             /\ r.issues /\ r.pending => orders'[r.order].state = "pending"
  <2>1. ~r.stale /\ Backlog \notin W
    BY <1>2, <1>5 DEF QuestionsCall
  <2>2. r.issues /\ r.pending => OrderDoc(r.order) \notin W
    BY <1>2, <1>5 DEF QuestionsCall
  <2>3. r.latest = entry'.latest
    BY <2>1 DEF QuestionsCall, Writes
  <2>4. r.latest # NoSet => Decided(r.latest)'
    BY <2>1, DecidedStays DEF QuestionsCall
  <2>5. r.issues /\ r.pending => orders'[r.order].state = "pending"
    BY <2>1, <2>2 DEF QuestionsCall, Writes
  <2> QED BY <2>3, <2>4, <2>5
<1> HIDE DEF fields
<1>6. /\ r.issues \in BOOLEAN /\ r.pending \in BOOLEAN
      /\ r.deps \in Shapes /\ JudgeSet(r.deps)
      /\ r.issues => DOMAIN r.deps = {}
      /\ Backlog \in r.obs
      /\ r.issues /\ r.pending => OrderDoc(r.order) \in r.obs
  BY DEF QuestionsCall
<1> QED BY <1>3, <1>4, <1>5, <1>6 DEF QuestionsCall, Reads, fields

LEMMA AnswerSeen ==
    ASSUME NEW W, Writes(W), NEW r, AnswerCall(r), NEW t, t = Seen(r, W)
    PROVE  AnswerCall(t)'
<1> DEFINE fields == {"issues", "due", "set", "items", "round"}
<1>1. Reads(r, "answer", fields) /\ r # Idle
  BY IdleIs DEF AnswerCall, Reads
<1>2. /\ DOMAIN t = DOMAIN r /\ t.op = "answer" /\ t.stale \in BOOLEAN
      /\ \A f \in DOMAIN r : f # "stale" => t[f] = r[f]
      /\ ~t.stale => ~r.stale /\ r.obs \cap W = {}
  BY <1>1, SeenIs
<1>3. /\ Reads(t, "answer", fields) /\ t.obs = r.obs /\ t.issues = r.issues
      /\ t.due = r.due /\ t.set = r.set /\ t.items = r.items /\ t.round = r.round
  BY <1>1, <1>2 DEF Reads
<1>4. /\ r.set \in DOMAIN sets'
      /\ ~t.stale => sets'[r.set] = sets[r.set]
  BY <1>2 DEF AnswerCall, Writes
<1>5. r.due /\ ~r.issues =>
         \E o \in DOMAIN orders' :
            OrderDoc(o) \in r.obs /\ (~t.stale => orders'[o].state = "pending")
  <2> SUFFICES ASSUME r.due, ~r.issues
               PROVE  \E o \in DOMAIN orders' :
                        OrderDoc(o) \in r.obs /\ (~t.stale => orders'[o].state = "pending")
    OBVIOUS
  <2>1. PICK o \in DOMAIN orders :
            OrderDoc(o) \in r.obs /\ (~r.stale => orders[o].state = "pending")
    BY DEF AnswerCall
  <2>2. o \in DOMAIN orders' /\ (OrderDoc(o) \notin W => orders'[o].state = orders[o].state)
    BY DEF Writes
  <2> QED BY <1>2, <2>1, <2>2
<1>6. ~t.stale => /\ JudgeAnswers(sets[r.set], r.items)
                  /\ r.round = RoundNumber(sets[r.set])
                  /\ r.due => Closes(sets[r.set], r.items)
  BY <1>2 DEF AnswerCall
<1>7. /\ r.issues \in BOOLEAN /\ r.due \in BOOLEAN /\ SetDoc(r.set) \in r.obs
      /\ \A q \in DOMAIN r.items : r.items[q] \in {"answered", "deferred"}
      /\ r.issues => r.due
  BY DEF AnswerCall
<1> HIDE DEF fields
<1> QED BY <1>3, <1>4, <1>5, <1>6, <1>7 DEF AnswerCall, Reads, fields

LEMMA DraftSeen ==
    ASSUME NEW W, Writes(W), NEW r, DraftCall(r), NEW t, t = Seen(r, W)
    PROVE  DraftCall(t)'
<1>1. Reads(r, "truths", {"order", "digest"})
  BY DEF DraftCall
<1>2. /\ DOMAIN t = DOMAIN r /\ t.op = "truths" /\ t.stale \in BOOLEAN
      /\ \A f \in DOMAIN r : f # "stale" => t[f] = r[f]
  BY <1>1, SeenIs
<1>3. Reads(t, "truths", {"order", "digest"}) /\ t.order = r.order /\ t.digest = r.digest
  BY <1>1, <1>2 DEF Reads
<1> QED BY <1>3 DEF DraftCall, Reads, Writes

LEMMA ApproveSeen ==
    ASSUME NEW W, Writes(W), NEW r, ApproveCall(r), NEW t, t = Seen(r, W)
    PROVE  ApproveCall(t)'
<1> DEFINE fields == {"digest", "seq", "given", "judged", "before"}
<1>1. Reads(r, "approve", fields) /\ r # Idle
  BY IdleIs DEF ApproveCall, Reads
<1>2. /\ DOMAIN t = DOMAIN r /\ t.op = "approve" /\ t.stale \in BOOLEAN
      /\ \A f \in DOMAIN r : f # "stale" => t[f] = r[f]
      /\ ~t.stale => ~r.stale /\ r.obs \cap W = {}
  BY <1>1, SeenIs
<1>3. /\ Reads(t, "approve", fields) /\ t.obs = r.obs /\ t.digest = r.digest /\ t.seq = r.seq
      /\ t.given = r.given /\ t.judged = r.judged
  BY <1>1, <1>2 DEF Reads
<1>4. /\ r.judged \in BOOLEAN /\ r.digest \in AnyDigest /\ r.digest[2] \in DOMAIN sets'
      /\ {DraftDoc, Backlog, TruthsDoc} \subseteq r.obs
  BY DEF ApproveCall, Writes
<1>5. ASSUME ~t.stale
      PROVE  /\ (r.digest = Newest)' /\ (r.seq = Last(SubmissionsOf(r.digest)))'
             /\ (r.given = Versions(truths, r.digest[3]))'
             /\ r.digest[2] = entry'.latest /\ Decided(entry.latest)' /\ ~entry'.dropped
             /\ r.judged => (\A n \in Approvals(r.digest) : n < r.seq)'
  <2>1. ~r.stale /\ DraftDoc \notin W /\ Backlog \notin W /\ TruthsDoc \notin W
    BY <1>2, <1>4, <1>5
  <2>2. log' = log /\ truths' = truths /\ entry'.latest = entry.latest
        /\ entry'.dropped = entry.dropped
    BY <2>1 DEF Writes
  <2>3. /\ r.digest = Newest /\ r.seq = Last(SubmissionsOf(r.digest))
        /\ r.given = Versions(truths, r.digest[3])
        /\ r.digest[2] = entry.latest /\ Decided(entry.latest) /\ ~entry.dropped
        /\ r.judged => \A n \in Approvals(r.digest) : n < r.seq
    BY <2>1 DEF ApproveCall
  <2>4. PICK s : s = entry.latest
    OBVIOUS
  <2>5. Decided(s)'
    BY <2>3, <2>4, DecidedStays
  <2>6. Decided(entry.latest)'
    BY <2>2, <2>4, <2>5
  <2> QED BY <2>2, <2>3, <2>6 DEF Newest, Submissions, SubmissionsOf, Approvals
<1> HIDE DEF fields
<1> QED BY <1>3, <1>4, <1>5 DEF ApproveCall, Reads, fields

LEMMA FailSeen ==
    ASSUME NEW W, Writes(W), NEW r, FailCall(r), NEW t, t = Seen(r, W)
    PROVE  FailCall(t)'
<1>1. Reads(r, "fail", {"order"})
  BY DEF FailCall
<1>2. /\ DOMAIN t = DOMAIN r /\ t.op = "fail" /\ t.stale \in BOOLEAN
      /\ \A f \in DOMAIN r : f # "stale" => t[f] = r[f]
  BY <1>1, SeenIs
<1>3. Reads(t, "fail", {"order"}) /\ t.order = r.order
  BY <1>1, <1>2 DEF Reads
<1> QED BY <1>3 DEF FailCall, Reads, Writes

\* Every order's parent is an order.
Parents == \A p \in DOMAIN orders :
               orders[p].parent = NoOrder \/ orders[p].parent \in DOMAIN orders

LEMMA RetrySeen ==
    ASSUME NEW W, Writes(W), Parents, NEW r, RetryCall(r), NEW t, t = Seen(r, W)
    PROVE  RetryCall(t)'
<1>1. Reads(r, "retry", {"order"}) /\ r # Idle
  BY IdleIs DEF RetryCall, Reads
<1>2. /\ DOMAIN t = DOMAIN r /\ t.op = "retry" /\ t.stale \in BOOLEAN
      /\ \A f \in DOMAIN r : f # "stale" => t[f] = r[f]
      /\ ~t.stale => ~r.stale /\ r.obs \cap W = {}
  BY <1>1, SeenIs
<1>3. Reads(t, "retry", {"order"}) /\ t.order = r.order /\ t.obs = r.obs
  BY <1>1, <1>2 DEF Reads
<1>4. r.order \in DOMAIN orders /\ DOMAIN orders \subseteq DOMAIN orders'
      /\ \A p \in DOMAIN orders : orders'[p].parent = orders[p].parent
  BY DEF RetryCall, Writes, SameIssue
<1>5. PICK o : o = r.order
  OBVIOUS
<1>6. Earlier(orders, o)' = Earlier(orders, o) /\ Earlier(orders, o) \subseteq DOMAIN orders
  BY <1>4, <1>5, EarlierKept DEF Parents
<1>7. PICK C : C = Earlier(orders, o) \cup {o}
  OBVIOUS
<1>8. C \subseteq DOMAIN orders /\ \A p \in C : OrderDoc(p) \in r.obs
  BY <1>4, <1>5, <1>6, <1>7 DEF RetryCall
<1>9. ASSUME ~t.stale
      PROVE  /\ \A p \in C : orders'[p].returns = {}
             /\ ~orders'[o].released
             /\ (entry.latest # NoSet => Decided(entry.latest))'
  <2>1. ~r.stale /\ Backlog \notin W /\ RetentionDoc \notin W
        /\ \A p \in C : OrderDoc(p) \notin W
    BY <1>2, <1>8, <1>9 DEF RetryCall
  <2>2. /\ \A p \in C : orders[p].returns = {}
        /\ ~orders[o].released
        /\ entry.latest # NoSet => Decided(entry.latest)
    BY <1>5, <1>7, <2>1 DEF RetryCall
  <2>3. \A p \in C : orders'[p].returns = {}
    BY <1>8, <2>1, <2>2 DEF Writes
  <2>4. ~orders'[o].released
    BY <1>4, <1>5, <2>1, <2>2 DEF Writes
  <2>5. PICK s : s = entry.latest
    OBVIOUS
  <2>6. s # NoSet => Decided(s)'
    BY <2>2, <2>5, DecidedStays
  <2>7. entry'.latest = s
    BY <2>1, <2>5 DEF Writes
  <2> QED BY <2>3, <2>4, <2>6, <2>7
<1>10. C = Earlier(orders', o) \cup {o}
  BY <1>6, <1>7
<1>11. {RetentionDoc, Backlog} \subseteq r.obs
  BY DEF RetryCall
<1> QED BY <1>3, <1>4, <1>5, <1>8, <1>9, <1>10, <1>11 DEF RetryCall, Reads

\* Whatever a call relies on, a recording leaves it so or marks it stale.
LEMMA CallSeen ==
    ASSUME NEW W, Writes(W), Parents, Len(sets) \in Nat, Len(sets') \in Nat,
           NEW r, CallOK(r), NEW t, t = Seen(r, W)
    PROVE  CallOK(t)'
<1>1. CASE r = Idle
  <2>1. t = Idle
    BY <1>1 DEF Seen
  <2> QED BY <2>1 DEF CallOK
<1>2. CASE RefineCall(r)
  BY <1>2, RefineSeen DEF CallOK
<1>3. CASE QuestionsCall(r)
  BY <1>3, QuestionsSeen DEF CallOK
<1>4. CASE AnswerCall(r)
  BY <1>4, AnswerSeen DEF CallOK
<1>5. CASE DraftCall(r)
  BY <1>5, DraftSeen DEF CallOK
<1>6. CASE ApproveCall(r)
  BY <1>6, ApproveSeen DEF CallOK
<1>7. CASE FailCall(r)
  BY <1>7, FailSeen DEF CallOK
<1>8. CASE RetryCall(r)
  BY <1>8, RetrySeen DEF CallOK
<1> QED BY <1>1, <1>2, <1>3, <1>4, <1>5, <1>6, <1>7, <1>8 DEF CallOK

\* A commit under these conditions keeps what the calls rely on.
LEMMA CommitCalls ==
    ASSUME DOMAIN call = Callers, \A d \in Callers : CallOK(call[d]), Parents,
           Len(sets) \in Nat, Len(sets') \in Nat,
           NEW W, Writes(W), NEW c \in Callers, Commit(c, W)
    PROVE  /\ DOMAIN call' = Callers /\ call'[c] = Idle
           /\ \A d \in Callers : CallOK(call[d])'
<1>1. DOMAIN call' = Callers /\ call'[c] = Idle
      /\ \A d \in Callers \ {c} : call'[d] = Seen(call[d], W)
  BY DEF Commit, Seen
<1>2. ASSUME NEW d \in Callers PROVE CallOK(call[d])'
  <2>1. PICK t : t = call'[d]
    OBVIOUS
  <2>2. CallOK(t)'
    <3>1. CASE d = c
      BY <1>1, <2>1, <3>1 DEF CallOK
    <3>2. CASE d # c
      <4>1. PICK r : r = call[d]
        OBVIOUS
      <4>2. CallOK(r) /\ t = Seen(r, W)
        BY <1>1, <2>1, <3>2, <4>1
      <4> QED BY <4>2, CallSeen
    <3> QED BY <3>1, <3>2
  <2> QED BY <2>1, <2>2
<1> QED BY <1>1, <1>2

-----------------------------------------------------------------------------
(* Each recording keeps the invariant *)

\* What the invariant says of the documents at hand.
LEMMA Shown ==
    ASSUME IInv
    PROVE  /\ orders \in Seq(OrderShape) /\ Len(orders) \in Nat
           /\ DOMAIN orders = 1..Len(orders)
           /\ \A o \in DOMAIN orders : orders[o] \in OrderShape /\ OrderOK(orders[o])
           /\ Parents
           /\ sets \in Seq(SetShape) /\ Len(sets) \in Nat /\ DOMAIN sets = 1..Len(sets)
           /\ \A s \in DOMAIN sets : sets[s] \in SetShape /\ SetOK(sets[s])
           /\ entry \in [dropped : BOOLEAN, latest : Nat, refined : Nat]
           /\ entry.latest = Len(sets)
           /\ log \in Seq(Event) /\ Len(log) \in Nat /\ DOMAIN log = 1..Len(log)
           /\ \A n \in DOMAIN log : log[n] \in Event
<1>1. /\ orders \in Seq(OrderShape) /\ sets \in Seq(SetShape) /\ log \in Seq(Event)
      /\ entry \in [dropped : BOOLEAN, latest : Nat, refined : Nat]
      /\ entry.latest = Len(sets)
      /\ \A o \in DOMAIN orders : OrderOK(orders[o])
      /\ \A s \in DOMAIN sets : SetOK(sets[s])
  BY DEF IInv, OrdersOK, SetsOK, EntryOK, LogOK
<1>2. Parents
  BY <1>1 DEF Parents, OrderOK, NoOrder
<1> QED BY <1>1, <1>2

\* A latest set none of whose questions is open, or none.
LEMMA LatestDecided ==
    ASSUME IInv, ~LatestOpen, entry.latest # NoSet
    PROVE  Decided(entry.latest)
<1>1. entry.latest \in DOMAIN sets
  BY Shown DEF NoSet
<1>2. ~sets[entry.latest].abandoned
  BY <1>1 DEF IInv, OnlyClosedAbandoned
<1>3. ~IsOpen(sets[entry.latest])
  BY DEF LatestOpen, State
<1> QED BY <1>1, <1>2, <1>3 DEF IsOpen, Decided

\* Orders that keep what they were issued with and get returns there are.
LEMMA OrdersStep ==
    ASSUME IInv, NEW W, Writes(W), orders' \in Seq(OrderShape), Digests \subseteq Digests',
           Len(orders) <= Len(orders'),
           NEW D, D = DOMAIN orders,
           \A o \in D :
             /\ orders'[o].child \in 0..Len(orders')
             /\ orders'[o].returns \subseteq
                  orders[o].returns \cup {SetDoc(s) : s \in DOMAIN sets'} \cup Digests',
           \A o \in DOMAIN orders' \ D : OrderOK(orders[o])'
    PROVE  OrdersOK'
<1>1. ASSUME NEW o \in D PROVE OrderOK(orders[o])'
  <2>1. OrderOK(orders[o]) /\ orders[o] \in OrderShape /\ SameIssue(orders'[o], orders[o])
    BY Shown DEF Writes
  <2>2. /\ orders'[o].set \in 0..Len(sets') /\ orders'[o].parent \in 0..Len(orders')
    <3>1. Len(sets) <= Len(sets') /\ Len(orders) \in Nat /\ Len(orders') \in Nat
      BY Shown DEF Writes
    <3>2. orders[o].set \in 0..Len(sets) /\ orders[o].parent \in 0..Len(orders)
      BY <2>1 DEF OrderOK
    <3>3. orders'[o].set = orders[o].set /\ orders'[o].parent = orders[o].parent
      BY <2>1 DEF SameIssue
    <3>4. sets' = sets' /\ DOMAIN sets \subseteq DOMAIN sets'
      BY DEF Writes
    <3>5. orders[o].set \in 0..Len(sets')
      BY <3>1, <3>2
    <3> QED BY <3>1, <3>2, <3>3, <3>5
  <2>3. orders'[o].returns \subseteq {SetDoc(s) : s \in DOMAIN sets'} \cup Digests'
    <3>1. orders[o].returns \subseteq {SetDoc(s) : s \in DOMAIN sets} \cup Digests
      BY <2>1 DEF OrderOK
    <3>2. DOMAIN sets \subseteq DOMAIN sets'
      BY DEF Writes
    <3> QED BY <3>1, <3>2
  <2>4. (orders[o].kind = "drafting" => Decided(orders[o].set))'
    <3>1. PICK s : s = orders[o].set
      OBVIOUS
    <3>2. orders[o].kind = "drafting" => Decided(s)'
      BY <2>1, <3>1, DecidedStays DEF OrderOK
    <3>3. orders'[o].kind = orders[o].kind /\ orders'[o].set = s
      BY <2>1, <3>1 DEF SameIssue
    <3> QED BY <3>2, <3>3 DEF Decided
  <2> QED BY <2>2, <2>3, <2>4 DEF OrderOK
<1>2. \A o \in DOMAIN orders' : OrderOK(orders[o])'
  BY <1>1
<1> QED BY <1>2 DEF OrdersOK

\* The rest stays as it is.
LEMMA RestKept ==
    ASSUME IInv, UNCHANGED <<sets, entry, log, truths>>
    PROVE  SetsOK' /\ EntryOK' /\ LogOK' /\ TruthsOK' /\ OnlyClosedAbandoned' /\ Digests' = Digests
BY DEF IInv, SetsOK, EntryOK, LogOK, TruthsOK, OnlyClosedAbandoned, Digests, Submissions,
       Decided, Approved

\* A recording that keeps the documents keeps the calls.
LEMMA RecordKept ==
    ASSUME IInv, NEW W, Writes(W), NEW c \in Callers, Commit(c, W),
           OrdersOK', SetsOK', EntryOK', LogOK', TruthsOK', OneLiveOrder', OnlyClosedAbandoned'
    PROVE  IInv'
<1>1. Len(sets') \in Nat
  BY DEF SetsOK
<1>2. DOMAIN call = Callers /\ \A d \in Callers : CallOK(call[d])
  BY DEF IInv
<1>3. DOMAIN call' = Callers /\ \A d \in Callers : CallOK(call[d])'
  BY <1>1, <1>2, CommitCalls, Shown
<1> QED BY <1>3 DEF IInv

\* What an order issued where none is pending makes of the orders; `mid` is
\* what the recording made of the orders before it.
LEMMA IssueAfter ==
    ASSUME IInv, NEW W, Writes(W), Digests \subseteq Digests',
           NEW mid \in Seq(OrderShape), DOMAIN mid = DOMAIN orders, Len(mid) = Len(orders),
           \A o \in DOMAIN mid :
              /\ mid[o].child = orders[o].child
              /\ mid[o].returns \subseteq
                   orders[o].returns \cup {SetDoc(s) : s \in DOMAIN sets'} \cup Digests',
           Pending(mid) = {},
           NEW kind \in {"questions", "drafting"}, NEW set \in 0..Len(sets'),
           NEW parent \in 0..Len(orders), (kind = "drafting" => Decided(set))',
           OneMore(mid, orders', kind, set, parent)
    PROVE  OrdersOK' /\ OneLiveOrder' /\ Len(orders) + 1 \in Pending(orders')
<1>1. PICK n : n = Len(orders) + 1
  OBVIOUS
<1>2. n \in Nat /\ Len(orders) \in Nat
  BY <1>1, Shown
<1>3. PICK D : D = DOMAIN orders
  OBVIOUS
<1>4. /\ orders' \in Seq(OrderShape) /\ Len(orders') = n
      /\ DOMAIN orders' = D \cup {n} /\ n \notin D
      /\ orders'[n] = IssuedOrder(kind, set, parent)
      /\ \A o \in D :
            /\ orders'[o].state = mid[o].state /\ orders'[o].returns = mid[o].returns
            /\ orders'[o].child = IF o = parent THEN n ELSE mid[o].child
  BY <1>1, <1>3 DEF OneMore
<1>5. /\ orders'[n].kind = kind /\ orders'[n].set = set /\ orders'[n].parent = parent
      /\ orders'[n].child = 0 /\ orders'[n].state = "pending" /\ orders'[n].returns = {}
  BY <1>4 DEF IssuedOrder, NoOrder
<1>6. OrdersOK'
  <2>1. OrderOK(orders[n])'
    <3>1. parent \in 0..Len(orders') /\ 0 \in 0..Len(orders')
      BY <1>1, <1>2, <1>4
    <3> QED BY <1>5, <3>1 DEF OrderOK, Decided
  <2>2. \A o \in D : orders'[o].child \in 0..Len(orders')
    <3>1. \A o \in D : mid[o].child \in 0..Len(orders)
      BY <1>3, Shown DEF OrderOK
    <3> QED BY <1>1, <1>2, <1>4, <3>1
  <2>3. \A o \in D : orders'[o].returns \subseteq
             orders[o].returns \cup {SetDoc(s) : s \in DOMAIN sets'} \cup Digests'
    BY <1>3, <1>4
  <2>4. Len(orders) <= Len(orders')
    BY <1>1, <1>2, <1>4
  <2>5. \A o \in DOMAIN orders' \ D : OrderOK(orders[o])'
    BY <1>4, <2>1
  <2> QED BY <1>3, <1>4, <2>2, <2>3, <2>4, <2>5, OrdersStep
<1>7. OneLiveOrder'
  <2>1. \A o \in D : orders'[o].state # "pending"
    BY <1>3, <1>4 DEF Pending
  <2>2. Pending(orders') \subseteq {n}
    BY <1>4, <2>1 DEF Pending
  <2> QED BY <2>2 DEF OneLiveOrder
<1>8. n \in Pending(orders')
  BY <1>4, <1>5 DEF Pending
<1> QED BY <1>1, <1>6, <1>7, <1>8

\* The documents of the orders when one is issued and no other changes.
LEMMA IssueDocs ==
    ASSUME IInv, NEW kind \in {"questions", "drafting"}, NEW set \in Nat, NEW parent \in Nat,
           orders' = Issued(orders, kind, set, parent)
    PROVE  /\ OneMore(orders, orders', kind, set, parent)
           /\ DOMAIN orders \subseteq DOMAIN orders'
           /\ \A o \in DOMAIN orders :
                /\ SameIssue(orders'[o], orders[o]) /\ orders'[o].state = orders[o].state
                /\ orders'[o].returns = orders[o].returns
                /\ orders'[o].released = orders[o].released
<1>1. OneMore(orders, orders', kind, set, parent)
  <2>1. PICK os, new : os = orders /\ new = orders'
    OBVIOUS
  <2>2. /\ os \in Seq(OrderShape) /\ kind \in {"questions", "drafting"}
        /\ set \in Nat /\ parent \in Nat /\ new = Issued(os, kind, set, parent)
    BY <2>1, Shown
  <2>3. OneMore(os, new, kind, set, parent)
    BY <2>2, IssuedOK
  <2> QED BY <2>1, <2>3
<1> QED BY <1>1 DEF OneMore

LEMMA IssueOrder ==
    ASSUME IInv, NonePending, UNCHANGED <<sets, entry, log, truths>>,
           NEW kind \in {"questions", "drafting"}, NEW set \in 0..Len(sets),
           NEW parent \in 0..Len(orders), kind = "drafting" => Decided(set),
           orders' = Issued(orders, kind, set, parent), NEW W
    PROVE  Writes(W) /\ OrdersOK' /\ OneLiveOrder'
<1>1. set \in Nat /\ parent \in Nat /\ set \in 0..Len(sets')
  BY Shown
<1>2. /\ OneMore(orders, orders', kind, set, parent)
      /\ DOMAIN orders \subseteq DOMAIN orders'
      /\ \A o \in DOMAIN orders :
            /\ SameIssue(orders'[o], orders[o]) /\ orders'[o].state = orders[o].state
            /\ orders'[o].returns = orders[o].returns
            /\ orders'[o].released = orders[o].released
  BY <1>1, IssueDocs
<1>3. Writes(W)
  BY <1>2, Shown DEF Writes
<1>4. (kind = "drafting" => Decided(set))'
  BY DEF Decided
<1>5. PICK mid : mid = orders
  OBVIOUS
<1>6. mid \in Seq(OrderShape) /\ DOMAIN mid = DOMAIN orders /\ Len(mid) = Len(orders)
      /\ Pending(mid) = {} /\ OneMore(mid, orders', kind, set, parent)
  BY <1>2, <1>5, Shown DEF NonePending
<1> QED BY <1>1, <1>3, <1>4, <1>5, <1>6, RestKept, IssueAfter

\* story-refine's recording.
LEMMA RefineRecordOK ==
    ASSUME IInv, NEW c \in Callers, RefineRecord(c)
    PROVE  IInv'
<1>1. PICK r : r = call[c]
  OBVIOUS
<1>2. RefineCall(r)
  <2>1. CallOK(r) /\ r.op = "refine"
    BY <1>1 DEF IInv, RefineRecord
  <2> QED BY <2>1, IdleIs DEF CallOK, QuestionsCall, AnswerCall, DraftCall, ApproveCall,
           FailCall, RetryCall, Reads
<1>3. /\ NonePending /\ UNCHANGED <<sets, entry, log, truths>>
      /\ orders' = Issued(orders, r.kind, r.set, 0)
      /\ Commit(c, {OrderDoc(Len(orders) + 1)})
  BY <1>1 DEF RefineRecord, NoOrder
<1>4. r.kind \in {"questions", "drafting"} /\ r.set \in 0..Len(sets)
      /\ (r.kind = "drafting" => Decided(r.set)) /\ 0 \in 0..Len(orders)
  BY <1>2, Shown DEF RefineCall
<1>5. PICK W : W = {OrderDoc(Len(orders) + 1)}
  OBVIOUS
<1>6. Writes(W) /\ OrdersOK' /\ OneLiveOrder'
  BY <1>3, <1>4, IssueOrder
<1> QED BY <1>3, <1>5, <1>6, RestKept, RecordKept

\* work-order-retry's recording carries what its parent was issued with.
LEMMA RetryRecordOK ==
    ASSUME IInv, NEW c \in Callers, RetryRecord(c)
    PROVE  IInv'
<1>1. PICK r : r = call[c]
  OBVIOUS
<1>2. RetryCall(r)
  <2>1. CallOK(r) /\ r.op = "retry"
    BY <1>1 DEF IInv, RetryRecord
  <2> QED BY <2>1, IdleIs DEF CallOK, QuestionsCall, AnswerCall, DraftCall, ApproveCall,
           FailCall, RefineCall, Reads
<1>3. PICK o : o = r.order
  OBVIOUS
<1>4. /\ NonePending /\ UNCHANGED <<sets, entry, log, truths>>
      /\ orders' = Issued(orders, orders[o].kind, orders[o].set, o)
      /\ Commit(c, {OrderDoc(o), OrderDoc(Len(orders) + 1)})
  BY <1>1, <1>3 DEF RetryRecord
<1>5. o \in DOMAIN orders /\ o \in 0..Len(orders)
  BY <1>2, <1>3, Shown DEF RetryCall
<1>6. PICK k, s : k = orders[o].kind /\ s = orders[o].set
  OBVIOUS
<1>7. orders[o] \in OrderShape /\ OrderOK(orders[o])
  BY <1>5, Shown
<1>8. k \in {"questions", "drafting"} /\ s \in 0..Len(sets) /\ (k = "drafting" => Decided(s))
  BY <1>6, <1>7 DEF OrderShape, OrderOK
<1>9. PICK W : W = {OrderDoc(o), OrderDoc(Len(orders) + 1)}
  OBVIOUS
<1>10. orders' = Issued(orders, k, s, o)
  BY <1>4, <1>6
<1>11. Writes(W) /\ OrdersOK' /\ OneLiveOrder'
  BY <1>4, <1>5, <1>8, <1>10, IssueOrder
<1> QED BY <1>4, <1>9, <1>11, RestKept, RecordKept
\* A change of one order, by a return, a failure or a purge.
LEMMA ChangeOrder ==
    ASSUME IInv, NEW W, Writes(W), Digests \subseteq Digests', NEW o \in DOMAIN orders,
           orders' \in Seq(OrderShape), Len(orders') = Len(orders),
           DOMAIN orders' = DOMAIN orders, orders'[o].child = orders[o].child,
           orders'[o].returns \subseteq
               orders[o].returns \cup {SetDoc(s) : s \in DOMAIN sets'} \cup Digests',
           orders'[o].state = "pending" => orders[o].state = "pending",
           \A p \in DOMAIN orders \ {o} : orders'[p] = orders[p]
    PROVE  OrdersOK' /\ OneLiveOrder'
<1>1. PICK D : D = DOMAIN orders
  OBVIOUS
<1>2. \A p \in D : /\ orders'[p].child \in 0..Len(orders')
                   /\ orders'[p].returns \subseteq
                        orders[p].returns \cup {SetDoc(s) : s \in DOMAIN sets'} \cup Digests'
  BY <1>1, Shown DEF OrderOK
<1>3. OrdersOK'
  <2>1. \A p \in DOMAIN orders' \ D : OrderOK(orders[p])'
    BY <1>1
  <2>2. Len(orders) <= Len(orders')
    BY Shown
  <2> QED BY <1>1, <1>2, <2>1, <2>2, OrdersStep
<1>4. Pending(orders') \subseteq Pending(orders)
  BY DEF Pending
<1> QED BY <1>3, <1>4 DEF IInv, OneLiveOrder

\* The call that records is of its kind, and was not overtaken.
LEMMA Recording ==
    ASSUME IInv, NEW c \in Callers, NEW r, r = call[c]
    PROVE  /\ r.op = "questions" => QuestionsCall(r)
           /\ r.op = "answer" => AnswerCall(r)
           /\ r.op = "truths" => DraftCall(r)
           /\ r.op = "approve" => ApproveCall(r)
           /\ r.op = "fail" => FailCall(r)
<1>1. CallOK(r)
  BY DEF IInv
<1> QED BY <1>1, IdleIs DEF CallOK, RefineCall, QuestionsCall, AnswerCall, DraftCall,
           ApproveCall, FailCall, RetryCall, Reads

\* work-order-fail's recording.
LEMMA FailRecordOK ==
    ASSUME IInv, NEW c \in Callers, FailRecord(c)
    PROVE  IInv'
<1>1. PICK r : r = call[c]
  OBVIOUS
<1>2. PICK o : o = r.order
  OBVIOUS
<1>3. /\ o \in DOMAIN orders /\ UNCHANGED <<sets, entry, log, truths>>
      /\ orders' = Failed(orders, o) /\ Commit(c, {OrderDoc(o)})
  BY <1>1, <1>2, Recording DEF FailRecord, FailCall
<1>4. /\ orders' \in Seq(OrderShape) /\ Len(orders') = Len(orders)
      /\ DOMAIN orders' = DOMAIN orders
      /\ SameIssue(orders'[o], orders[o]) /\ orders'[o].child = orders[o].child
      /\ orders'[o].released = orders[o].released /\ orders'[o].returns = orders[o].returns
      /\ orders'[o].state = "failed"
      /\ \A p \in DOMAIN orders \ {o} : orders'[p] = orders[p]
  <2>1. PICK os, new : os = orders /\ new = orders'
    OBVIOUS
  <2>2. os \in Seq(OrderShape) /\ o \in DOMAIN os /\ new = Failed(os, o)
    BY <1>3, <2>1, Shown
  <2> QED BY <2>1, <2>2, FailedOK
<1>5. PICK W : W = {OrderDoc(o)}
  OBVIOUS
<1>6. Writes(W)
  BY <1>3, <1>4, <1>5, Shown DEF Writes, SameIssue
<1>7. OrdersOK' /\ OneLiveOrder'
  BY <1>3, <1>4, <1>6, RestKept, ChangeOrder
<1> QED BY <1>3, <1>5, <1>6, <1>7, RestKept, RecordKept

\* A purge of one of an order's inputs.
LEMMA PurgeInputOK ==
    ASSUME IInv, NEW c \in Callers, NEW o \in DOMAIN orders, PurgeInput(c, o)
    PROVE  IInv'
<1>1. /\ UNCHANGED <<sets, entry, log, truths>>
      /\ orders' = Released(orders, o) /\ Commit(c, {RetentionDoc})
  BY DEF PurgeInput
<1>2. /\ orders' \in Seq(OrderShape) /\ Len(orders') = Len(orders)
      /\ DOMAIN orders' = DOMAIN orders
      /\ SameIssue(orders'[o], orders[o]) /\ orders'[o].child = orders[o].child
      /\ orders'[o].state = orders[o].state /\ orders'[o].returns = orders[o].returns
      /\ \A p \in DOMAIN orders \ {o} : orders'[p] = orders[p]
  <2>1. PICK os, new : os = orders /\ new = orders'
    OBVIOUS
  <2>2. os \in Seq(OrderShape) /\ o \in DOMAIN os /\ new = Released(os, o)
    BY <1>1, <2>1, Shown
  <2> QED BY <2>1, <2>2, ReleasedOK
<1>3. PICK W : W = {RetentionDoc}
  OBVIOUS
<1>4. Writes(W)
  BY <1>1, <1>2, <1>3, Shown DEF Writes, SameIssue
<1>5. OrdersOK' /\ OneLiveOrder'
  BY <1>1, <1>2, <1>4, RestKept, ChangeOrder
<1> QED BY <1>1, <1>3, <1>4, <1>5, RestKept, RecordKept

\* story.dropped.
LEMMA DropStoryOK ==
    ASSUME IInv, NEW c \in Callers, DropStory(c)
    PROVE  IInv'
<1>1. /\ UNCHANGED <<orders, sets, log, truths>> /\ Commit(c, {Roadmap, Backlog})
      /\ entry' = [entry EXCEPT !.dropped = TRUE]
  BY DEF DropStory
<1>2. /\ entry' \in [dropped : BOOLEAN, latest : Nat, refined : Nat]
      /\ entry'.latest = entry.latest /\ entry'.refined = entry.refined
  BY <1>1, Shown
<1>3. PICK W : W = {Roadmap, Backlog}
  OBVIOUS
<1>4. Writes(W)
  BY <1>1, <1>2, <1>3, Shown DEF Writes, SameIssue
<1>5. OrdersOK' /\ SetsOK' /\ LogOK' /\ TruthsOK' /\ OneLiveOrder'
  <2>1. OrdersOK'
    <3>1. Digests' = Digests
      BY <1>1 DEF Digests, Submissions
    <3> QED BY <1>1, <3>1 DEF IInv, OrdersOK, OrderOK, Decided
  <2>2. SetsOK' /\ LogOK' /\ OneLiveOrder'
    BY <1>1 DEF IInv, SetsOK, LogOK, OneLiveOrder
  <2>3. TruthsOK'
    BY <1>1 DEF IInv, TruthsOK, Approved
  <2> QED BY <2>1, <2>2, <2>3
<1>6. EntryOK' /\ OnlyClosedAbandoned'
  BY <1>1, <1>2 DEF IInv, EntryOK, OnlyClosedAbandoned, Decided
<1> QED BY <1>1, <1>3, <1>4, <1>5, <1>6, RecordKept
\* The versions a truth list would be approved at: a carried truth's own, and
\* numbers no truth of the id ever had.
LEMMA VersionsOK ==
    ASSUME TruthsOK, NEW l \in TruthLists, NEW given, given = Versions(truths, l)
    PROVE  /\ given \in Given /\ DOMAIN given \subseteq TruthIds
           /\ \A i \in DOMAIN given : given[i].version \in Nat
           /\ \A g \in Approved \cup {truths.truths} : Consistent(g, given) /\ Consistent(given, g)
<1>1. DOMAIN l \subseteq TruthIds
  BY ListsAssumption
<1>2. /\ truths.truths \in Given /\ truths.kept \in [TruthIds -> SUBSET Nat]
      /\ \A i \in TruthIds : Topped({0} \cup truths.kept[i])
      /\ \A g \in Approved \cup {truths.truths} :
            \A i \in DOMAIN g : g[i].version \in truths.kept[i]
      /\ \A g, h \in Approved \cup {truths.truths} : Consistent(g, h)
  BY DEF TruthsOK
<1>3. ASSUME NEW i \in DOMAIN l
      PROVE  /\ NextVersion(truths, i) \in Nat
             /\ \A v \in truths.kept[i] : v < NextVersion(truths, i)
  <2> DEFINE held == {0} \cup truths.kept[i]
             top == CHOOSE v \in held : \A w \in held : w <= v
  <2>1. Topped(held) /\ held \subseteq Nat
    BY <1>1, <1>2 DEF Topped
  <2>2. {truths.truths[j].version : j \in DOMAIN truths.truths \cap {i}} \subseteq truths.kept[i]
    BY <1>2
  <2>3. {0} \cup truths.kept[i]
          \cup {truths.truths[j].version : j \in DOMAIN truths.truths \cap {i}} = held
    BY <2>2
  <2>4. NextVersion(truths, i) = 1 + top
    BY <2>3 DEF NextVersion
  <2>5. top \in Nat /\ \A v \in held : v <= top
    BY <2>1, TopIs
  <2> HIDE DEF top
  <2>6. \A v \in truths.kept[i] : v \in Nat /\ v <= top
    BY <2>1, <2>5
  <2> QED BY <2>4, <2>5, <2>6
<1>4. PICK cur : cur = truths.truths
  OBVIOUS
<1>5. DOMAIN given = DOMAIN l
  BY DEF Versions
<1>6. ASSUME NEW i \in DOMAIN l
      PROVE  /\ given[i].text = l[i]
             /\ \/ /\ i \in DOMAIN cur /\ cur[i].text = l[i] /\ given[i].version = cur[i].version
                \/ given[i].version = NextVersion(truths, i)
             /\ given[i] = [text |-> l[i], version |-> given[i].version]
  BY <1>4 DEF Versions
<1>7. ASSUME NEW i \in DOMAIN l PROVE given[i].version \in Nat /\ l[i] \in Texts
  <2>1. ASSUME i \in DOMAIN cur PROVE cur[i].version \in Nat
    <3>1. cur[i].version \in truths.kept[i] /\ truths.kept[i] \in SUBSET Nat
      BY <1>1, <1>2, <1>4, <2>1
    <3> QED BY <3>1
  <2>2. l[i] \in Texts
    BY DEF Texts
  <2> QED BY <1>3, <1>6, <2>1, <2>2
<1>8. given \in Given
  <2>1. ASSUME NEW i \in DOMAIN l PROVE given[i] \in [text : Texts, version : Nat]
    <3>1. PICK v : v = given[i].version
      OBVIOUS
    <3>2. given[i] = [text |-> l[i], version |-> v] /\ v \in Nat /\ l[i] \in Texts
      BY <1>6, <1>7, <3>1
    <3> QED BY <3>2
  <2>2. given \in [DOMAIN l -> [text : Texts, version : Nat]]
    BY <2>1 DEF Versions
  <2> QED BY <1>1, <2>2 DEF Given
<1>9. ASSUME NEW g \in Approved \cup {truths.truths}, NEW i \in DOMAIN given \cap DOMAIN g,
             given[i].version = g[i].version
      PROVE  given[i].text = g[i].text
  <2>1. i \in DOMAIN l /\ g[i].version \in truths.kept[i] /\ truths.kept[i] \in SUBSET Nat
    BY <1>1, <1>2, <1>5
  <2>2. CASE given[i].version = NextVersion(truths, i)
    BY <1>3, <1>9, <2>1, <2>2
  <2>3. CASE /\ i \in DOMAIN cur /\ cur[i].text = l[i] /\ given[i].version = cur[i].version
    <3>1. Consistent(g, cur) /\ i \in DOMAIN g \cap DOMAIN cur
      BY <1>2, <1>4, <2>3
    <3> QED BY <1>6, <1>9, <2>1, <2>3, <3>1 DEF Consistent
  <2> QED BY <1>6, <2>1, <2>2, <2>3
<1> QED BY <1>1, <1>5, <1>7, <1>8, <1>9 DEF Consistent
\* TruthsProjector keeps every version approved.
LEMMA RefinedOK ==
    ASSUME TruthsOK, Approved \subseteq Given, NEW l \in TruthLists,
           NEW given, given = Versions(truths, l),
           truths' = Refined(given, truths), Approved' = Approved \cup {given}
    PROVE  TruthsOK'
<1>1. /\ given \in Given /\ DOMAIN given \subseteq TruthIds
      /\ \A i \in DOMAIN given : given[i].version \in Nat
      /\ \A g \in Approved \cup {truths.truths} : Consistent(g, given) /\ Consistent(given, g)
  BY VersionsOK
<1>2. /\ truths.truths \in Given /\ truths.kept \in [TruthIds -> SUBSET Nat]
      /\ \A i \in TruthIds : Topped({0} \cup truths.kept[i])
      /\ \A g \in Approved \cup {truths.truths} :
            \A i \in DOMAIN g : g[i].version \in truths.kept[i]
      /\ \A g, h \in Approved \cup {truths.truths} : Consistent(g, h)
  BY DEF TruthsOK
<1>3. /\ truths'.truths = given
      /\ truths'.kept = [i \in TruthIds |->
            truths.kept[i] \cup (IF i \in DOMAIN given THEN {given[i].version} ELSE {})]
  BY DEF Refined
<1>4. ASSUME NEW i \in TruthIds
      PROVE  /\ truths.kept[i] \subseteq truths'.kept[i] /\ truths'.kept[i] \in SUBSET Nat
             /\ i \in DOMAIN given => given[i].version \in truths'.kept[i]
             /\ Topped({0} \cup truths'.kept[i])
  <2>1. PICK new : new = IF i \in DOMAIN given THEN {given[i].version} ELSE {}
    OBVIOUS
  <2>2. truths'.kept[i] = truths.kept[i] \cup new /\ new \subseteq Nat
        /\ (i \in DOMAIN given => new = {given[i].version})
        /\ (i \notin DOMAIN given => new = {})
    BY <1>1, <1>3, <2>1
  <2>3. PICK top \in {0} \cup truths.kept[i] : \A n \in {0} \cup truths.kept[i] : n <= top
    BY <1>2 DEF Topped
  <2>4. truths.kept[i] \in SUBSET Nat /\ top \in Nat
    BY <1>2, <2>3
  <2>5. Topped({0} \cup truths'.kept[i])
    <3>1. CASE i \in DOMAIN given
      <4>1. PICK v \in Nat : v = given[i].version
        BY <1>1, <3>1
      <4>2. CASE v <= top
        BY <2>2, <2>3, <2>4, <3>1, <4>1, <4>2 DEF Topped
      <4>3. CASE top <= v
        <5>1. \A n \in {0} \cup truths'.kept[i] : n \in Nat /\ n <= v
          BY <2>2, <2>3, <2>4, <3>1, <4>1, <4>3
        <5> QED BY <2>2, <3>1, <4>1, <5>1 DEF Topped
      <4> QED BY <2>4, <4>2, <4>3
    <3>2. CASE i \notin DOMAIN given
      BY <1>2, <2>2, <3>2
    <3> QED BY <3>1, <3>2
  <2> QED BY <2>2, <2>4, <2>5
<1>5. truths'.kept \in [TruthIds -> SUBSET Nat]
  BY <1>3, <1>4
<1>6. ASSUME NEW g \in Approved' \cup {truths'.truths}, NEW i \in DOMAIN g
      PROVE  g[i].version \in truths'.kept[i]
  <2>1. CASE g = given
    BY <1>1, <1>4, <1>6, <2>1
  <2>2. CASE g \in Approved
    <3>1. g[i].version \in truths.kept[i]
      BY <1>2, <1>6, <2>2
    <3>2. i \in TruthIds
      <4>1. PICK D \in SUBSET TruthIds : g \in [D -> [text : Texts, version : Nat]]
        BY <2>2 DEF Given
      <4> QED BY <1>6, <4>1
    <3> QED BY <1>4, <3>1, <3>2
  <2> QED BY <1>3, <2>1, <2>2
<1>7. \A g, h \in Approved' \cup {truths'.truths} : Consistent(g, h)
  <2>1. Consistent(given, given)
    BY DEF Consistent
  <2> QED BY <1>1, <1>2, <1>3, <2>1
<1> QED BY <1>1, <1>3, <1>4, <1>5, <1>6, <1>7 DEF TruthsOK
\* A digest names a set and a truth list.
LEMMA DigestIs ==
    ASSUME NEW d \in AnyDigest
    PROVE  d[2] \in Nat /\ d[3] \in TruthLists /\ d \in Returns
<1>1. PICK s \in Nat, l \in TruthLists : d = Digest(s, l)
  BY DEF AnyDigest
<1>2. d[2] = s /\ d[3] = l
  BY <1>1 DEF Digest
<1> QED BY <1>1, <1>2 DEF Returns

\* scope.submitted and story.refined, appended to the story's events.
LEMMA LogStep ==
    ASSUME IInv, NEW e \in Event, e.digest[2] \in DOMAIN sets, DOMAIN sets \subseteq DOMAIN sets',
           log' = Append(log, e)
    PROVE  /\ LogOK' /\ DOMAIN log' = DOMAIN log \cup {Len(log) + 1}
           /\ Len(log) + 1 \in Nat \ DOMAIN log /\ log'[Len(log) + 1] = e
           /\ \A n \in DOMAIN log : log'[n] = log[n] /\ n < Len(log) + 1
<1>1. log \in Seq(Event) /\ Len(log) \in Nat /\ DOMAIN log = 1..Len(log)
      /\ \A n \in DOMAIN log : log[n].digest[2] \in DOMAIN sets
  BY Shown DEF IInv, LogOK
<1>2. /\ log' \in Seq(Event) /\ DOMAIN log' = DOMAIN log \cup {Len(log) + 1}
      /\ Len(log) + 1 \in Nat \ DOMAIN log /\ log'[Len(log) + 1] = e
      /\ \A n \in DOMAIN log : log'[n] = log[n] /\ n < Len(log) + 1
  BY <1>1
<1>3. \A n \in DOMAIN log' : log'[n].digest[2] \in DOMAIN sets'
  BY <1>1, <1>2
<1> QED BY <1>2, <1>3 DEF LogOK

LEMMA ApprovedGiven ==
    ASSUME IInv
    PROVE  Approved \subseteq Given
<1> SUFFICES ASSUME NEW n \in DOMAIN log, log[n].type = "refined"
             PROVE  log[n].given \in Given
  BY DEF Approved
<1>1. log[n] \in Event
  BY Shown
<1> QED BY <1>1 DEF Event

\* story-truths-submit's recording.
LEMMA TruthsRecordOK ==
    ASSUME IInv, NEW c \in Callers, TruthsRecord(c)
    PROVE  IInv'
<1>1. PICK r : r = call[c]
  OBVIOUS
<1>2. PICK o, d : o = r.order /\ d = r.digest
  OBVIOUS
<1>3. /\ o \in DOMAIN orders /\ d \in AnyDigest /\ d[2] \in DOMAIN sets
      /\ UNCHANGED <<sets, entry, truths>>
      /\ log' = Append(log, [type |-> "submitted", digest |-> d])
      /\ orders' = Answered(orders, o, d) /\ Commit(c, {DraftDoc, OrderDoc(o)})
  <2>1. r.op = "truths"
    BY <1>1 DEF TruthsRecord
  <2>2. DraftCall(r)
    BY <1>1, <2>1, Recording
  <2> QED BY <1>1, <1>2, <2>2 DEF TruthsRecord, DraftCall
<1>4. PICK e : e = [type |-> "submitted", digest |-> d]
  OBVIOUS
<1>5. e \in Event /\ e.digest = d /\ e.type = "submitted"
  BY <1>3, <1>4 DEF Event
<1>6. PICK m : m = Len(log) + 1
  OBVIOUS
<1>7. /\ LogOK' /\ DOMAIN log' = DOMAIN log \cup {m} /\ m \notin DOMAIN log /\ log'[m] = e
      /\ \A n \in DOMAIN log : log'[n] = log[n]
  BY <1>3, <1>4, <1>5, <1>6, LogStep
<1>8. Digests' = Digests \cup {d} /\ Approved' = Approved
  BY <1>5, <1>7 DEF Digests, Submissions, Approved
<1>9. /\ orders' \in Seq(OrderShape) /\ Len(orders') = Len(orders)
      /\ DOMAIN orders' = DOMAIN orders
      /\ SameIssue(orders'[o], orders[o]) /\ orders'[o].child = orders[o].child
      /\ orders'[o].released = orders[o].released
      /\ orders'[o].returns = orders[o].returns \cup {d}
      /\ orders'[o].state # "pending"
      /\ \A p \in DOMAIN orders \ {o} : orders'[p] = orders[p]
  <2>1. PICK os, new : os = orders /\ new = orders'
    OBVIOUS
  <2>2. os \in Seq(OrderShape) /\ o \in DOMAIN os /\ d \in Returns /\ new = Answered(os, o, d)
    BY <1>3, <2>1, Shown, DigestIs
  <2> QED BY <2>1, <2>2, AnsweredOK
<1>10. PICK W : W = {DraftDoc, OrderDoc(o)}
  OBVIOUS
<1>11. Writes(W)
  <2>1. \A p \in DOMAIN orders :
          /\ SameIssue(orders'[p], orders[p]) /\ orders'[p].released = orders[p].released
          /\ OrderDoc(p) \notin W => /\ orders'[p].state = orders[p].state
                                     /\ orders'[p].returns = orders[p].returns
    BY <1>9, <1>10 DEF SameIssue
  <2> QED BY <1>3, <1>9, <1>10, <2>1, Shown DEF Writes
<1>12. OrdersOK' /\ OneLiveOrder'
  BY <1>3, <1>8, <1>9, <1>11, ChangeOrder
<1>13. SetsOK' /\ EntryOK' /\ OnlyClosedAbandoned'
  BY <1>3 DEF IInv, SetsOK, EntryOK, OnlyClosedAbandoned, Decided
<1>14. TruthsOK'
  BY <1>3, <1>8 DEF IInv, TruthsOK
<1> QED BY <1>3, <1>7, <1>10, <1>11, <1>12, <1>13, <1>14, RecordKept

\* story-truths-approve's recording.
LEMMA ApproveRecordOK ==
    ASSUME IInv, NEW c \in Callers, ApproveRecord(c)
    PROVE  IInv'
<1>1. PICK r : r = call[c]
  OBVIOUS
<1>2. PICK d, g : d = r.digest /\ g = r.given
  OBVIOUS
<1>3. /\ d \in AnyDigest /\ d[2] \in DOMAIN sets
      /\ g = Versions(truths, d[3]) /\ d[2] = entry.latest /\ Decided(entry.latest)
      /\ UNCHANGED <<orders, sets>>
      /\ log' = Append(log, [type |-> "refined", digest |-> d, given |-> g])
      /\ truths' = Refined(g, truths) /\ entry' = [entry EXCEPT !.refined = d[2]]
      /\ Commit(c, {Roadmap, Backlog, TruthsDoc})
  <2>1. r.op = "approve" /\ ~r.stale
    BY <1>1 DEF ApproveRecord, Recheck
  <2>2. ApproveCall(r)
    BY <1>1, <2>1, Recording
  <2> QED BY <1>1, <1>2, <2>1, <2>2 DEF ApproveRecord, ApproveCall
<1>4. PICK e : e = [type |-> "refined", digest |-> d, given |-> g]
  OBVIOUS
<1>5. TruthsOK /\ d[3] \in TruthLists /\ d[2] \in Nat
  BY <1>3, DigestIs DEF IInv
<1>6. g \in Given
  BY <1>3, <1>5, VersionsOK
<1>7. e \in Event /\ e.digest = d /\ e.type = "refined" /\ e.given = g
  BY <1>3, <1>4, <1>6 DEF Event
<1>8. PICK m : m = Len(log) + 1
  OBVIOUS
<1>9. /\ LogOK' /\ DOMAIN log' = DOMAIN log \cup {m} /\ m \notin DOMAIN log /\ log'[m] = e
      /\ \A n \in DOMAIN log : log'[n] = log[n]
  BY <1>3, <1>4, <1>7, <1>8, LogStep
<1>10. Digests' = Digests /\ Approved' = Approved \cup {g}
  BY <1>7, <1>9 DEF Digests, Submissions, Approved
<1>11. TruthsOK'
  BY <1>3, <1>5, <1>10, ApprovedGiven, RefinedOK
<1>12. PICK W : W = {Roadmap, Backlog, TruthsDoc}
  OBVIOUS
<1>13. Writes(W)
  BY <1>3, <1>12, Shown DEF Writes, SameIssue
<1>14. OrdersOK' /\ SetsOK' /\ OneLiveOrder'
  <2>1. OrdersOK'
    BY <1>3, <1>10 DEF IInv, OrdersOK, OrderOK, Decided
  <2> QED BY <1>3, <2>1 DEF IInv, SetsOK, OneLiveOrder
<1>15. /\ entry' \in [dropped : BOOLEAN, latest : Nat, refined : Nat]
       /\ entry'.latest = entry.latest /\ entry'.refined = d[2] /\ Decided(d[2])'
  BY <1>3, <1>5, Shown DEF Decided
<1>16. EntryOK' /\ OnlyClosedAbandoned'
  BY <1>3, <1>15 DEF IInv, EntryOK, OnlyClosedAbandoned, Decided
<1> QED BY <1>3, <1>9, <1>11, <1>12, <1>13, <1>14, <1>16, RecordKept
\* The calls of one round are one call, in a step.
RoundOfOneCall ==
    \A s \in DOMAIN sets : \A q \in Asked(sets[s]) :
        IF q \in OpenQuestions(sets[s])
        THEN sets'[s].settled[q].how # "open" =>
                 sets'[s].settled[q].round = RoundNumber(sets[s])
        ELSE sets'[s].settled[q] = sets[s].settled[q]

\* What the sets become when a call's answers are recorded in one of them.
LEMMA SettledSets ==
    ASSUME IInv, NEW s \in DOMAIN sets, NEW items, JudgeAnswers(sets[s], items),
           \A q \in DOMAIN items : items[q] \in {"answered", "deferred"},
           NEW round, round = RoundNumber(sets[s]),
           sets' = [sets EXCEPT ![s] = Settle(@, items, round)], UNCHANGED entry
    PROVE  /\ SetsOK' /\ OnlyClosedAbandoned' /\ RoundOfOneCall
           /\ DOMAIN sets' = DOMAIN sets /\ Len(sets') = Len(sets)
           /\ \A t \in DOMAIN sets :
                /\ OpenQuestions(sets'[t]) \subseteq OpenQuestions(sets[t])
                /\ t # s => sets'[t] = sets[t]
           /\ OpenQuestions(sets'[s]) = OpenQuestions(sets[s]) \ DOMAIN items
           /\ ~sets[s].abandoned
<1>1. PICK old, new : old = sets[s] /\ new = Settle(old, items, RoundNumber(old))
  OBVIOUS
<1>2. old \in SetShape /\ SetOK(old) /\ JudgeAnswers(old, items)
  BY <1>1, Shown
<1>3. /\ new \in SetShape /\ SetOK(new)
      /\ new.abandoned = old.abandoned /\ Asked(new) = Asked(old)
      /\ OpenQuestions(new) = OpenQuestions(old) \ DOMAIN items
      /\ \A q \in Asked(old) :
           new.settled[q] = IF q \in DOMAIN items
                            THEN [how |-> items[q], round |-> RoundNumber(old)]
                            ELSE old.settled[q]
  BY <1>1, <1>2, SettleOK
<1>4. /\ sets' \in Seq(SetShape) /\ DOMAIN sets' = DOMAIN sets /\ Len(sets') = Len(sets)
      /\ sets'[s] = new /\ \A t \in DOMAIN sets \ {s} : sets'[t] = sets[t]
  <2>1. sets' = [sets EXCEPT ![s] = new]
    BY <1>1
  <2> QED BY <1>3, <2>1, Shown
<1>5. SetsOK'
  <2>1. \A t \in DOMAIN sets : SetOK(sets'[t])
    BY <1>3, <1>4, Shown
  <2> QED BY <1>4, <2>1 DEF SetsOK
<1>6. ~old.abandoned /\ s = entry.latest
  BY <1>1, <1>2 DEF IInv, OnlyClosedAbandoned, JudgeAnswers
<1>7. \A t \in DOMAIN sets : /\ sets[t].abandoned <=> t # entry.latest
                             /\ sets[t].abandoned => OpenQuestions(sets[t]) = {}
  BY DEF IInv, OnlyClosedAbandoned
<1>8. OnlyClosedAbandoned'
  <2> SUFFICES ASSUME NEW t \in DOMAIN sets
               PROVE  /\ sets'[t].abandoned <=> t # entry.latest
                      /\ sets'[t].abandoned => OpenQuestions(sets'[t]) = {}
    BY <1>4 DEF OnlyClosedAbandoned
  <2>1. CASE t = s
    BY <1>1, <1>3, <1>4, <1>6, <2>1
  <2>2. CASE t # s
    BY <1>4, <1>7, <2>2
  <2> QED BY <2>1, <2>2
<1>9. RoundOfOneCall
  <2> SUFFICES ASSUME NEW t \in DOMAIN sets, NEW q \in Asked(sets[t])
               PROVE  IF q \in OpenQuestions(sets[t])
                      THEN sets'[t].settled[q].how # "open" =>
                               sets'[t].settled[q].round = RoundNumber(sets[t])
                      ELSE sets'[t].settled[q] = sets[t].settled[q]
    BY DEF RoundOfOneCall
  <2>1. CASE t = s
    <3>1. q \in Asked(old) /\ sets[t] = old /\ sets'[t] = new
      BY <1>1, <1>4, <2>1
    <3>2. DOMAIN items \subseteq OpenQuestions(old)
      BY <1>2 DEF JudgeAnswers
    <3>3. CASE q \in DOMAIN items
      <4>1. new.settled[q] = [how |-> items[q], round |-> RoundNumber(old)]
        BY <1>3, <3>1, <3>3
      <4> QED BY <3>1, <3>2, <3>3, <4>1
    <3>4. CASE q \notin DOMAIN items
      <4>1. new.settled[q] = old.settled[q]
        BY <1>3, <3>1, <3>4
      <4> QED BY <3>1, <4>1 DEF OpenQuestions
    <3> QED BY <3>3, <3>4
  <2>2. CASE t # s
    BY <1>4, <2>2 DEF OpenQuestions
  <2> QED BY <2>1, <2>2
<1>10. \A t \in DOMAIN sets : /\ OpenQuestions(sets'[t]) \subseteq OpenQuestions(sets[t])
                              /\ t # s => sets'[t] = sets[t]
  <2> SUFFICES ASSUME NEW t \in DOMAIN sets
               PROVE  /\ OpenQuestions(sets'[t]) \subseteq OpenQuestions(sets[t])
                      /\ t # s => sets'[t] = sets[t]
    OBVIOUS
  <2>1. CASE t = s
    BY <1>1, <1>3, <1>4, <2>1
  <2>2. CASE t # s
    BY <1>4, <2>2
  <2> QED BY <2>1, <2>2
<1> QED BY <1>1, <1>3, <1>4, <1>5, <1>6, <1>8, <1>9, <1>10

\* questions-answer's recording, which closing the set may issue the order of.
LEMMA AnswerRecordOK ==
    ASSUME IInv, NEW c \in Callers, AnswerRecord(c)
    PROVE  /\ IInv' /\ RoundOfOneCall
           /\ call[c].due => Pending(orders') # {}
<1>1. PICK r : r = call[c]
  OBVIOUS
<1>2. PICK s, items : s = r.set /\ items = r.items
  OBVIOUS
<1>3. r.op = "answer" /\ ~r.stale
  BY <1>1 DEF AnswerRecord, Recheck
<1>4. AnswerCall(r)
  BY <1>1, <1>3, Recording
<1>5. /\ s \in DOMAIN sets /\ r.issues \in BOOLEAN /\ r.due \in BOOLEAN
      /\ \A q \in DOMAIN items : items[q] \in {"answered", "deferred"}
      /\ JudgeAnswers(sets[s], items) /\ r.round = RoundNumber(sets[s])
      /\ r.issues => r.due
      /\ r.due => Closes(sets[s], items)
      /\ r.due /\ ~r.issues => \E o \in DOMAIN orders : orders[o].state = "pending"
  BY <1>2, <1>3, <1>4 DEF AnswerCall
<1>6. /\ r.issues => NonePending
      /\ sets' = [sets EXCEPT ![s] = Settle(@, items, r.round)]
      /\ r.issues => orders' = Issued(orders, "drafting", s, NoOrder)
      /\ ~r.issues => orders' = orders
      /\ Commit(c, {SetDoc(s)} \cup (IF r.issues THEN {OrderDoc(Len(orders) + 1)} ELSE {}))
      /\ UNCHANGED <<entry, log, truths>>
  BY <1>1, <1>2, <1>5 DEF AnswerRecord
<1>7. /\ SetsOK' /\ OnlyClosedAbandoned' /\ RoundOfOneCall
      /\ DOMAIN sets' = DOMAIN sets /\ Len(sets') = Len(sets)
      /\ \A t \in DOMAIN sets :
           /\ OpenQuestions(sets'[t]) \subseteq OpenQuestions(sets[t])
           /\ t # s => sets'[t] = sets[t]
      /\ OpenQuestions(sets'[s]) = OpenQuestions(sets[s]) \ DOMAIN items
  <2>1. PICK round : round = r.round
    OBVIOUS
  <2> QED BY <1>5, <1>6, <2>1, SettledSets
<1>8. PICK W : W = {SetDoc(s)} \cup (IF r.issues THEN {OrderDoc(Len(orders) + 1)} ELSE {})
  OBVIOUS
<1>9. s \in 0..Len(sets') /\ s \in Nat /\ 0 \in 0..Len(orders) /\ 0 \in Nat
  BY <1>5, <1>7, Shown
<1>10. r.issues => /\ OneMore(orders, orders', "drafting", s, 0)
                   /\ DOMAIN orders \subseteq DOMAIN orders'
                   /\ \A o \in DOMAIN orders :
                        /\ SameIssue(orders'[o], orders[o])
                        /\ orders'[o].state = orders[o].state
                        /\ orders'[o].returns = orders[o].returns
                        /\ orders'[o].released = orders[o].released
  BY <1>6, <1>9, IssueDocs DEF NoOrder
<1>11. Writes(W)
  <2>1. /\ DOMAIN orders \subseteq DOMAIN orders'
        /\ \A o \in DOMAIN orders :
             /\ SameIssue(orders'[o], orders[o])
             /\ orders'[o].state = orders[o].state
             /\ orders'[o].returns = orders[o].returns
             /\ orders'[o].released = orders[o].released
    BY <1>5, <1>6, <1>10 DEF SameIssue
  <2>2. \A t \in DOMAIN sets : /\ OpenQuestions(sets'[t]) \subseteq OpenQuestions(sets[t])
                               /\ SetDoc(t) \notin W => sets'[t] = sets[t]
    BY <1>7, <1>8
  <2> QED BY <1>6, <1>7, <2>1, <2>2, Shown DEF Writes
<1>12. Digests' = Digests /\ LogOK' /\ TruthsOK' /\ EntryOK'
  <2>1. Digests' = Digests
    BY <1>6 DEF Digests, Submissions
  <2>2. LogOK' /\ TruthsOK'
    BY <1>6, <1>7 DEF IInv, LogOK, TruthsOK, Approved
  <2>3. PICK x : x = entry.refined
    OBVIOUS
  <2>4. x # NoSet => Decided(x)'
    BY <1>11, <2>3, DecidedStays DEF IInv, EntryOK
  <2> QED BY <1>6, <1>7, <2>1, <2>2, <2>3, <2>4 DEF IInv, EntryOK, Decided
<1>13. CASE r.issues
  <2>1. Decided(s)'
    BY <1>5, <1>7, <1>13 DEF Decided, Closes
  <2>2. PICK mid : mid = orders
    OBVIOUS
  <2>3. mid \in Seq(OrderShape) /\ DOMAIN mid = DOMAIN orders /\ Len(mid) = Len(orders)
        /\ Pending(mid) = {} /\ OneMore(mid, orders', "drafting", s, 0)
    BY <1>6, <1>10, <1>13, <2>2, Shown DEF NonePending
  <2>4. OrdersOK' /\ OneLiveOrder' /\ Pending(orders') # {}
    <3>1. ("drafting" = "drafting" => Decided(s))'
      BY <2>1
    <3> QED BY <1>9, <1>11, <1>12, <2>2, <2>3, <3>1, IssueAfter
  <2> QED BY <1>1, <1>6, <1>7, <1>8, <1>11, <1>12, <2>4, RecordKept
<1>14. CASE ~r.issues
  <2>1. orders' = orders
    BY <1>6, <1>14
  <2>2. r.due => Pending(orders') # {}
    BY <1>5, <1>14, <2>1 DEF Pending
  <2>3. OneLiveOrder'
    BY <2>1 DEF IInv, OneLiveOrder
  <2>4. OrdersOK'
    <3>1. \A o \in DOMAIN orders : OrderOK(orders[o]) /\ orders[o] \in OrderShape
      BY Shown
    <3>2. PICK D : D = DOMAIN orders
      OBVIOUS
    <3>3. \A o \in DOMAIN orders' \ D : OrderOK(orders[o])'
      BY <2>1, <3>2
    <3>4. Len(orders) <= Len(orders')
      BY <2>1, Shown
    <3>5. orders' \in Seq(OrderShape)
      BY <2>1, Shown
    <3>6. \A o \in D : orders'[o].child \in 0..Len(orders')
      BY <2>1, <3>1, <3>2 DEF OrderOK
    <3> QED BY <1>11, <1>12, <2>1, <3>2, <3>3, <3>4, <3>5, <3>6, OrdersStep
  <2> QED BY <1>1, <1>6, <1>7, <1>8, <1>11, <1>12, <2>2, <2>3, <2>4, RecordKept
<1> QED BY <1>5, <1>13, <1>14
\* questions.abandoned.
LEMMA AbandonedOK ==
    ASSUME NEW set \in SetShape, SetOK(set), NEW new, new = [set EXCEPT !.abandoned = TRUE]
    PROVE  /\ new \in SetShape /\ SetOK(new) /\ new.abandoned = TRUE
           /\ OpenQuestions(new) = OpenQuestions(set)
           /\ Asked(new) = Asked(set) /\ new.settled = set.settled
<1>1. PICK d \in Shapes :
        set \in [deps : {d}, settled : [DOMAIN d -> Settlement], abandoned : BOOLEAN]
  BY DEF SetShape
<1>2. /\ new \in [deps : {d}, settled : [DOMAIN d -> Settlement], abandoned : BOOLEAN]
      /\ new.abandoned = TRUE /\ new.settled = set.settled /\ new.deps = set.deps
  BY <1>1
<1>3. new \in SetShape
  BY <1>2 DEF SetShape
<1>4. /\ Asked(new) = Asked(set) /\ OpenQuestions(new) = OpenQuestions(set)
      /\ AnsweredQuestions(new) = AnsweredQuestions(set) /\ Rounds(new) = Rounds(set)
  BY <1>2 DEF Asked, OpenQuestions, AnsweredQuestions, Rounds
<1>5. SetOK(new)
  BY <1>2, <1>4 DEF SetOK, InOrder
<1> QED BY <1>2, <1>3, <1>4, <1>5

\* What the sets become when another is opened: those before it are the same
\* but for the latest, which is abandoned.
OpenedAs(deps, latest, new) ==
    /\ SetsOK' /\ OnlyClosedAbandoned' /\ new \in Nat \ DOMAIN sets
    /\ DOMAIN sets' = DOMAIN sets \cup {new} /\ Len(sets') = new
    /\ \A t \in DOMAIN sets :
         /\ OpenQuestions(sets'[t]) = OpenQuestions(sets[t])
         /\ sets'[t].settled = sets[t].settled
         /\ t # latest => sets'[t] = sets[t]
    /\ sets'[new] = OpenedSet(deps) /\ OpenQuestions(sets'[new]) = DOMAIN deps
    /\ entry'.latest = new /\ entry'.refined = entry.refined
    /\ entry' \in [dropped : BOOLEAN, latest : Nat, refined : Nat]

LEMMA OpenedSets ==
    ASSUME IInv, NEW deps \in Shapes, JudgeSet(deps),
           NEW latest, latest = entry.latest, latest # NoSet => Decided(latest),
           sets' = Append([s \in DOMAIN sets |->
                              IF s = latest THEN [sets[s] EXCEPT !.abandoned = TRUE] ELSE sets[s]],
                          OpenedSet(deps)),
           NEW new, new = Len(sets) + 1, entry' = [entry EXCEPT !.latest = new]
    PROVE  OpenedAs(deps, latest, new)
<1>1. /\ sets \in Seq(SetShape) /\ Len(sets) \in Nat /\ DOMAIN sets = 1..Len(sets)
      /\ \A s \in DOMAIN sets : sets[s] \in SetShape /\ SetOK(sets[s])
      /\ entry \in [dropped : BOOLEAN, latest : Nat, refined : Nat]
  BY Shown
<1>2. PICK old : old = [s \in DOMAIN sets |->
                    IF s = latest THEN [sets[s] EXCEPT !.abandoned = TRUE] ELSE sets[s]]
  OBVIOUS
<1>3. ASSUME NEW s \in DOMAIN sets
      PROVE  /\ old[s] \in SetShape /\ SetOK(old[s])
             /\ old[s].settled = sets[s].settled
             /\ OpenQuestions(old[s]) = OpenQuestions(sets[s])
             /\ s = latest => old[s].abandoned = TRUE
             /\ s # latest => old[s] = sets[s]
  <2>1. CASE s = latest
    <3>1. PICK set, e : set = sets[s] /\ e = [set EXCEPT !.abandoned = TRUE]
      OBVIOUS
    <3>2. old[s] = e /\ set \in SetShape /\ SetOK(set)
      BY <1>1, <1>2, <2>1, <3>1
    <3>3. /\ e \in SetShape /\ SetOK(e) /\ e.abandoned = TRUE
          /\ OpenQuestions(e) = OpenQuestions(set) /\ e.settled = set.settled
      BY <3>1, <3>2, AbandonedOK
    <3> QED BY <2>1, <3>1, <3>2, <3>3
  <2>2. CASE s # latest
    BY <1>1, <1>2, <2>2
  <2> QED BY <2>1, <2>2
<1>4. PICK last : last = OpenedSet(deps)
  OBVIOUS
<1>5. /\ last \in SetShape /\ SetOK(last) /\ OpenQuestions(last) = DOMAIN deps
      /\ last.abandoned = FALSE
  BY <1>4, OpenedOK
<1>6. old \in Seq(SetShape) /\ Len(old) = Len(sets) /\ DOMAIN old = DOMAIN sets
  <2>1. PICK n \in Nat : n = Len(sets)
    BY <1>1
  <2>2. DOMAIN old = 1..n /\ \A s \in 1..n : old[s] \in SetShape
    BY <1>1, <1>2, <1>3, <2>1
  <2>3. old = [s \in 1..n |-> old[s]]
    BY <1>2, <2>2
  <2>4. old \in Seq(SetShape) /\ Len(old) = n
    BY <2>2, <2>3, SMTT(30)
  <2> QED BY <1>1, <2>1, <2>2, <2>4
<1>7. /\ sets' \in Seq(SetShape) /\ DOMAIN sets' = DOMAIN sets \cup {new} /\ Len(sets') = new
      /\ new \in Nat \ DOMAIN sets /\ sets'[new] = last
      /\ \A t \in DOMAIN sets : sets'[t] = old[t]
  <2>1. sets' = Append(old, last)
    BY <1>2, <1>4
  <2>2. PICK ss, n : ss = sets' /\ n = Len(sets)
    OBVIOUS
  <2>3. /\ old \in Seq(SetShape) /\ Len(old) = n /\ n \in Nat /\ DOMAIN old = 1..n
        /\ last \in SetShape /\ ss = Append(old, last)
    BY <1>1, <1>5, <1>6, <2>1, <2>2
  <2>4. /\ ss \in Seq(SetShape) /\ Len(ss) = n + 1 /\ DOMAIN ss = 1..(n + 1)
        /\ ss[n + 1] = last /\ \A t \in 1..n : ss[t] = old[t]
    BY ONLY <2>3
  <2> QED BY <1>1, <1>6, <2>2, <2>3, <2>4
<1>8. SetsOK'
  <2>1. \A t \in DOMAIN sets' : SetOK(sets'[t])
    BY <1>3, <1>5, <1>7
  <2> QED BY <1>7, <2>1 DEF SetsOK
<1>9. /\ entry'.latest = new /\ entry'.refined = entry.refined
      /\ entry'.dropped = entry.dropped
      /\ entry' \in [dropped : BOOLEAN, latest : Nat, refined : Nat]
  BY <1>1, <1>7
<1>10. OnlyClosedAbandoned'
  <2> SUFFICES ASSUME NEW t \in DOMAIN sets'
               PROVE  /\ sets'[t].abandoned <=> t # new
                      /\ sets'[t].abandoned => OpenQuestions(sets'[t]) = {}
    BY <1>9 DEF OnlyClosedAbandoned
  <2>1. CASE t = new
    BY <1>5, <1>7, <2>1
  <2>2. CASE t \in DOMAIN sets /\ t = latest
    <3>1. sets'[t].abandoned = TRUE /\ OpenQuestions(sets'[t]) = OpenQuestions(sets[t])
      BY <1>3, <1>7, <2>2
    <3>2. OpenQuestions(sets[t]) = {} /\ t # new
      BY <1>1, <1>7, <2>2 DEF Decided, NoSet
    <3> QED BY <3>1, <3>2
  <2>3. CASE t \in DOMAIN sets /\ t # latest
    <3>1. /\ sets[t].abandoned <=> t # entry.latest
          /\ sets[t].abandoned => OpenQuestions(sets[t]) = {}
      BY <2>3 DEF IInv, OnlyClosedAbandoned
    <3>2. sets'[t] = sets[t] /\ t # new
      BY <1>3, <1>7, <2>3
    <3> QED BY <2>3, <3>1, <3>2
  <2> QED BY <1>7, <2>1, <2>2, <2>3
<1> QED BY <1>3, <1>4, <1>5, <1>7, <1>8, <1>9, <1>10 DEF OpenedAs

\* What story-questions-submit's recording rests on, and makes of the sets.
LEMMA QuestionsRecordSets ==
    ASSUME IInv, NEW c \in Callers, QuestionsRecord(c),
           NEW r, r = call[c], NEW l, l = r.latest, NEW new, new = Len(sets) + 1
    PROVE  /\ r.op = "questions" /\ QuestionsCall(r) /\ ~r.stale /\ l = entry.latest
           /\ (l # NoSet => Decided(l)) /\ r.deps \in Shapes /\ JudgeSet(r.deps)
           /\ OpenedAs(r.deps, l, new)
<1>1. r.op = "questions" /\ ~r.stale
  BY DEF QuestionsRecord, Recheck
<1>2. QuestionsCall(r)
  BY <1>1, Recording
<1>3. r.deps \in Shapes /\ JudgeSet(r.deps) /\ l = entry.latest /\ (l # NoSet => Decided(l))
  BY <1>1, <1>2 DEF QuestionsCall
<1>4. /\ sets' = Append([s \in DOMAIN sets |->
                            IF s = l THEN [sets[s] EXCEPT !.abandoned = TRUE] ELSE sets[s]],
                        OpenedSet(r.deps))
      /\ entry' = [entry EXCEPT !.latest = new]
  BY DEF QuestionsRecord
<1>5. PICK deps : deps = r.deps
  OBVIOUS
<1>6. OpenedAs(deps, l, new)
  BY <1>3, <1>4, <1>5, OpenedSets
<1> QED BY <1>1, <1>2, <1>3, <1>5, <1>6

\* story-questions-submit's recording, which an empty set may issue an order of.
LEMMA QuestionsRecordOK ==
    ASSUME IInv, NEW c \in Callers, QuestionsRecord(c)
    PROVE  IInv'
<1>1. PICK r, new : r = call[c] /\ new = Len(sets) + 1
  OBVIOUS
<1>2. PICK o, l : o = r.order /\ l = r.latest
  OBVIOUS
<1>4. /\ QuestionsCall(r) /\ ~r.stale
      /\ SetsOK' /\ OnlyClosedAbandoned' /\ new \in Nat \ DOMAIN sets
      /\ DOMAIN sets' = DOMAIN sets \cup {new} /\ Len(sets') = new
      /\ \A t \in DOMAIN sets :
           /\ OpenQuestions(sets'[t]) = OpenQuestions(sets[t])
           /\ t # l => sets'[t] = sets[t]
      /\ OpenQuestions(sets'[new]) = DOMAIN r.deps
      /\ entry'.latest = new /\ entry'.refined = entry.refined
      /\ entry' \in [dropped : BOOLEAN, latest : Nat, refined : Nat]
  <2>1. QuestionsCall(r) /\ ~r.stale /\ OpenedAs(r.deps, l, new)
    BY <1>1, <1>2, QuestionsRecordSets
  <2> QED BY <2>1 DEF OpenedAs
<1>5. /\ r.issues \in BOOLEAN /\ r.pending \in BOOLEAN
      /\ r.deps \in Shapes /\ JudgeSet(r.deps) /\ o \in DOMAIN orders
      /\ r.issues => DOMAIN r.deps = {}
      /\ l = entry.latest /\ (l # NoSet => Decided(l))
      /\ r.issues /\ r.pending => orders[o].state = "pending"
  BY <1>2, <1>4 DEF QuestionsCall
<1>6. PICK mid : mid = Answered(orders, o, SetDoc(new))
  OBVIOUS
<1>7. /\ r.issues /\ ~r.pending => NonePending
      /\ r.issues => orders' = Issued(mid, "drafting", new, NoOrder)
      /\ ~r.issues => orders' = mid
      /\ Commit(c, {Backlog, SetDoc(new), SetDoc(l), OrderDoc(o)}
                   \cup (IF r.issues THEN {OrderDoc(Len(orders) + 1)} ELSE {}))
      /\ UNCHANGED <<log, truths>>
  BY <1>1, <1>2, <1>5, <1>6 DEF QuestionsRecord
<1>9. /\ mid \in Seq(OrderShape) /\ Len(mid) = Len(orders) /\ DOMAIN mid = DOMAIN orders
      /\ SameIssue(mid[o], orders[o]) /\ mid[o].child = orders[o].child
      /\ mid[o].released = orders[o].released
      /\ mid[o].returns = orders[o].returns \cup {SetDoc(new)}
      /\ mid[o].state # "pending"
      /\ \A p \in DOMAIN orders \ {o} : mid[p] = orders[p]
  <2>1. PICK os, return : os = orders /\ return = SetDoc(new)
    OBVIOUS
  <2>2. /\ os \in Seq(OrderShape) /\ o \in DOMAIN os /\ return \in Returns
        /\ mid = Answered(os, o, return)
    BY <1>5, <1>6, <1>4, <2>1, Shown DEF Returns
  <2> QED BY <2>1, <2>2, AnsweredOK
<1>10. PICK W : W = {Backlog, SetDoc(new), SetDoc(l), OrderDoc(o)}
                    \cup (IF r.issues THEN {OrderDoc(Len(orders) + 1)} ELSE {})
  OBVIOUS
<1>11. \A p \in DOMAIN orders :
          /\ SameIssue(mid[p], orders[p]) /\ mid[p].released = orders[p].released
          /\ mid[p].child = orders[p].child
          /\ mid[p].returns \subseteq
               orders[p].returns \cup {SetDoc(s) : s \in DOMAIN sets'} \cup Digests'
          /\ mid[p].state = "pending" => orders[p].state = "pending"
          /\ OrderDoc(p) \notin W => /\ mid[p].state = orders[p].state
                                     /\ mid[p].returns = orders[p].returns
  <2> SUFFICES ASSUME NEW p \in DOMAIN orders
               PROVE  /\ SameIssue(mid[p], orders[p]) /\ mid[p].released = orders[p].released
                      /\ mid[p].child = orders[p].child
                      /\ mid[p].returns \subseteq
                           orders[p].returns \cup {SetDoc(s) : s \in DOMAIN sets'} \cup Digests'
                      /\ mid[p].state = "pending" => orders[p].state = "pending"
                      /\ OrderDoc(p) \notin W => /\ mid[p].state = orders[p].state
                                                 /\ mid[p].returns = orders[p].returns
    OBVIOUS
  <2>1. CASE p = o
    BY <1>4, <1>9, <1>10, <2>1
  <2>2. CASE p # o
    <3>1. mid[p] = orders[p]
      BY <1>9, <2>2
    <3> QED BY <3>1 DEF SameIssue
  <2> QED BY <2>1, <2>2
<1>12. Writes(W)
       /\ (r.issues => OneMore(mid, orders', "drafting", new, 0))
  <2>1. r.issues => OneMore(mid, orders', "drafting", new, 0)
    <3>1. PICK os : os = orders'
      OBVIOUS
    <3>2. mid \in Seq(OrderShape) /\ "drafting" \in {"questions", "drafting"} /\ new \in Nat
          /\ 0 \in Nat /\ (r.issues => os = Issued(mid, "drafting", new, 0))
      BY <1>7, <1>4, <1>9, <3>1 DEF NoOrder
    <3> QED BY <3>1, <3>2, IssuedOK
  <2>2. /\ DOMAIN orders \subseteq DOMAIN orders'
        /\ \A p \in DOMAIN orders :
             /\ SameIssue(orders'[p], mid[p]) /\ orders'[p].released = mid[p].released
             /\ orders'[p].state = mid[p].state /\ orders'[p].returns = mid[p].returns
    <3>1. CASE r.issues
      BY <1>9, <2>1, <3>1 DEF OneMore
    <3>2. CASE ~r.issues
      BY <1>7, <1>9, <3>2 DEF SameIssue
    <3> QED BY <3>1, <3>2
  <2>3. \A p \in DOMAIN orders :
          /\ SameIssue(orders'[p], orders[p]) /\ orders'[p].released = orders[p].released
          /\ OrderDoc(p) \notin W => /\ orders'[p].state = orders[p].state
                                     /\ orders'[p].returns = orders[p].returns
    BY <1>11, <2>2 DEF SameIssue
  <2>4. \A t \in DOMAIN sets : /\ OpenQuestions(sets'[t]) \subseteq OpenQuestions(sets[t])
                               /\ SetDoc(t) \notin W => sets'[t] = sets[t]
    BY <1>4, <1>10
  <2>5. Len(sets) <= Len(sets') /\ DOMAIN sets \subseteq DOMAIN sets' /\ Backlog \in W
    BY <1>1, <1>4, <1>10, Shown
  <2> QED BY <1>7, <2>1, <2>2, <2>3, <2>4, <2>5 DEF Writes
<1>13. Digests' = Digests /\ LogOK' /\ TruthsOK' /\ EntryOK'
  <2>1. Digests' = Digests
    BY <1>7 DEF Digests, Submissions
  <2>2. LogOK' /\ TruthsOK'
    BY <1>7, <1>4 DEF IInv, LogOK, TruthsOK, Approved
  <2>3. PICK x : x = entry.refined
    OBVIOUS
  <2>4. x # NoSet => Decided(x)'
    BY <1>12, <2>3, DecidedStays DEF IInv, EntryOK
  <2> QED BY <1>4, <2>1, <2>2, <2>3, <2>4 DEF EntryOK, Decided
<1>14. OrdersOK' /\ OneLiveOrder'
  <2>1. CASE r.issues
    <3>1. Pending(mid) = {}
      <4>1. ASSUME NEW p \in Pending(mid) PROVE FALSE
        <5>1. p \in Pending(orders) /\ p # o
          BY <1>9, <1>11 DEF Pending
        <5>2. r.pending
          BY <1>5, <1>7, <2>1, <5>1 DEF NonePending
        <5>3. o \in Pending(orders)
          BY <1>5, <2>1, <5>2 DEF Pending
        <5> QED BY <5>1, <5>3 DEF IInv, OneLiveOrder
      <4> QED BY <4>1
    <3>2. ("drafting" = "drafting" => Decided(new))'
      BY <1>5, <1>4, <2>1 DEF Decided
    <3>3. new \in 0..Len(sets') /\ 0 \in 0..Len(orders)
      BY <1>4, Shown
    <3>4. OneMore(mid, orders', "drafting", new, 0)
      BY <1>12, <2>1
    <3> QED BY <1>9, <1>11, <1>12, <1>13, <3>1, <3>2, <3>3, <3>4, IssueAfter
  <2>2. CASE ~r.issues
    <3>1. orders' = mid
      BY <1>7, <2>2
    <3> QED BY <1>5, <1>9, <1>11, <1>12, <1>13, <3>1, ChangeOrder
  <2> QED BY <1>5, <2>1, <2>2
<1> QED BY <1>1, <1>2, <1>7, <1>4, <1>10, <1>12, <1>13, <1>14, RecordKept

-----------------------------------------------------------------------------
(* Each check makes a call that may record *)

\* What a call relies on depends on the documents only.
LEMMA SameDocs ==
    ASSUME IInv, UNCHANGED <<orders, sets, entry, log, truths>>, NEW t, CallOK(t)
    PROVE  CallOK(t)'
<1>1. PICK W : W = {}
  OBVIOUS
<1>2. Writes(W)
  BY <1>1, Shown DEF Writes, SameIssue
<1>3. t = Seen(t, W)
  BY <1>1 DEF Seen
<1>4. Len(sets) \in Nat /\ Len(sets') \in Nat /\ Parents
  BY Shown
<1> QED BY <1>2, <1>3, <1>4, CallSeen

\* A step of a call that leaves the documents.
LEMMA CallStep ==
    ASSUME IInv, UNCHANGED <<orders, sets, entry, log, truths>>,
           NEW c \in Callers, NEW r, CallOK(r), call' = [call EXCEPT ![c] = r]
    PROVE  IInv'
<1>4. DOMAIN call' = Callers /\ \A d \in Callers : CallOK(call[d])'
  <2>1. DOMAIN call = Callers /\ \A d \in Callers : CallOK(call[d])
    BY DEF IInv
  <2>2. ASSUME NEW d \in Callers PROVE CallOK(call[d])'
    <3>1. PICK t : t = call'[d]
      OBVIOUS
    <3>2. CallOK(t)
      BY <2>1, <3>1
    <3>3. CallOK(t)'
      BY <3>2, SameDocs
    <3> QED BY <3>1, <3>3
  <2> QED BY <2>1, <2>2
<1>5. OrdersOK' /\ OneLiveOrder'
  <2>1. Digests' = Digests
    BY RestKept
  <2> QED BY <2>1 DEF IInv, OrdersOK, OrderOK, Decided, OneLiveOrder
<1> QED BY <1>4, <1>5, RestKept DEF IInv

LEMMA EndCallOK ==
    ASSUME IInv, NEW c \in Callers, EndCall(c)
    PROVE  IInv'
<1>1. PICK r : r = Idle
  OBVIOUS
<1> QED BY <1>1, CallStep DEF EndCall, CallOK

\* The inputs a new order is prepared from are observed too.
LEMMA PrepareOK ==
    ASSUME IInv, NEW c \in Callers, Prepare(c)
    PROVE  IInv'
<1>1. PICK r, t : r = call[c] /\ t = [r EXCEPT !.obs = @ \cup {Roadmap, TruthsDoc},
                                               !.prepared = TRUE]
  OBVIOUS
<1>2. /\ r # Idle /\ CallOK(r) /\ call' = [call EXCEPT ![c] = t]
      /\ UNCHANGED <<orders, sets, entry, log, truths>>
  BY <1>1 DEF Prepare, IInv
<1>3. /\ DOMAIN t = DOMAIN r /\ \A f \in DOMAIN r : f \notin {"obs", "prepared"} => t[f] = r[f]
      /\ "obs" \in DOMAIN r => t.obs = r.obs \cup {Roadmap, TruthsDoc}
  BY <1>1
<1>4. CallOK(t)
  <2>1. CASE RefineCall(r)
    <3>1. RefineCall(t)
      BY <1>3, <2>1 DEF RefineCall, Reads
    <3> QED BY <3>1 DEF CallOK
  <2>2. CASE QuestionsCall(r)
    <3>1. QuestionsCall(t)
      BY <1>3, <2>2 DEF QuestionsCall, Reads
    <3> QED BY <3>1 DEF CallOK
  <2>3. CASE AnswerCall(r)
    <3>1. /\ Reads(t, "answer", {"issues", "due", "set", "items", "round"})
          /\ t.issues = r.issues /\ t.due = r.due /\ t.set = r.set /\ t.items = r.items
          /\ t.round = r.round /\ r.obs \subseteq t.obs /\ t.stale = r.stale
      BY <1>3, <2>3 DEF AnswerCall, Reads
    <3>2. t.due /\ ~t.issues =>
            \E o \in DOMAIN orders :
               OrderDoc(o) \in t.obs /\ (~t.stale => orders[o].state = "pending")
      BY <2>3, <3>1 DEF AnswerCall
    <3>3. AnswerCall(t)
      BY <2>3, <3>1, <3>2 DEF AnswerCall
    <3> QED BY <3>3 DEF CallOK
  <2>4. CASE DraftCall(r)
    <3>1. DraftCall(t)
      BY <1>3, <2>4 DEF DraftCall, Reads
    <3> QED BY <3>1 DEF CallOK
  <2>5. CASE ApproveCall(r)
    <3>1. ApproveCall(t)
      BY <1>3, <2>5 DEF ApproveCall, Reads
    <3> QED BY <3>1 DEF CallOK
  <2>6. CASE FailCall(r)
    <3>1. FailCall(t)
      BY <1>3, <2>6 DEF FailCall, Reads
    <3> QED BY <3>1 DEF CallOK
  <2>7. CASE RetryCall(r)
    <3>1. RetryCall(t)
      BY <1>3, <2>7 DEF RetryCall, Reads
    <3> QED BY <3>1 DEF CallOK
  <2> QED BY <1>2, <2>1, <2>2, <2>3, <2>4, <2>5, <2>6, <2>7 DEF CallOK
<1> QED BY <1>2, <1>4, CallStep
LEMMA RefineCheckOK ==
    ASSUME IInv, NEW c \in Callers, RefineCheck(c)
    PROVE  IInv'
<1>1. PICK k, s, docs :
        /\ k = IF State = "drafting" THEN "drafting" ELSE "questions"
        /\ s = IF State = "drafting" THEN entry.latest ELSE NoSet
        /\ docs = {Roadmap, Backlog} \cup LatestDoc
  OBVIOUS
<1>2. PICK r : r = [op |-> "refine", obs |-> docs, stale |-> FALSE, issues |-> TRUE,
                    prepared |-> FALSE, kind |-> k, set |-> s]
  OBVIOUS
<1>3. ~LatestOpen /\ UNCHANGED <<orders, sets, entry, log, truths>>
      /\ call' = [call EXCEPT ![c] = r]
  BY <1>1, <1>2 DEF RefineCheck, Begin
<1>4. /\ k \in {"questions", "drafting"} /\ s \in 0..Len(sets)
      /\ k = "drafting" => Decided(s)
  <2>1. CASE State = "drafting"
    <3>1. s = entry.latest /\ s # NoSet
      BY <1>1, <2>1 DEF State
    <3> QED BY <1>1, <1>3, <2>1, <3>1, LatestDecided, Shown
  <2>2. CASE State # "drafting"
    BY <1>1, <2>2, Shown DEF NoSet
  <2> QED BY <2>1, <2>2
<1>5. RefineCall(r)
  BY <1>2, <1>4 DEF RefineCall, Reads
<1> QED BY <1>3, <1>5, CallStep DEF CallOK

LEMMA QuestionsCheckOK ==
    ASSUME IInv, NEW c \in Callers, NEW o \in DOMAIN orders, NEW deps \in Shapes,
           QuestionsCheck(c, o, deps)
    PROVE  IInv'
<1>1. PICK drafting, pending, l : /\ drafting = Drafts(o, deps)
                                  /\ pending = (orders[o].state = "pending")
                                  /\ l = entry.latest
  OBVIOUS
<1>2. PICK docs : docs = {Roadmap, Backlog} \cup LatestDoc
                         \cup (IF drafting /\ pending THEN {OrderDoc(o)} ELSE {})
  OBVIOUS
<1>3. PICK r : r = [op |-> "questions", obs |-> docs, stale |-> FALSE, issues |-> drafting,
                    prepared |-> FALSE, order |-> o, pending |-> pending, deps |-> deps,
                    latest |-> l]
  OBVIOUS
<1>4. ~LatestOpen /\ JudgeSet(deps) /\ UNCHANGED <<orders, sets, entry, log, truths>>
      /\ call' = [call EXCEPT ![c] = r]
  BY <1>1, <1>2, <1>3 DEF QuestionsCheck, Begin
<1>5. /\ drafting \in BOOLEAN /\ pending \in BOOLEAN
      /\ drafting => DOMAIN deps = {}
      /\ pending => orders[o].state = "pending"
  BY <1>1 DEF Drafts
<1>6. l # NoSet => Decided(l)
  BY <1>1, <1>4, LatestDecided
<1>7. Backlog \in docs /\ (drafting /\ pending => OrderDoc(o) \in docs)
  BY <1>2
<1>8. QuestionsCall(r)
  <2>1. /\ Reads(r, "questions", {"issues", "pending", "deps", "order", "latest"})
        /\ r.issues = drafting /\ r.pending = pending /\ r.deps = deps /\ r.order = o
        /\ r.latest = l /\ r.obs = docs
    BY <1>3 DEF Reads
  <2> QED BY <1>1, <1>4, <1>5, <1>6, <1>7, <2>1 DEF QuestionsCall
<1> QED BY <1>4, <1>8, CallStep DEF CallOK

\* A closing call the pending order holds observes that order.
LEMMA HeldBy ==
    ASSUME IInv, ~NonePending
    PROVE  PendingAnalyzer \in DOMAIN orders /\ orders[PendingAnalyzer].state = "pending"
<1>1. PICK o \in Pending(orders) : \A p \in Pending(orders) : p = o
  BY DEF NonePending, IInv, OneLiveOrder
<1>2. o \in Nat
  BY <1>1, Shown DEF Pending
<1>3. \A p \in Pending(orders) : p <= o
  BY <1>1, <1>2
<1>4. PendingAnalyzer \in Pending(orders)
  BY <1>3 DEF PendingAnalyzer
<1> QED BY <1>4 DEF Pending

LEMMA AnswerCheckOK ==
    ASSUME IInv, NEW c \in Callers, NEW via, NEW s \in DOMAIN sets, NEW items \in Items(s),
           AnswerCheck(c, via, s, items)
    PROVE  IInv'
<1>1. PICK due, round : /\ due = (via = "mcp" /\ Closes(sets[s], items))
                        /\ round = RoundNumber(sets[s])
  OBVIOUS
<1>2. PICK held, o : held = (due /\ ~NonePending) /\ o = PendingAnalyzer
  OBVIOUS
<1>3. PICK docs : docs = {SetDoc(s)} \cup (IF held THEN {OrderDoc(o)} ELSE {})
  OBVIOUS
<1>4. PICK issues : issues = (due /\ ~held)
  OBVIOUS
<1>5. PICK r : r = [op |-> "answer", obs |-> docs, stale |-> FALSE, issues |-> issues,
                    prepared |-> FALSE, set |-> s, items |-> items, round |-> round,
                    due |-> due]
  OBVIOUS
<1>6. JudgeAnswers(sets[s], items) /\ UNCHANGED <<orders, sets, entry, log, truths>>
      /\ call' = [call EXCEPT ![c] = r]
  BY <1>1, <1>2, <1>3, <1>4, <1>5 DEF AnswerCheck, Begin
<1>7. /\ issues \in BOOLEAN /\ due \in BOOLEAN /\ SetDoc(s) \in docs
      /\ issues => due
      /\ due => Closes(sets[s], items)
      /\ due /\ ~issues => held
  BY <1>1, <1>2, <1>3, <1>4
<1>8. \A q \in DOMAIN items : items[q] \in {"answered", "deferred"}
  BY DEF Items
<1>9. due /\ ~issues => o \in DOMAIN orders /\ OrderDoc(o) \in docs
                        /\ orders[o].state = "pending"
  <2> SUFFICES ASSUME due, ~issues
               PROVE  o \in DOMAIN orders /\ OrderDoc(o) \in docs
                      /\ orders[o].state = "pending"
    OBVIOUS
  <2>1. held
    BY <1>7
  <2> QED BY <1>2, <1>3, <2>1, HeldBy
<1>10. AnswerCall(r)
  <2>1. /\ Reads(r, "answer", {"issues", "due", "set", "items", "round"})
        /\ r.issues = issues /\ r.due = due /\ r.set = s /\ r.items = items
        /\ r.round = round /\ r.obs = docs
    BY <1>5 DEF Reads
  <2>2. r.due /\ ~r.issues =>
          \E p \in DOMAIN orders :
             OrderDoc(p) \in r.obs /\ (~r.stale => orders[p].state = "pending")
    BY <1>9, <2>1
  <2> QED BY <1>1, <1>6, <1>7, <1>8, <2>1, <2>2 DEF AnswerCall
<1> QED BY <1>6, <1>10, CallStep DEF CallOK

LEMMA TruthsCheckOK ==
    ASSUME IInv, NEW c \in Callers, NEW s \in DOMAIN sets, NEW o \in DOMAIN orders,
           NEW list \in TruthLists, TruthsCheck(c, s, o, list)
    PROVE  IInv'
<1>1. PICK d : d = Digest(s, list)
  OBVIOUS
<1>2. PICK r : r = [op |-> "truths", obs |-> {Backlog, TruthsDoc}, stale |-> FALSE,
                    order |-> o, digest |-> d]
  OBVIOUS
<1>3. UNCHANGED <<orders, sets, entry, log, truths>> /\ call' = [call EXCEPT ![c] = r]
  BY <1>1, <1>2 DEF TruthsCheck, Begin
<1>4. d \in AnyDigest /\ d[2] \in DOMAIN sets
  <2>1. s \in Nat
    BY Shown
  <2> QED BY <1>1, <2>1 DEF AnyDigest, Digest
<1>5. DraftCall(r)
  BY <1>2, <1>4 DEF DraftCall, Reads
<1> QED BY <1>3, <1>5, CallStep DEF CallOK

\* A digest some submission names.
LEMMA DigestsOK ==
    ASSUME IInv, NEW d \in Digests
    PROVE  d \in AnyDigest /\ d[2] \in DOMAIN sets
<1>1. PICK n \in DOMAIN log : d = log[n].digest
  BY DEF Digests, Submissions
<1>2. log[n] \in Event /\ log[n].digest[2] \in DOMAIN sets
  BY Shown DEF IInv, LogOK
<1> QED BY <1>1, <1>2 DEF Event

LEMMA ApproveReadOK ==
    ASSUME IInv, NEW c \in Callers, NEW d \in Digests, ApproveRead(c, d)
    PROVE  IInv'
<1>1. PICK q, g, docs : /\ q = Last(SubmissionsOf(d)) /\ g = Versions(truths, d[3])
                        /\ docs = ApprovalDocs
  OBVIOUS
<1>2. PICK r : r = [op |-> "approve", obs |-> docs, stale |-> FALSE, digest |-> d,
                    seq |-> q, given |-> g, judged |-> FALSE, before |-> FALSE]
  OBVIOUS
<1>3. /\ d = Newest /\ ~entry.dropped /\ d[2] = entry.latest /\ ~LatestOpen
      /\ UNCHANGED <<orders, sets, entry, log, truths>> /\ call' = [call EXCEPT ![c] = r]
  BY <1>1, <1>2 DEF ApproveRead, Begin
<1>4. d \in AnyDigest /\ d[2] \in DOMAIN sets /\ Decided(entry.latest)
  <2>1. d \in AnyDigest /\ d[2] \in DOMAIN sets
    BY DigestsOK
  <2>2. entry.latest # NoSet
    BY <1>3, <2>1, Shown DEF NoSet
  <2> QED BY <1>3, <2>1, <2>2, LatestDecided
<1>5. ApproveCall(r)
  <2>1. /\ Reads(r, "approve", {"digest", "seq", "given", "judged", "before"})
        /\ r.digest = d /\ r.seq = q /\ r.given = g /\ r.judged = FALSE /\ r.obs = docs
    BY <1>2 DEF Reads
  <2>2. {DraftDoc, Backlog, TruthsDoc} \subseteq docs
    BY <1>1 DEF ApprovalDocs
  <2> QED BY <1>1, <1>3, <1>4, <2>1, <2>2 DEF ApproveCall
<1> QED BY <1>3, <1>5, CallStep DEF CallOK

LEMMA ApproveJudgeOK ==
    ASSUME IInv, NEW c \in Callers, ApproveJudge(c)
    PROVE  IInv'
<1>1. PICK r, b : r = call[c] /\ b = (Approvals(r.digest) # {})
  OBVIOUS
<1>2. PICK t : t = [r EXCEPT !.judged = TRUE, !.before = b]
  OBVIOUS
<1>3. /\ r.op = "approve" /\ (\A n \in Approvals(r.digest) : n < r.seq)
      /\ UNCHANGED <<orders, sets, entry, log, truths>> /\ call' = [call EXCEPT ![c] = t]
  BY <1>1, <1>2 DEF ApproveJudge
<1>4. ApproveCall(r)
  BY <1>1, <1>3, Recording
<1>5. ApproveCall(t)
  <2>1. /\ Reads(t, "approve", {"digest", "seq", "given", "judged", "before"})
        /\ t.digest = r.digest /\ t.seq = r.seq /\ t.given = r.given /\ t.judged = TRUE
        /\ t.obs = r.obs /\ t.stale = r.stale
    BY <1>2, <1>4 DEF ApproveCall, Reads
  <2> QED BY <1>3, <1>4, <2>1 DEF ApproveCall
<1> QED BY <1>3, <1>5, CallStep DEF CallOK

LEMMA FailCheckOK ==
    ASSUME IInv, NEW c \in Callers, NEW o \in DOMAIN orders, FailCheck(c, o)
    PROVE  IInv'
<1>1. PICK r : r = [op |-> "fail", obs |-> {OrderDoc(o)}, stale |-> FALSE, order |-> o]
  OBVIOUS
<1>2. UNCHANGED <<orders, sets, entry, log, truths>> /\ call' = [call EXCEPT ![c] = r]
  BY <1>1 DEF FailCheck, Begin
<1>3. FailCall(r)
  BY <1>1 DEF FailCall, Reads
<1> QED BY <1>2, <1>3, CallStep DEF CallOK

LEMMA RetryCheckOK ==
    ASSUME IInv, NEW c \in Callers, NEW o \in DOMAIN orders, RetryCheck(c, o)
    PROVE  IInv'
<1>1. PICK docs : docs = ChainDocs(o) \cup {Backlog, RetentionDoc} \cup LatestDoc
  OBVIOUS
<1>2. PICK r : r = [op |-> "retry", stale |-> FALSE, order |-> o, obs |-> docs]
  OBVIOUS
<1>3. /\ JudgeRetry(orders, o) /\ ~LatestOpen
      /\ UNCHANGED <<orders, sets, entry, log, truths>> /\ call' = [call EXCEPT ![c] = r]
  BY <1>1, <1>2 DEF RetryCheck, Begin
<1>4. /\ Reads(r, "retry", {"order"}) /\ r.order = o /\ r.obs = docs /\ r.stale = FALSE
  BY <1>2 DEF Reads
<1>5. RetryCall(r)
  BY <1>1, <1>3, <1>4, LatestDecided DEF RetryCall, JudgeRetry, ChainDocs
<1> QED BY <1>3, <1>5, CallStep DEF CallOK

-----------------------------------------------------------------------------
(* The invariant *)

\* The calls that write to the story's documents.
Records(c) ==
    \/ RefineRecord(c) \/ QuestionsRecord(c) \/ AnswerRecord(c) \/ TruthsRecord(c)
    \/ ApproveRecord(c) \/ FailRecord(c) \/ RetryRecord(c)
    \/ \E o \in DOMAIN orders : PurgeInput(c, o)
    \/ DropStory(c)

\* The documents of the story.
docs == <<orders, sets, entry, log, truths>>

LEMMA InitOK == Init => IInv
<1> SUFFICES ASSUME Init PROVE IInv
  OBVIOUS
<1>1. /\ orders = <<>> /\ sets = <<>> /\ log = <<>> /\ DOMAIN orders = {} /\ DOMAIN sets = {}
      /\ DOMAIN log = {} /\ Len(sets) = 0
      /\ entry = [dropped |-> FALSE, latest |-> 0, refined |-> 0]
      /\ truths = NoTruths /\ call = [c \in Callers |-> Idle]
  BY DEF Init, NoSet
<1>2. OrdersOK /\ SetsOK /\ LogOK
  BY <1>1 DEF OrdersOK, SetsOK, LogOK
<1>3. EntryOK
  BY <1>1 DEF EntryOK, NoSet
<1>4. TruthsOK
  <2>1. Approved = {}
    BY <1>1 DEF Approved
  <2>2. truths.truths = [i \in {} |-> NoText] /\ truths.kept = [i \in TruthIds |-> {}]
    BY <1>1 DEF NoTruths
  <2>3. DOMAIN truths.truths = {}
    BY <2>2
  <2>4. truths.truths \in Given
    <3>1. truths.truths \in [{} -> [text : Texts, version : Nat]]
      BY <2>2
    <3> QED BY <3>1 DEF Given
  <2>5. Topped({0})
    BY DEF Topped
  <2> QED BY <2>1, <2>2, <2>3, <2>4, <2>5 DEF TruthsOK, Consistent
<1>5. OneLiveOrder /\ OnlyClosedAbandoned
  BY <1>1 DEF OneLiveOrder, OnlyClosedAbandoned, Pending
<1>6. DOMAIN call = Callers /\ \A c \in Callers : CallOK(call[c])
  BY <1>1 DEF CallOK
<1> QED BY <1>2, <1>3, <1>4, <1>5, <1>6 DEF IInv

\* A step records, or leaves the documents as they are.
LEMMA StepIs ==
    ASSUME IInv, [Next]_vars
    PROVE  IInv' /\ (UNCHANGED docs \/ \E c \in Callers : Records(c))
<1>1. CASE Next
  <2>1. PICK c \in Callers :
            \/ Refine(c) \/ SubmitQuestions(c) \/ Answer(c) \/ SubmitTruths(c)
            \/ Approve(c) \/ Fail(c) \/ Retry(c) \/ Purge(c) \/ Drop(c)
            \/ Prepare(c) \/ EndCall(c)
    BY <1>1 DEF Next
  <2> DEFINE Done == IInv' /\ (UNCHANGED docs \/ Records(c))
  <2>2. CASE Refine(c)
    <3>1. RefineCheck(c) => Done
      BY RefineCheckOK DEF RefineCheck, docs
    <3>2. RefineRecord(c) => Done
      BY RefineRecordOK DEF Records
    <3> QED BY <2>2, <3>1, <3>2 DEF Refine
  <2>3. CASE SubmitQuestions(c)
    <3>1. ASSUME NEW o \in DOMAIN orders, NEW deps \in Shapes, QuestionsCheck(c, o, deps)
          PROVE  Done
      BY <3>1, QuestionsCheckOK DEF QuestionsCheck, docs
    <3>2. QuestionsRecord(c) => Done
      BY QuestionsRecordOK DEF Records
    <3> QED BY <2>3, <3>1, <3>2 DEF SubmitQuestions
  <2>4. CASE Answer(c)
    <3>1. ASSUME NEW via \in {"mcp", "terminal"}, NEW s \in DOMAIN sets,
                 NEW items \in Items(s), AnswerCheck(c, via, s, items)
          PROVE  Done
      BY <3>1, AnswerCheckOK DEF AnswerCheck, docs
    <3>2. AnswerRecord(c) => Done
      BY AnswerRecordOK DEF Records
    <3> QED BY <2>4, <3>1, <3>2 DEF Answer
  <2>5. CASE SubmitTruths(c)
    <3>1. ASSUME NEW s \in DOMAIN sets, NEW o \in DOMAIN orders, NEW list \in TruthLists,
                 TruthsCheck(c, s, o, list)
          PROVE  Done
      BY <3>1, TruthsCheckOK DEF TruthsCheck, docs
    <3>2. TruthsRecord(c) => Done
      BY TruthsRecordOK DEF Records
    <3> QED BY <2>5, <3>1, <3>2 DEF SubmitTruths
  <2>6. CASE Approve(c)
    <3>1. ASSUME NEW d \in Digests, ApproveRead(c, d) PROVE Done
      BY <3>1, ApproveReadOK DEF ApproveRead, docs
    <3>2. ApproveJudge(c) => Done
      BY ApproveJudgeOK DEF ApproveJudge, docs
    <3>3. ApproveRecord(c) => Done
      BY ApproveRecordOK DEF Records
    <3> QED BY <2>6, <3>1, <3>2, <3>3 DEF Approve
  <2>7. CASE Fail(c)
    <3>1. ASSUME NEW o \in DOMAIN orders, FailCheck(c, o) PROVE Done
      BY <3>1, FailCheckOK DEF FailCheck, docs
    <3>2. FailRecord(c) => Done
      BY FailRecordOK DEF Records
    <3> QED BY <2>7, <3>1, <3>2 DEF Fail
  <2>8. CASE Retry(c)
    <3>1. ASSUME NEW o \in DOMAIN orders, RetryCheck(c, o) PROVE Done
      BY <3>1, RetryCheckOK DEF RetryCheck, docs
    <3>2. RetryRecord(c) => Done
      BY RetryRecordOK DEF Records
    <3> QED BY <2>8, <3>1, <3>2 DEF Retry
  <2>9. CASE Purge(c) \/ Drop(c)
    <3>1. ASSUME NEW o \in DOMAIN orders, PurgeInput(c, o) PROVE Done
      BY <3>1, PurgeInputOK DEF Records
    <3>2. DropStory(c) => Done
      BY DropStoryOK DEF Records
    <3> QED BY <2>9, <3>1, <3>2 DEF Purge, Drop
  <2>10. CASE Prepare(c) \/ EndCall(c)
    <3>1. Prepare(c) => Done
      BY PrepareOK DEF Prepare, docs
    <3>2. EndCall(c) => Done
      BY EndCallOK DEF EndCall, docs
    <3> QED BY <2>10, <3>1, <3>2
  <2> QED BY <2>1, <2>2, <2>3, <2>4, <2>5, <2>6, <2>7, <2>8, <2>9, <2>10
<1>2. CASE UNCHANGED vars
  <2>1. UNCHANGED docs
    BY <1>2 DEF vars, docs
  <2>2. Digests' = Digests /\ call' = call /\ orders' = orders
    BY <1>2, RestKept DEF vars
  <2>3. OrdersOK' /\ OneLiveOrder'
    BY <1>2, <2>2 DEF vars, IInv, OrdersOK, OrderOK, Decided, OneLiveOrder
  <2>4. DOMAIN call' = Callers /\ \A c \in Callers : CallOK(call[c])'
    <3>1. DOMAIN call = Callers /\ \A c \in Callers : CallOK(call[c])
      BY DEF IInv
    <3>2. ASSUME NEW c \in Callers PROVE CallOK(call[c])'
      <4>1. PICK t : t = call[c]
        OBVIOUS
      <4>2. CallOK(t)'
        BY <1>2, <3>1, <4>1, SameDocs DEF vars
      <4> QED BY <2>2, <4>1, <4>2
    <3> QED BY <2>2, <3>1, <3>2
  <2> QED BY <1>2, <2>1, <2>3, <2>4, RestKept DEF IInv, vars
<1> QED BY <1>1, <1>2
LEMMA SpecIInv == Spec => []IInv
<1>1. Init => IInv
  BY InitOK
<1>2. IInv /\ [Next]_vars => IInv'
  BY StepIs
<1> QED BY <1>1, <1>2, PTL DEF Spec

LEMMA StoryHolds == IInv => StoryInv
<1> SUFFICES ASSUME IInv PROVE StoryInv
  OBVIOUS
<1>1. /\ orders \in Seq(OrderShape) /\ Len(orders) \in Nat
      /\ \A o \in DOMAIN orders : orders[o] \in OrderShape /\ OrderOK(orders[o])
      /\ Len(sets) \in Nat /\ DOMAIN sets = 1..Len(sets)
      /\ \A s \in DOMAIN sets : sets[s] \in SetShape /\ SetOK(sets[s])
      /\ entry \in [dropped : BOOLEAN, latest : Nat, refined : Nat]
      /\ entry.latest = Len(sets)
  BY Shown
<1>2. TypeOK
  <2> DEFINE shape == [kind : {"questions", "drafting"}, set : 0..Len(sets),
                       parent : 0..Len(orders), child : 0..Len(orders),
                       state : {"pending", "answered", "failed"},
                       returns : SUBSET ({SetDoc(s) : s \in DOMAIN sets} \cup Digests),
                       released : BOOLEAN]
  <2>1. ASSUME NEW o \in DOMAIN orders PROVE orders[o] \in shape
    BY <1>1 DEF OrderShape, OrderOK
  <2> HIDE DEF shape
  <2>2. orders \in Seq(shape)
    BY <1>1, <2>1
  <2>3. entry \in [dropped : BOOLEAN, latest : {Len(sets)}, refined : 0..Len(sets)]
    <3>1. entry.refined \in 0..Len(sets)
      BY <1>1 DEF IInv, EntryOK, Decided, NoSet
    <3> QED BY <1>1, <3>1
  <2>4. \A c \in Callers : call[c] # Idle => call[c].stale \in BOOLEAN
    BY DEF IInv, CallOK, RefineCall, QuestionsCall, AnswerCall, DraftCall, ApproveCall,
           FailCall, RetryCall, Reads
  <2> QED BY <2>2, <2>3, <2>4 DEF TypeOK, shape
<1>3. AnsweredInOrder
  BY <1>1 DEF AnsweredInOrder, SetOK, InOrder
<1>4. DraftingDecided
  BY <1>1 DEF DraftingDecided, OrderOK, Decided
<1> QED BY <1>2, <1>3, <1>4 DEF StoryInv, IInv

\* StoryInv: documents of their shapes; at most one analyzer order of the
\* story is pending, however calls race; exactly the latest set is live and
\* none is abandoned with a question open; an answer rests on answers of
\* earlier rounds; a drafting order drafts from a set the owner decided.
THEOREM StoryStands == Spec => []StoryInv
BY SpecIInv, StoryHolds, PTL

\* VersionsNameOneText: a truth's id and version never come to name two
\* texts, for any truth lists and any number of approvals.
THEOREM TextsStand == Spec => []VersionsNameOneText
<1>1. IInv => VersionsNameOneText
  BY DEF IInv, TruthsOK, Consistent, VersionsNameOneText, Approved
<1> QED BY <1>1, SpecIInv, PTL

-----------------------------------------------------------------------------
(* What a recording never does *)

\* Documents a recording leaves.
LEMMA RecordsLeave ==
    ASSUME IInv, NEW c \in Callers, Records(c)
    PROVE  /\ sets' # sets => AnswerRecord(c) \/ QuestionsRecord(c)
           /\ log' # log => TruthsRecord(c) \/ ApproveRecord(c)
           /\ \E W : Commit(c, W)
<1>1. \E W : Commit(c, W)
  BY DEF Records, RefineRecord, QuestionsRecord, AnswerRecord, TruthsRecord, ApproveRecord,
         FailRecord, RetryRecord, PurgeInput, DropStory
<1> QED BY <1>1 DEF Records, RefineRecord, QuestionsRecord, AnswerRecord, TruthsRecord,
         ApproveRecord, FailRecord, RetryRecord, PurgeInput, DropStory

\* questions-answer's rounds.
LEMMA RoundStep ==
    ASSUME IInv, [Next]_vars
    PROVE  RoundOfOneCall
<1>1. CASE sets' = sets
  BY <1>1 DEF RoundOfOneCall, OpenQuestions
<1>2. CASE sets' # sets
  <2>1. PICK c \in Callers : AnswerRecord(c) \/ QuestionsRecord(c)
    BY <1>2, StepIs, RecordsLeave DEF docs
  <2>2. CASE AnswerRecord(c)
    BY <2>2, AnswerRecordOK
  <2>3. CASE QuestionsRecord(c)
    <3>1. \A s \in DOMAIN sets : sets'[s].settled = sets[s].settled
      <4>1. PICK r, l, new : r = call[c] /\ l = r.latest /\ new = Len(sets) + 1
        OBVIOUS
      <4>2. OpenedAs(r.deps, l, new)
        BY <2>3, <4>1, QuestionsRecordSets
      <4> QED BY <4>2 DEF OpenedAs
    <3> QED BY <3>1 DEF RoundOfOneCall, OpenQuestions
  <2> QED BY <2>1, <2>2, <2>3
<1> QED BY <1>1, <1>2

\* RoundsOfOneCall: what a step settles carries a round no question of the
\* set had, and what is settled stays.
THEOREM RoundsStand == Spec => RoundsOfOneCall
<1>1. IInv /\ [Next]_vars => [RoundOfOneCall]_vars
  BY RoundStep
<1> QED BY <1>1, SpecIInv, PTL DEF Spec, RoundsOfOneCall, RoundOfOneCall

\* A close over MCP leaves an order.
CloseLeaves ==
    \A c \in Callers :
        call[c].op = "answer" /\ call[c].due /\ sets' # sets /\ call'[c] = Idle
            => Pending(orders') # {}

LEMMA CloseStep ==
    ASSUME IInv, [Next]_vars
    PROVE  CloseLeaves
<1> SUFFICES ASSUME NEW c \in Callers, call[c].op = "answer", call[c].due, sets' # sets,
                    call'[c] = Idle
             PROVE  Pending(orders') # {}
  BY DEF CloseLeaves
<1>1. PICK d \in Callers : AnswerRecord(d) \/ QuestionsRecord(d)
  BY StepIs, RecordsLeave DEF docs
<1>2. CASE c = d
  BY <1>1, <1>2, AnswerRecordOK DEF QuestionsRecord
<1>3. CASE c # d
  <2>1. PICK W : Commit(d, W)
    BY <1>1 DEF AnswerRecord, QuestionsRecord
  <2>2. call[c] # Idle
    BY IdleIs
  <2>3. call'[c] = call[c] \/ call'[c] = [call[c] EXCEPT !.stale = TRUE]
    BY <1>3, <2>1, <2>2 DEF Commit
  <2>4. "op" \in DOMAIN call[c] /\ "op" \in DOMAIN Idle
    BY <2>2 DEF IInv, CallOK, RefineCall, QuestionsCall, AnswerCall, DraftCall, ApproveCall,
                FailCall, RetryCall, Reads, Idle
  <2>5. call'[c].op = "answer"
    BY <2>3, <2>4
  <2> QED BY <2>5, IdleIs
<1> QED BY <1>2, <1>3

\* CloseLeavesOrder: whatever raced it, a closing answer over MCP is recorded
\* with a pending analyzer order.
THEOREM ClosesStand == Spec => CloseLeavesOrder
<1>1. IInv /\ [Next]_vars => [CloseLeaves]_vars
  BY CloseStep
<1> QED BY <1>1, SpecIInv, PTL DEF Spec, CloseLeavesOrder, CloseLeaves

\* What an approval is of when it is recorded.
FromLatest ==
    \A n \in DOMAIN log' \ DOMAIN log :
        log'[n].type = "refined" =>
            LET d == log'[n].digest
            IN  /\ d = Newest
                /\ \A m \in Approvals(d) : m < Last(SubmissionsOf(d))
                /\ d[2] = entry.latest /\ ~LatestOpen /\ ~entry.dropped

\* The set refined from last, when no question of it is open.
LEMMA DecidedNotOpen ==
    ASSUME entry.latest # NoSet => Decided(entry.latest)
    PROVE  ~LatestOpen
BY DEF LatestOpen, State, Decided, IsOpen

LEMMA ApprovedNow ==
    ASSUME IInv, NEW c \in Callers, ApproveRecord(c), NEW d, d = call[c].digest
    PROVE  /\ d = Newest /\ d \in AnyDigest /\ d[2] \in DOMAIN sets
           /\ \A m \in Approvals(d) : m < Last(SubmissionsOf(d))
           /\ d[2] = entry.latest /\ ~LatestOpen /\ ~entry.dropped /\ Decided(entry.latest)
<1>1. PICK r : r = call[c]
  OBVIOUS
<1>2. r.op = "approve" /\ ~r.stale /\ r.judged
  BY <1>1 DEF ApproveRecord, Recheck
<1>3. ApproveCall(r)
  BY <1>1, <1>2, Recording
<1> QED BY <1>1, <1>2, <1>3, DecidedNotOpen DEF ApproveCall

LEMMA RefinedStep ==
    ASSUME IInv, [Next]_vars
    PROVE  FromLatest
<1> SUFFICES ASSUME NEW n \in DOMAIN log' \ DOMAIN log, log'[n].type = "refined",
                    NEW d, d = log'[n].digest
             PROVE  /\ d = Newest
                    /\ \A m \in Approvals(d) : m < Last(SubmissionsOf(d))
                    /\ d[2] = entry.latest /\ ~LatestOpen /\ ~entry.dropped
  BY DEF FromLatest
<1>1. PICK c \in Callers : TruthsRecord(c) \/ ApproveRecord(c)
  BY StepIs, RecordsLeave DEF docs
<1>2. PICK m : m = Len(log) + 1
  OBVIOUS
<1>3. CASE TruthsRecord(c)
  <2>1. PICK e : e = [type |-> "submitted", digest |-> call[c].digest]
    OBVIOUS
  <2>2. log' = Append(log, e) /\ log \in Seq(Event) /\ Len(log) \in Nat
    BY <1>3, <2>1, Shown DEF TruthsRecord
  <2>3. n = m /\ log'[m] = e
    BY <1>2, <2>2
  <2> QED BY <2>1, <2>3
<1>4. CASE ApproveRecord(c)
  <2>1. PICK e : e = [type |-> "refined", digest |-> call[c].digest, given |-> call[c].given]
    OBVIOUS
  <2>2. log' = Append(log, e) /\ log \in Seq(Event) /\ Len(log) \in Nat
    BY <1>4, <2>1, Shown DEF ApproveRecord
  <2>3. n = m /\ log'[m] = e
    BY <1>2, <2>2
  <2>4. d = call[c].digest
    BY <2>1, <2>3
  <2> QED BY <1>4, <2>4, ApprovedNow
<1> QED BY <1>1, <1>3, <1>4

\* RefinedFromLatest: an approval is of the newest draft, not approved since
\* its latest submission, drafted from the latest set with no question open.
THEOREM RefinedStand == Spec => RefinedFromLatest
<1>1. IInv /\ [Next]_vars => [FromLatest]_vars
  BY RefinedStep
<1> QED BY <1>1, SpecIInv, PTL DEF Spec, RefinedFromLatest, FromLatest

\* A retry is of a chain without a return.
OfUnanswered ==
    \A o \in DOMAIN orders :
        orders[o].child # orders'[o].child =>
            /\ \A p \in Earlier(orders, o) \cup {o} : orders[p].returns = {}
            /\ ~orders[o].released /\ ~LatestOpen
\* Only a retry makes an order the child of another.
LEMMA ChildSame ==
    ASSUME NEW os \in Seq(OrderShape), NEW p \in DOMAIN os, NEW o, NEW x, NEW y, NEW new,
           \/ new = Answered(os, o, x) \/ new = Failed(os, o) \/ new = Released(os, o)
           \/ new = Issued(os, x, y, 0)
    PROVE  new[p].child = os[p].child
<1>1. os[p] \in OrderShape /\ p \in Nat /\ p # 0 /\ Len(os) \in Nat /\ DOMAIN os = 1..Len(os)
  OBVIOUS
<1>2. CASE new = Answered(os, o, x)
  <2>1. CASE p = o
    <3>1. new[p] = [os[p] EXCEPT !.returns = @ \cup {x},
                                 !.state = IF @ = "pending" THEN "answered" ELSE @]
      BY <1>2, <2>1 DEF Answered
    <3> QED BY <1>1, <3>1 DEF OrderShape
  <2>2. CASE p # o
    BY <1>2, <2>2 DEF Answered
  <2> QED BY <2>1, <2>2
<1>3. CASE new = Failed(os, o)
  <2>1. new[p] = os[p] \/ new[p] = [os[p] EXCEPT !.state = "failed"]
    BY <1>3 DEF Failed
  <2> QED BY <1>1, <2>1 DEF OrderShape
<1>4. CASE new = Released(os, o)
  <2>1. new[p] = os[p] \/ new[p] = [os[p] EXCEPT !.released = TRUE]
    BY <1>4 DEF Released
  <2> QED BY <1>1, <2>1 DEF OrderShape
<1>5. CASE new = Issued(os, x, y, 0)
  <2>1. PICK old, e : /\ old = [q \in DOMAIN os |-> IF q = 0 THEN [os[q] EXCEPT !.child = Len(os) + 1]
                                                   ELSE os[q]]
                      /\ e = IssuedOrder(x, y, 0)
    OBVIOUS
  <2>2. old = os
    <3>1. \A q \in DOMAIN os : old[q] = os[q]
      BY <1>1, <2>1
    <3> QED BY <1>1, <2>1, <3>1
  <2>3. new = Append(os, e)
    BY <1>5, <2>1, <2>2 DEF Issued
  <2> QED BY <1>1, <2>3
<1> QED BY <1>2, <1>3, <1>4, <1>5

\* `refine` and `answer` issue orders that extend no attempt.
LEMMA ChildKept ==
    ASSUME IInv, NEW c \in Callers, Records(c), ~RetryRecord(c), NEW p \in DOMAIN orders
    PROVE  orders'[p].child = orders[p].child
<1>1. PICK os, new : os = orders /\ new = orders'
  OBVIOUS
<1>2. PICK r : r = call[c]
  OBVIOUS
<1>3. os \in Seq(OrderShape) /\ p \in DOMAIN os
  BY <1>1, Shown
<1>4. CASE QuestionsRecord(c)
  <2>1. PICK o, x, mid : o = r.order /\ x = SetDoc(Len(sets) + 1) /\ mid = Answered(os, o, x)
    OBVIOUS
  <2>2. QuestionsCall(r)
    BY <1>2, <1>4, Recording, SMTT(30) DEF QuestionsRecord
  <2>3. o \in DOMAIN os /\ x \in Returns
    <3>1. Len(sets) + 1 \in Nat /\ o \in DOMAIN orders
      BY <2>1, <2>2, Shown DEF QuestionsCall
    <3> QED BY <1>1, <2>1, <3>1 DEF Returns
  <2>4. mid \in Seq(OrderShape) /\ DOMAIN mid = DOMAIN os
    BY <1>3, <2>1, <2>3, AnsweredOK
  <2>5. mid[p].child = os[p].child
    BY <1>3, <2>1, ChildSame
  <2>6. PICK y : new = mid \/ new = Issued(mid, "drafting", y, 0)
    BY <1>1, <1>2, <1>4, <2>1 DEF QuestionsRecord, NoOrder
  <2>7. new[p].child = mid[p].child
    BY <1>3, <2>4, <2>6, ChildSame
  <2> QED BY <1>1, <2>5, <2>7
<1>5. CASE ~QuestionsRecord(c)
  <2>1. \/ new = os
        \/ \E o : new = Failed(os, o) \/ new = Released(os, o)
        \/ \E o, x : new = Answered(os, o, x)
        \/ \E x, y : new = Issued(os, x, y, 0)
    BY <1>1, <1>5 DEF Records, RefineRecord, AnswerRecord, TruthsRecord,
                      ApproveRecord, FailRecord, PurgeInput, DropStory, NoOrder
  <2>2. PICK o, x, y : \/ new = os \/ new = Failed(os, o) \/ new = Released(os, o)
                       \/ new = Answered(os, o, x) \/ new = Issued(os, x, y, 0)
    BY <2>1
  <2>3. CASE new = os
    BY <1>1, <2>3
  <2>4. CASE new = Failed(os, o)
    BY <1>1, <1>3, <2>4, ChildSame
  <2>5. CASE new = Released(os, o)
    BY <1>1, <1>3, <2>5, ChildSame
  <2>6. CASE new = Answered(os, o, x)
    BY <1>1, <1>3, <2>6, ChildSame
  <2>7. CASE new = Issued(os, x, y, 0)
    BY <1>1, <1>3, <2>7, ChildSame
  <2> QED BY <2>2, <2>3, <2>4, <2>5, <2>6, <2>7
<1> QED BY <1>4, <1>5

LEMMA RetryStep ==
    ASSUME IInv, [Next]_vars
    PROVE  OfUnanswered
<1> SUFFICES ASSUME NEW o \in DOMAIN orders, orders[o].child # orders'[o].child
             PROVE  /\ \A p \in Earlier(orders, o) \cup {o} : orders[p].returns = {}
                    /\ ~orders[o].released /\ ~LatestOpen
  BY DEF OfUnanswered
<1>1. PICK c \in Callers : Records(c)
  BY StepIs DEF docs
<1>2. RetryRecord(c)
  BY <1>1, ChildKept
<1>3. PICK r, q : r = call[c] /\ q = r.order
  OBVIOUS
<1>4. r.op = "retry" /\ ~r.stale
  BY <1>2, <1>3 DEF RetryRecord, Recheck
<1>5. RetryCall(r)
  <2>1. CallOK(r)
    BY <1>3 DEF IInv
  <2> QED BY <1>4, <2>1, IdleIs DEF CallOK, QuestionsCall, AnswerCall, DraftCall,
           ApproveCall, FailCall, RefineCall, Reads
<1>6. o = q
  <2>1. PICK k, s : k = orders[q].kind /\ s = orders[q].set
    OBVIOUS
  <2>2. q \in DOMAIN orders /\ orders[q] \in OrderShape
    BY <1>3, <1>5, Shown DEF RetryCall
  <2>3. k \in {"questions", "drafting"} /\ s \in Nat /\ q \in Nat
    BY <2>1, <2>2, Shown DEF OrderShape
  <2>4. orders' = Issued(orders, k, s, q)
    BY <1>2, <1>3, <2>1 DEF RetryRecord
  <2>5. OneMore(orders, orders', k, s, q)
    BY <2>3, <2>4, IssueDocs
  <2> QED BY <2>5 DEF OneMore
<1> QED BY <1>3, <1>4, <1>5, <1>6, DecidedNotOpen DEF RetryCall

\* RetryExtendsUnanswered: a retry extends a chain of attempts none of which
\* has returned, whose inputs are held, with no question open.
THEOREM RetriesStand == Spec => RetryExtendsUnanswered
<1>1. IInv /\ [Next]_vars => [OfUnanswered]_vars
  BY RetryStep
<1> QED BY <1>1, SpecIInv, PTL DEF Spec, RetryExtendsUnanswered, OfUnanswered

\* StorySteps, the four together.
THEOREM StepsStand == Spec => StorySteps
BY RoundsStand, ClosesStand, RefinedStand, RetriesStand DEF StorySteps

-----------------------------------------------------------------------------
(* The story goes through the abstract states *)

Open == IF entry.latest = NoSet THEN {} ELSE OpenQuestions(sets[entry.latest])
Refinements == {n \in DOMAIN log : log[n].type = "refined"}

\* The state of a story by its latest set.
LEMMA StateIs ==
    ASSUME IInv
    PROVE  /\ entry.latest = NoSet => State = "unrefined" /\ Open = {}
           /\ entry.latest # NoSet =>
                /\ Open = OpenQuestions(sets[entry.latest])
                /\ Open # {} => State = "asking"
                /\ Open = {} => State = IF entry.refined = entry.latest
                                        THEN "refined" ELSE "drafting"
<1>1. entry.latest # NoSet => ~sets[entry.latest].abandoned
  BY Shown DEF NoSet, IInv, OnlyClosedAbandoned
<1> QED BY <1>1 DEF State, Open, IsOpen

LEMMA StoryInit == Init => Story!Init
<1> SUFFICES ASSUME Init PROVE Story!Init
  OBVIOUS
<1>1. entry.latest = NoSet /\ log = <<>> /\ DOMAIN log = {}
  BY DEF Init
<1>2. State = "unrefined"
  BY <1>1 DEF State
<1>3. Cardinality({n \in DOMAIN log : log[n].type = "refined"}) = 0
  BY <1>1, FS_EmptySet
<1> QED BY <1>1, <1>2, <1>3 DEF Story!Init

\* A recording that neither opens, answers nor approves is no step of the story.
LEMMA StoryStays ==
    ASSUME IInv, UNCHANGED sets, entry'.latest = entry.latest, entry'.refined = entry.refined,
           Refinements' = Refinements
    PROVE  UNCHANGED Story!vars
<1>1. State' = State
  BY DEF State, IsOpen, OpenQuestions
<1>2. Open' = Open
  BY DEF Open, OpenQuestions
<1> QED BY <1>1, <1>2 DEF Story!vars, Open, Refinements

LEMMA StoryAsked ==
    ASSUME IInv, NEW c \in Callers, QuestionsRecord(c), IInv'
    PROVE  Story!Next
<1>1. PICK r, l, new : r = call[c] /\ l = r.latest /\ new = Len(sets) + 1
  OBVIOUS
<1>2. /\ l = entry.latest /\ (l # NoSet => Decided(l)) /\ r.deps \in Shapes
      /\ OpenedAs(r.deps, l, new)
  BY <1>1, QuestionsRecordSets
<1>3. /\ new \in Nat \ DOMAIN sets /\ OpenQuestions(sets'[new]) = DOMAIN r.deps
      /\ entry'.latest = new /\ entry'.refined = entry.refined
  BY <1>2 DEF OpenedAs
<1>4. State # "asking"
  BY <1>2, DecidedNotOpen DEF LatestOpen
<1>5. new # NoSet /\ entry.refined # new
  <2>1. Len(sets) \in Nat
    BY Shown
  <2>2. entry.refined # NoSet => entry.refined \in DOMAIN sets
    BY DEF IInv, EntryOK, Decided
  <2> QED BY <1>1, <1>3, <2>1, <2>2 DEF NoSet
<1>6. Open' = DOMAIN r.deps
  BY <1>3, <1>5 DEF Open
<1>7. State' = IF DOMAIN r.deps = {} THEN "drafting" ELSE "asking"
  <2>1. /\ (Open # {})' => (State = "asking")'
        /\ (Open = {})' => (State = IF entry.refined = entry.latest
                                    THEN "refined" ELSE "drafting")'
    <3>1. (entry.latest # NoSet)'
      BY <1>3, <1>5
    <3>2. (entry.latest # NoSet =>
             /\ Open # {} => State = "asking"
             /\ Open = {} => State = IF entry.refined = entry.latest
                                     THEN "refined" ELSE "drafting")'
      BY StateIs, PTL
    <3> QED BY <3>1, <3>2
  <2> QED BY <1>3, <1>5, <1>6, <2>1
<1>8. UNCHANGED log
  BY DEF QuestionsRecord
<1>9. PICK Q : Q = DOMAIN r.deps
  OBVIOUS
<1>10. Story!Ask(Q)
  BY <1>4, <1>6, <1>7, <1>8, <1>9 DEF Story!Ask, Open
<1> QED BY <1>2, <1>9, <1>10 DEF Story!Next
LEMMA StoryDecided ==
    ASSUME IInv, NEW c \in Callers, AnswerRecord(c), IInv'
    PROVE  Story!Next
<1>1. PICK r, s, items : r = call[c] /\ s = r.set /\ items = r.items
  OBVIOUS
<1>2. r.op = "answer" /\ ~r.stale
  BY <1>1 DEF AnswerRecord, Recheck
<1>3. AnswerCall(r)
  BY <1>1, <1>2, Recording
<1>4. /\ s \in DOMAIN sets /\ JudgeAnswers(sets[s], items)
      /\ \A q \in DOMAIN items : items[q] \in {"answered", "deferred"}
      /\ r.round = RoundNumber(sets[s])
      /\ sets' = [sets EXCEPT ![s] = Settle(@, items, r.round)]
      /\ UNCHANGED <<entry, log>>
  BY <1>1, <1>2, <1>3 DEF AnswerCall, AnswerRecord
<1>5. /\ OpenQuestions(sets'[s]) = OpenQuestions(sets[s]) \ DOMAIN items
      /\ ~sets[s].abandoned
  <2>1. PICK round : round = r.round
    OBVIOUS
  <2> QED BY <1>4, <2>1, SettledSets
<1>6. DOMAIN items # {} /\ DOMAIN items \subseteq OpenQuestions(sets[s])
  BY <1>4 DEF JudgeAnswers
<1>7. s = entry.latest /\ s # NoSet /\ entry'.latest = s /\ entry'.refined = entry.refined
  BY <1>4, <1>5, Shown DEF IInv, OnlyClosedAbandoned, NoSet
<1>8. Open = OpenQuestions(sets[s]) /\ Open' = Open \ DOMAIN items /\ State = "asking"
  BY <1>5, <1>6, <1>7, StateIs DEF Open
<1>9. entry.refined # s
  <2>1. OpenQuestions(sets[s]) # {}
    BY <1>6
  <2> QED BY <1>7, <2>1 DEF IInv, EntryOK, Decided
<1>10. State' = IF Open' = {} THEN "drafting" ELSE "asking"
  <2>1. (entry.latest # NoSet)'
    BY <1>7
  <2>2. (entry.latest # NoSet =>
           /\ Open # {} => State = "asking"
           /\ Open = {} => State = IF entry.refined = entry.latest
                                   THEN "refined" ELSE "drafting")'
    BY StateIs, PTL
  <2> QED BY <1>7, <1>9, <2>1, <2>2
<1>11. PICK Q : Q = DOMAIN items
  OBVIOUS
<1>12. Story!Decide(Q)
  BY <1>4, <1>6, <1>8, <1>10, <1>11 DEF Story!Decide, Open
<1>13. Q \in SUBSET Open
  BY <1>6, <1>8, <1>11
<1> QED BY <1>12, <1>13 DEF Story!Next, Open

LEMMA StoryApproved ==
    ASSUME IInv, NEW c \in Callers, ApproveRecord(c), IInv'
    PROVE  Story!Next
<1>1. PICK d, e, m : /\ d = call[c].digest
                     /\ e = [type |-> "refined", digest |-> d, given |-> call[c].given]
                     /\ m = Len(log) + 1
  OBVIOUS
<1>2. d[2] \in DOMAIN sets /\ d[2] = entry.latest /\ Decided(entry.latest)
  BY <1>1, ApprovedNow
<1>3. /\ UNCHANGED sets /\ entry' = [entry EXCEPT !.refined = d[2]]
      /\ log' = Append(log, e)
  BY <1>1 DEF ApproveRecord
<1>4. entry'.latest = entry.latest /\ entry'.refined = entry.latest /\ entry.latest # NoSet
  BY <1>2, <1>3, Shown DEF NoSet
<1>5. Open = {} /\ Open' = {}
  BY <1>2, <1>3, <1>4 DEF Open, Decided
<1>6. State \in {"drafting", "refined"} /\ State # "asking"
  BY <1>4, <1>5, StateIs
<1>7. State' = "refined"
  <2>1. (entry.latest # NoSet)'
    BY <1>4
  <2>2. (entry.latest # NoSet =>
           (Open = {} => State = IF entry.refined = entry.latest
                                 THEN "refined" ELSE "drafting"))'
    BY StateIs, PTL
  <2> QED BY <1>4, <1>5, <2>1, <2>2
<1>8. Refinements' = Refinements \cup {m} /\ m \notin Refinements
  <2>1. log \in Seq(Event) /\ Len(log) \in Nat /\ DOMAIN log = 1..Len(log)
    BY Shown
  <2>2. /\ DOMAIN log' = DOMAIN log \cup {m} /\ m \notin DOMAIN log /\ log'[m] = e
        /\ \A n \in DOMAIN log : log'[n] = log[n]
    BY <1>1, <1>3, <2>1
  <2>3. e.type = "refined"
    BY <1>1
  <2> QED BY <2>2, <2>3 DEF Refinements
<1>9. Cardinality(Refinements') = Cardinality(Refinements) + 1
  <2>1. PICK n \in Nat : n = Len(log)
    BY Shown
  <2>2. IsFiniteSet(1..n)
    BY <2>1, FS_Interval
  <2>3. Refinements \subseteq 1..n
    BY <2>1, Shown DEF Refinements
  <2>4. PICK S, T : S = Refinements /\ T = Refinements'
    OBVIOUS
  <2>5. IsFiniteSet(S)
    BY <2>2, <2>3, <2>4, FS_Subset
  <2>6. Cardinality(S \cup {m}) = Cardinality(S) + 1
    BY <1>8, <2>4, <2>5, FS_AddElement
  <2>7. T = S \cup {m}
    BY <1>8, <2>4
  <2>8. Cardinality(T) = Cardinality(S) + 1
    BY <2>6, <2>7
  <2> QED BY <2>4, <2>8, ZenonT(60)
<1>10. Story!Approve
  BY <1>5, <1>6, <1>7, <1>9 DEF Story!Approve, Open, Refinements
<1> QED BY <1>10 DEF Story!Next

LEMMA StoryStep ==
    ASSUME IInv, [Next]_vars
    PROVE  [Story!Next]_Story!vars
<1>1. IInv' /\ (UNCHANGED docs \/ \E c \in Callers : Records(c))
  BY StepIs
<1>2. CASE UNCHANGED docs
  BY <1>2, StoryStays DEF docs, Refinements
<1>3. ASSUME NEW c \in Callers, Records(c) PROVE [Story!Next]_Story!vars
  <2>1. CASE QuestionsRecord(c)
    BY <1>1, <2>1, StoryAsked
  <2>2. CASE AnswerRecord(c)
    BY <1>1, <2>2, StoryDecided
  <2>3. CASE ApproveRecord(c)
    BY <1>1, <2>3, StoryApproved
  <2>4. CASE TruthsRecord(c)
    <3>1. PICK e : e = [type |-> "submitted", digest |-> call[c].digest]
      OBVIOUS
    <3>2. log' = Append(log, e) /\ UNCHANGED <<sets, entry>>
      BY <2>4, <3>1 DEF TruthsRecord
    <3>3. log \in Seq(Event) /\ Len(log) \in Nat /\ e.type # "refined"
      BY <3>1, Shown
    <3>4. /\ DOMAIN log' = DOMAIN log \cup {Len(log) + 1} /\ log'[Len(log) + 1] = e
          /\ \A n \in DOMAIN log : log'[n] = log[n]
      BY <3>2, <3>3
    <3>5. Refinements' = Refinements
      BY <3>3, <3>4 DEF Refinements
    <3> QED BY <3>2, <3>5, StoryStays
  <2>5. CASE DropStory(c)
    <3>1. entry' = [entry EXCEPT !.dropped = TRUE] /\ UNCHANGED <<sets, log>>
      BY <2>5 DEF DropStory
    <3>2. entry'.latest = entry.latest /\ entry'.refined = entry.refined
      BY <3>1, Shown
    <3> QED BY <3>1, <3>2, StoryStays DEF Refinements
  <2>6. CASE \/ RefineRecord(c) \/ FailRecord(c) \/ RetryRecord(c)
             \/ \E o \in DOMAIN orders : PurgeInput(c, o)
    <3>1. UNCHANGED <<sets, entry, log>>
      BY <2>6 DEF RefineRecord, FailRecord, RetryRecord, PurgeInput
    <3> QED BY <3>1, StoryStays DEF Refinements
  <2> QED BY <1>3, <2>1, <2>2, <2>3, <2>4, <2>5, <2>6 DEF Records
<1> QED BY <1>1, <1>2, <1>3

\* ImplementsStory: however its calls interleave, a story is asked, drafted
\* and refined as StoryStates says, and truths are approved only when every
\* question of the latest set is settled.
THEOREM StoryImplemented == Spec => ImplementsStory
<1>1. Init => Story!Init
  BY StoryInit
<1>2. IInv /\ [Next]_vars => [Story!Next]_Story!vars
  BY StoryStep
<1> QED BY <1>1, <1>2, SpecIInv, PTL DEF Spec, ImplementsStory, Story!Spec
=============================================================================

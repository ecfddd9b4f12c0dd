---------------------------- MODULE ClaimsProofs ----------------------------
(***************************************************************************)
(* Proofs about the command path.  The invariant is stated over the work   *)
(* of one command, so that it is shown once for each event a command can   *)
(* push and then composed along the events of each command.                *)
(***************************************************************************)
EXTENDS Claims, TLAPS

Works ==
    [events : Seq(Events), request : [Requests -> Docs],
     claimScope : [Tokens -> Holders]]

\* ScopeAgrees over a command's work.
WorkScope(w) ==
    /\ \A t \in Tokens : w.claimScope[t] # NoHolder =>
        /\ w.claimScope[t].req \in Requests
        /\ Open(w.request[w.claimScope[t].req])
        /\ w.request[w.claimScope[t].req].seq = w.claimScope[t].seq
        /\ t \in w.request[w.claimScope[t].req].scope
    /\ \A r \in Requests : Open(w.request[r]) =>
        \A t \in w.request[r].scope :
            w.claimScope[t] = [req |-> r, seq |-> w.request[r].seq]

WorkInv(w) == w \in Works /\ WorkScope(w)

-----------------------------------------------------------------------------
\* Documents of an open claim carry the claim's fields.
LEMMA OpenDoc ==
    ASSUME NEW doc \in Docs, Open(doc)
    PROVE  /\ doc \in ClaimedDocs \cup HeldDocs
           /\ doc.seq \in Seqs
           /\ doc.at \in Time
           /\ doc.digest \in Digests
           /\ doc.scope \in SUBSET Tokens
           /\ doc.owner \in Procs
BY DEF Docs, Open, NoDoc, ClaimedDocs, HeldDocs, CompletedDocs

\* Recording a fact changes neither view.
LEMMA PushDomain ==
    ASSUME NEW w, WorkInv(w), NEW S \in SUBSET Tokens,
           NEW c \in Requests \cup {None}
    PROVE  /\ WorkInv(Push(w, DomainEvent(S, c)))
           /\ Push(w, DomainEvent(S, c)).request = w.request
           /\ Push(w, DomainEvent(S, c)).claimScope = w.claimScope
<1> DEFINE e == DomainEvent(S, c)
           v == Push(w, e)
<1>1. e \in Events /\ e.type = "domain"
  BY DEF DomainEvent, Events
<1>2. /\ v.request = w.request
      /\ v.claimScope = w.claimScope
      /\ v.events = Append(w.events, e)
  BY <1>1 DEF Push, RequestApply, ScopeApply
<1>3. v \in Works
  <2>1. v = [events |-> Append(w.events, e), request |-> w.request,
             claimScope |-> w.claimScope]
    BY <1>1 DEF Push, RequestApply, ScopeApply
  <2> QED BY <1>1, <2>1 DEF WorkInv, Works
<1>4. WorkScope(v)
  BY <1>2 DEF WorkInv, WorkScope
<1> QED BY <1>2, <1>3, <1>4 DEF WorkInv

\* Taking a claim on free tokens.
LEMMA PushClaimed ==
    ASSUME NEW w, WorkInv(w), NEW r \in Requests, NEW d \in Digests,
           NEW S \in SUBSET Tokens, NEW p \in Procs, NEW at \in Time,
           w.request[r] = NoDoc, \A t \in S : w.claimScope[t] = NoHolder
    PROVE  WorkInv(Push(w, ClaimedEvent(r, d, S, p, at)))
<1> DEFINE e == ClaimedEvent(r, d, S, p, at)
           n == Len(w.events) + 1
           doc == [state |-> "claimed", seq |-> n, at |-> at, digest |-> d,
                   scope |-> S, owner |-> p]
           req == [w.request EXCEPT ![r] = doc]
           scp == [t \in Tokens |-> IF t \in S THEN [req |-> r, seq |-> n]
                                    ELSE w.claimScope[t]]
           v == Push(w, e)
<1>1. e \in Events
  BY DEF ClaimedEvent, Events
<1>2. v = [events |-> Append(w.events, e), request |-> req,
           claimScope |-> scp]
  BY DEF Push, RequestApply, ScopeApply, ClaimedEvent
<1>3. w \in Works /\ n \in Seqs
  BY DEF WorkInv, Works, Seqs
<1>4. doc \in Docs
  BY <1>3 DEF Docs, ClaimedDocs
<1>5. v \in Works
  <2>1. req \in [Requests -> Docs]
    BY <1>3, <1>4 DEF Works
  <2>2. scp \in [Tokens -> Holders]
    BY <1>3 DEF Works, Holders, Seqs
  <2> QED BY <1>1, <1>2, <1>3, <2>1, <2>2 DEF Works
<1>6. WorkScope(v)
  <2>1. v.request = req /\ v.claimScope = scp
    BY <1>2
  <2> HIDE DEF v
  <2>2. \A q \in Requests : req[q] = IF q = r THEN doc ELSE w.request[q]
    BY <1>3 DEF Works
  <2>3. ~ Open(w.request[r]) /\ Open(doc)
    BY DEF Open, NoDoc
  <2>4. ASSUME NEW t \in Tokens, scp[t] # NoHolder
        PROVE  /\ scp[t].req \in Requests
               /\ Open(req[scp[t].req])
               /\ req[scp[t].req].seq = scp[t].seq
               /\ t \in req[scp[t].req].scope
    <3>1. CASE t \in S
      BY <3>1, <2>2, <2>3
    <3>2. CASE t \notin S
      <4>1. scp[t] = w.claimScope[t]
        BY <3>2
      <4>2. scp[t].req # r
        BY <4>1, <2>3, <2>4 DEF WorkInv, WorkScope
      <4> QED BY <4>1, <4>2, <2>2, <2>4 DEF WorkInv, WorkScope
    <3> QED BY <3>1, <3>2
  <2>5. ASSUME NEW q \in Requests, Open(req[q]), NEW t \in req[q].scope
        PROVE  scp[t] = [req |-> q, seq |-> req[q].seq]
    <3>1. CASE q = r
      BY <3>1, <2>2
    <3>2. CASE q # r
      <4>1. req[q] = w.request[q]
        BY <3>2, <2>2
      <4>2. w.claimScope[t] = [req |-> q, seq |-> w.request[q].seq]
        BY <4>1, <2>5 DEF WorkInv, WorkScope
      <4>3. t \in Tokens
        BY <1>3, <4>1, <2>5, OpenDoc DEF Works
      <4>4. t \notin S
        <5>1. w.claimScope[t].req = q
          BY <4>2
        <5>2. NoHolder.req = None
          BY DEF NoHolder
        <5> QED BY <5>1, <5>2, RequestAssumption
      <4> QED BY <4>1, <4>2, <4>3, <4>4
    <3> QED BY <3>1, <3>2
  <2> QED BY <2>1, <2>4, <2>5, SMTT(30) DEF WorkScope
<1> QED BY <1>5, <1>6 DEF WorkInv

\* An ordinary completion: a fresh request, and no token.
LEMMA PushCompletedFresh ==
    ASSUME NEW w, WorkInv(w), NEW r \in Requests, NEW d \in Digests,
           NEW o \in Outcomes, NEW by \in Requests, w.request[r] = NoDoc
    PROVE  WorkInv(Push(w, CompletedEvent(r, d, {}, o, by)))
<1> DEFINE e == CompletedEvent(r, d, {}, o, by)
           doc == [state |-> "completed", digest |-> d, outcome |-> o]
           req == [w.request EXCEPT ![r] = doc]
           v == Push(w, e)
<1>1. e \in Events
  BY DEF CompletedEvent, Events
<1>2. w \in Works
  BY DEF WorkInv
<1>3. w.claimScope = [t \in Tokens |-> w.claimScope[t]]
  BY <1>2 DEF Works
<1>4. v = [events |-> Append(w.events, e), request |-> req,
           claimScope |-> w.claimScope]
  BY <1>3 DEF Push, RequestApply, ScopeApply, CompletedEvent
<1>5. v \in Works
  <2>1. doc \in Docs
    BY DEF Docs, CompletedDocs
  <2>2. req \in [Requests -> Docs]
    BY <1>2, <2>1 DEF Works
  <2>3. Append(w.events, e) \in Seq(Events)
    BY <1>1, <1>2 DEF Works
  <2> HIDE DEF v, e, req
  <2> QED BY <1>2, <1>4, <2>2, <2>3 DEF Works
<1>6. WorkScope(v)
  <2>1. v.request = req /\ v.claimScope = w.claimScope
    BY <1>4
  <2> HIDE DEF v
  <2>2. \A q \in Requests : req[q] = IF q = r THEN doc ELSE w.request[q]
    BY <1>2 DEF Works
  <2>3. ~ Open(w.request[r]) /\ ~ Open(doc)
    BY DEF Open, NoDoc
  <2> QED BY <2>1, <2>2, <2>3 DEF WorkInv, WorkScope
<1> QED BY <1>5, <1>6 DEF WorkInv

\* The completion of an open claim, with the claim's scope.
LEMMA PushCompletedOpen ==
    ASSUME NEW w, WorkInv(w), NEW r \in Requests, NEW d \in Digests,
           NEW o \in Outcomes, NEW by \in Requests, Open(w.request[r])
    PROVE  LET v == Push(w, CompletedEvent(r, d, w.request[r].scope, o, by))
           IN  /\ WorkInv(v)
               /\ \A q \in Requests \ {r} : v.request[q] = w.request[q]
<1> DEFINE S == w.request[r].scope
           e == CompletedEvent(r, d, S, o, by)
           doc == [state |-> "completed", digest |-> d, outcome |-> o]
           req == [w.request EXCEPT ![r] = doc]
           scp == [t \in Tokens |-> IF t \in S /\ w.claimScope[t].req = r
                                    THEN NoHolder ELSE w.claimScope[t]]
           v == Push(w, e)
<1>1. w \in Works
  BY DEF WorkInv
<1>2. S \in SUBSET Tokens
  BY <1>1, OpenDoc DEF Works
<1>3. e \in Events
  BY <1>2 DEF CompletedEvent, Events
<1>4. v = [events |-> Append(w.events, e), request |-> req,
           claimScope |-> scp]
  BY DEF Push, RequestApply, ScopeApply, CompletedEvent
<1>5. v \in Works
  <2>1. doc \in Docs
    BY DEF Docs, CompletedDocs
  <2>2. req \in [Requests -> Docs]
    BY <1>1, <2>1 DEF Works
  <2>3. scp \in [Tokens -> Holders]
    BY <1>1 DEF Works, Holders, NoHolder
  <2> QED BY <1>1, <1>3, <1>4, <2>2, <2>3 DEF Works
<1>6. \A q \in Requests : req[q] = IF q = r THEN doc ELSE w.request[q]
  BY <1>1 DEF Works
<1>7. WorkScope(v)
  <2>1. v.request = req /\ v.claimScope = scp
    BY <1>4
  <2> HIDE DEF v
  <2>2. ~ Open(doc)
    BY DEF Open
  <2>3. \A t \in Tokens : scp[t] # NoHolder =>
            scp[t] = w.claimScope[t] /\ scp[t].req # r
    <3> SUFFICES ASSUME NEW t \in Tokens, scp[t] # NoHolder
                 PROVE  scp[t] = w.claimScope[t] /\ scp[t].req # r
      OBVIOUS
    <3>1. scp[t] = w.claimScope[t] /\ ~ (t \in S /\ w.claimScope[t].req = r)
      OBVIOUS
    <3>2. w.claimScope[t].req = r => t \in S
      BY <3>1 DEF WorkInv, WorkScope
    <3> QED BY <3>1, <3>2
  <2>4. ASSUME NEW q \in Requests, Open(req[q]), NEW t \in req[q].scope
        PROVE  scp[t] = [req |-> q, seq |-> req[q].seq]
    <3>1. q # r /\ req[q] = w.request[q]
      BY <1>6, <2>2, <2>4
    <3>2. w.claimScope[t] = [req |-> q, seq |-> w.request[q].seq]
      BY <3>1, <2>4 DEF WorkInv, WorkScope
    <3>3. t \in Tokens
      BY <1>1, <3>1, <2>4, OpenDoc DEF Works
    <3> QED BY <3>1, <3>2, <3>3
  <2>5. ASSUME NEW t \in Tokens, scp[t] # NoHolder
        PROVE  /\ scp[t].req \in Requests
               /\ Open(req[scp[t].req])
               /\ req[scp[t].req].seq = scp[t].seq
               /\ t \in req[scp[t].req].scope
    <3> HIDE DEF scp, req, doc
    <3> QED BY <1>6, <2>3, <2>5 DEF WorkInv, WorkScope
  <2> HIDE DEF scp, req
  <2> QED BY <2>1, <2>4, <2>5 DEF WorkScope
<1> QED BY <1>4, <1>5, <1>6, <1>7 DEF WorkInv

\* A reconciliation event of an open claim: it stays open, with its tokens.
LEMMA PushReconciled ==
    ASSUME NEW w, WorkInv(w), NEW e \in Events, NEW c \in Requests,
           e.type = "command.reconciled", e.req = c, Open(w.request[c])
    PROVE  /\ WorkInv(Push(w, e))
           /\ Open(Push(w, e).request[c])
           /\ Push(w, e).request[c].scope = w.request[c].scope
           /\ \A q \in Requests \ {c} : Push(w, e).request[q] = w.request[q]
<1> DEFINE old == w.request[c]
           n == Len(w.events) + 1
           doc == [state |-> "awaiting_owner", seq |-> old.seq,
                   at |-> old.at, digest |-> old.digest,
                   scope |-> old.scope, owner |-> old.owner, held |-> n]
           v == Push(w, e)
<1>1. w \in Works /\ n \in Seqs
  BY DEF WorkInv, Works, Seqs
<1>2. /\ old \in Docs /\ old.seq \in Seqs /\ old.at \in Time
      /\ old.digest \in Digests /\ old.scope \in SUBSET Tokens
      /\ old.owner \in Procs
  BY <1>1, OpenDoc DEF Works
<1>3. doc \in Docs
  BY <1>1, <1>2 DEF Docs, HeldDocs
<1>4. v = [events |-> Append(w.events, e),
           request |-> IF e.resolution = "awaiting_owner"
                       THEN [w.request EXCEPT ![c] = doc] ELSE w.request,
           claimScope |-> w.claimScope]
  BY DEF Push, RequestApply, ScopeApply
<1>5. v.request \in [Requests -> Docs]
  BY <1>1, <1>3, <1>4 DEF Works
<1>6. v \in Works
  BY <1>1, <1>4, <1>5 DEF Works
<1>7. /\ \A q \in Requests \ {c} : v.request[q] = w.request[q]
      /\ v.request[c] \in {doc, old}
  BY <1>1, <1>4 DEF Works
<1>8. /\ Open(v.request[c])
      /\ v.request[c].scope = old.scope
      /\ v.request[c].seq = old.seq
  BY <1>7 DEF Open
<1>9. WorkScope(v)
  <2>1. v.claimScope = w.claimScope
    BY <1>4
  <2> HIDE DEF v, doc
  <2>2. \A q \in Requests : /\ Open(v.request[q]) <=> Open(w.request[q])
                            /\ Open(w.request[q]) =>
                                /\ v.request[q].seq = w.request[q].seq
                                /\ v.request[q].scope = w.request[q].scope
    BY <1>7, <1>8
  <2> QED BY <2>1, <2>2 DEF WorkInv, WorkScope
<1> QED BY <1>6, <1>7, <1>8, <1>9 DEF WorkInv

-----------------------------------------------------------------------------
(* What the log says of a request, over a command's work *)

Names(e, r) == e.type # "domain" /\ e.req = r
Completes(e, r) == e.type = "command.completed" /\ e.req = r
Claims(e, r) == e.type = "command.claimed" /\ e.req = r

\* RequestAgrees over a command's work, for one request.
WorkDoc(w, r) ==
    /\ Open(w.request[r]) =>
        /\ w.request[r].seq \in DOMAIN w.events
        /\ Claims(w.events[w.request[r].seq], r)
        /\ w.events[w.request[r].seq].scope = w.request[r].scope
        /\ w.events[w.request[r].seq].owner = w.request[r].owner
        /\ w.events[w.request[r].seq].digest = w.request[r].digest
    /\ w.request[r].state = "completed" =>
        \E i \in DOMAIN w.events :
            /\ Completes(w.events[i], r)
            /\ w.events[i].digest = w.request[r].digest
            /\ w.events[i].outcome = w.request[r].outcome

\* A request with no document is not in the log, one that is not completed
\* has no completion there, each request lives once, and each document says
\* what the log says.
WorkLives(w) ==
    /\ \A r \in Requests : WorkDoc(w, r)
    /\ \A r \in Requests, i \in DOMAIN w.events :
        /\ w.request[r] = NoDoc => ~ Names(w.events[i], r)
        /\ w.request[r].state # "completed" => ~ Completes(w.events[i], r)
    /\ \A i, j \in DOMAIN w.events : i < j =>
        \A r \in Requests :
            /\ ~ (Completes(w.events[i], r) /\ Names(w.events[j], r))
            /\ ~ (Names(w.events[i], r) /\ Claims(w.events[j], r))

\* An event that names a request leaves that request's document agreeing with
\* the log: the event itself is the one the document tells of, or the claim.
LEMMA PushDoc ==
    ASSUME NEW w \in Works, NEW e \in Events, NEW r \in Requests,
           WorkDoc(w, r), Names(e, r),
           e.type = "command.reconciled" => Open(w.request[r])
    PROVE  WorkDoc(Push(w, e), r)
<1> DEFINE v == Push(w, e)
           n == Len(w.events) + 1
<1> SUFFICES WorkDoc(v, r)
  OBVIOUS
<1>1. /\ v.events = Append(w.events, e)
      /\ v.request = RequestApply(w.request, e, n)
  BY DEF Push
<1>2. w.events \in Seq(Events) /\ w.request \in [Requests -> Docs]
  BY DEF Works
<1>3. /\ n \in DOMAIN v.events
      /\ v.events[n] = e
      /\ \A i \in DOMAIN w.events :
            i \in DOMAIN v.events /\ v.events[i] = w.events[i]
  BY <1>1, <1>2
<1>4. e.req = r /\ e.type \in {"command.claimed", "command.completed",
                               "command.reconciled"}
  BY DEF Names, Events
<1> HIDE DEF v, n
<1>5. CASE e.type = "command.claimed"
  <2>1. v.request[r] = [state |-> "claimed", seq |-> n, at |-> e.at,
                        digest |-> e.digest, scope |-> e.scope,
                        owner |-> e.owner]
    BY <1>1, <1>2, <1>4, <1>5 DEF RequestApply
  <2> QED BY <1>3, <1>4, <1>5, <2>1 DEF WorkDoc, Claims
<1>6. CASE e.type = "command.completed"
  <2>1. v.request[r] = [state |-> "completed", digest |-> e.digest,
                        outcome |-> e.outcome]
    BY <1>1, <1>2, <1>4, <1>6 DEF RequestApply
  <2> QED BY <1>3, <1>4, <1>6, <2>1 DEF WorkDoc, Completes, Open
<1>7. CASE e.type = "command.reconciled"
  <2>1. Open(w.request[r])
    BY <1>7
  <2>2. /\ Open(v.request[r])
        /\ v.request[r].seq = w.request[r].seq
        /\ v.request[r].digest = w.request[r].digest
        /\ v.request[r].scope = w.request[r].scope
        /\ v.request[r].owner = w.request[r].owner
    BY <1>1, <1>2, <1>4, <1>7, <2>1 DEF RequestApply, Open
  <2> QED BY <1>3, <2>1, <2>2 DEF WorkDoc, Open
<1> QED BY <1>4, <1>5, <1>6, <1>7

\* An event may be pushed when it concerns no completed request, claims only
\* a fresh one and reconciles only an open one.
LEMMA PushLives ==
    ASSUME NEW w \in Works, WorkLives(w), NEW e \in Events,
           e.type # "domain" => w.request[e.req].state # "completed",
           e.type = "command.claimed" => w.request[e.req] = NoDoc,
           e.type = "command.reconciled" => Open(w.request[e.req])
    PROVE  WorkLives(Push(w, e))
<1> DEFINE v == Push(w, e)
           n == Len(w.events) + 1
<1>1. v.events = Append(w.events, e)
  BY DEF Push
<1>2. w.events \in Seq(Events) /\ w.request \in [Requests -> Docs]
  BY DEF Works
<1>3. /\ DOMAIN v.events = DOMAIN w.events \cup {n}
      /\ v.events[n] = e
      /\ \A i \in DOMAIN w.events : v.events[i] = w.events[i] /\ i < n
      /\ \A i, j \in DOMAIN v.events : i < j => i \in DOMAIN w.events
      /\ n \in Int /\ DOMAIN w.events \subseteq Int
  BY <1>1, <1>2
<1>4. \A r \in Requests : ~ Names(e, r) => v.request[r] = w.request[r]
  <2> SUFFICES ASSUME NEW r \in Requests, ~ Names(e, r)
               PROVE  RequestApply(w.request, e, n)[r] = w.request[r]
    BY DEF Push
  <2>1. CASE e.type = "domain"
    BY <2>1 DEF RequestApply
  <2>2. CASE e.type # "domain"
    <3>1. e.req # r
      BY <2>2 DEF Names
    <3> QED BY <1>2, <3>1 DEF RequestApply
  <2> QED BY <2>1, <2>2
<1>5. ASSUME NEW r \in Requests, Names(e, r)
      PROVE  /\ v.request[r] # NoDoc
             /\ v.request[r].state # "completed" => ~ Completes(e, r)
             /\ w.request[r].state # "completed"
  <2>1. e.type # "domain" /\ e.req = r
    BY <1>5 DEF Names
  <2>2. v.request = RequestApply(w.request, e, n)
    BY DEF Push
  <2>3. CASE e.type = "command.claimed"
    BY <1>2, <2>1, <2>2, <2>3 DEF RequestApply, NoDoc, Completes
  <2>4. CASE e.type = "command.completed"
    BY <1>2, <2>1, <2>2, <2>4 DEF RequestApply, NoDoc, Completes
  <2>5. CASE e.type = "command.reconciled"
    BY <1>2, <2>1, <2>2, <2>5 DEF RequestApply, NoDoc, Completes, Open
  <2>6. e.type \in {"command.claimed", "command.completed",
                    "command.reconciled", "domain"}
    BY DEF Events
  <2> QED BY <2>1, <2>3, <2>4, <2>5, <2>6
<1>6. ASSUME NEW r \in Requests, NEW i \in DOMAIN v.events
      PROVE  /\ v.request[r] = NoDoc => ~ Names(v.events[i], r)
             /\ v.request[r].state # "completed" =>
                    ~ Completes(v.events[i], r)
  <2> HIDE DEF v
  <2>1. CASE Names(e, r)
    BY <1>3, <1>5, <1>6, <2>1 DEF WorkLives
  <2>2. CASE ~ Names(e, r)
    <3>1. ~ Completes(e, r)
      BY <2>2 DEF Names, Completes
    <3> QED BY <1>3, <1>4, <1>6, <2>2, <3>1 DEF WorkLives
  <2> QED BY <2>1, <2>2
<1>7. ASSUME NEW i \in DOMAIN v.events, NEW j \in DOMAIN v.events, i < j,
             NEW r \in Requests
      PROVE  /\ ~ (Completes(v.events[i], r) /\ Names(v.events[j], r))
             /\ ~ (Names(v.events[i], r) /\ Claims(v.events[j], r))
  <2> HIDE DEF v, n
  <2>1. i \in DOMAIN w.events /\ v.events[i] = w.events[i]
    BY <1>3, <1>7
  <2>2. CASE j \in DOMAIN w.events
    BY <1>3, <1>7, <2>1, <2>2 DEF WorkLives
  <2>3. CASE j = n
    <3>1. v.events[j] = e
      BY <1>3, <2>3
    <3>2. CASE Names(e, r)
      <4>1. ~ Completes(w.events[i], r)
        BY <1>5, <2>1, <3>2 DEF WorkLives
      <4>2. Claims(e, r) => ~ Names(w.events[i], r)
        BY <2>1 DEF Claims, WorkLives
      <4> QED BY <2>1, <3>1, <4>1, <4>2
    <3>3. CASE ~ Names(e, r)
      BY <3>1, <3>3 DEF Names, Claims
    <3> QED BY <3>2, <3>3
  <2> QED BY <1>3, <1>7, <2>2, <2>3
<1>8. ASSUME NEW r \in Requests
      PROVE  WorkDoc(v, r)
  <2>1. WorkDoc(w, r)
    BY DEF WorkLives
  <2>2. CASE ~ Names(e, r)
    <3> HIDE DEF v, n
    <3>1. v.request[r] = w.request[r]
      BY <1>4, <2>2
    <3>2. \A i \in DOMAIN w.events :
            i \in DOMAIN v.events /\ v.events[i] = w.events[i]
      BY <1>3
    <3>3. Open(v.request[r]) =>
            /\ v.request[r].seq \in DOMAIN v.events
            /\ Claims(v.events[v.request[r].seq], r)
            /\ v.events[v.request[r].seq].scope = v.request[r].scope
            /\ v.events[v.request[r].seq].owner = v.request[r].owner
            /\ v.events[v.request[r].seq].digest = v.request[r].digest
      BY <2>1, <3>1, <3>2, Zenon DEF WorkDoc
    <3>4. v.request[r].state = "completed" =>
            \E i \in DOMAIN v.events :
                /\ Completes(v.events[i], r)
                /\ v.events[i].digest = v.request[r].digest
                /\ v.events[i].outcome = v.request[r].outcome
      <4>1. SUFFICES ASSUME v.request[r].state = "completed"
                     PROVE  \E i \in DOMAIN v.events :
                                /\ Completes(v.events[i], r)
                                /\ v.events[i].digest = v.request[r].digest
                                /\ v.events[i].outcome = v.request[r].outcome
        OBVIOUS
      <4>2. PICK i \in DOMAIN w.events :
                /\ Completes(w.events[i], r)
                /\ w.events[i].digest = w.request[r].digest
                /\ w.events[i].outcome = w.request[r].outcome
        BY <2>1, <3>1, <4>1 DEF WorkDoc
      <4> QED BY <3>1, <3>2, <4>2
    <3> QED BY <3>3, <3>4 DEF WorkDoc
  <2>3. CASE Names(e, r)
    <3>1. e.type = "command.reconciled" => Open(w.request[r])
      BY <2>3 DEF Names
    <3> QED BY <2>1, <2>3, <3>1, PushDoc
  <2> QED BY <2>2, <2>3
<1>9. WorkLives(v)
  <2> HIDE DEF v
  <2> QED BY <1>6, <1>7, <1>8 DEF WorkLives
<1> QED BY <1>9

-----------------------------------------------------------------------------
(* What the log says of holds and of facts *)

AwaitsOwner(e, r) ==
    e.type = "command.reconciled" /\ e.req = r /\ e.resolution = "awaiting_owner"

\* The last event of a command's work so far is a reconciliation of r.
Reconciling(w, r) ==
    /\ Len(w.events) \in DOMAIN w.events
    /\ w.events[Len(w.events)].type = "command.reconciled"
    /\ w.events[Len(w.events)].req = r

\* HeldUntilOwner over a command's work: a claim that was held waits for the
\* owner until it is completed, and its events after the hold are the owner's.
WorkHeld(w) ==
    /\ \A r \in Requests, i \in DOMAIN w.events :
        AwaitsOwner(w.events[i], r) =>
            w.request[r].state \in {"awaiting_owner", "completed"}
    /\ \A r \in Requests, i, j \in DOMAIN w.events :
        i < j /\ AwaitsOwner(w.events[i], r) /\ Names(w.events[j], r) =>
            \/ w.events[j].type = "command.reconciled" /\ w.events[j].actor = "owner"
            \/ /\ w.events[j].type = "command.completed"
               /\ w.events[j].by # r
               /\ j - 1 \in DOMAIN w.events
               /\ w.events[j - 1].type = "command.reconciled"
               /\ w.events[j - 1].req = r

\* NoFactUnderForeignClaim over a command's work.
WorkFacts(w) ==
    \A i, j \in DOMAIN w.events :
        /\ i < j
        /\ w.events[i].type = "command.claimed"
        /\ w.events[j].type = "domain"
        /\ w.events[j].under \cap w.events[i].scope # {}
        /\ w.events[j].within # w.events[i].req
        => \E k \in DOMAIN w.events :
              i <= k /\ k <= j /\ Completes(w.events[k], w.events[i].req)

\* What may be said of a request whose claim is held: the owner's
\* reconciliation, and a completion right after one.
MayFollow(w, e) ==
    /\ e.type # "domain" => w.request[e.req].state # "completed"
    /\ e.type = "command.claimed" => w.request[e.req] = NoDoc
    /\ e.type = "command.reconciled" =>
        /\ Open(w.request[e.req])
        /\ w.request[e.req].state = "awaiting_owner" => e.actor = "owner"
    /\ e.type = "command.completed" =>
        \/ w.request[e.req].state # "awaiting_owner"
        \/ e.by # e.req /\ Reconciling(w, e.req)

\* An event that may follow keeps what was held with the owner.
LEMMA PushHeld ==
    ASSUME NEW w \in Works, WorkHeld(w), NEW e \in Events, MayFollow(w, e)
    PROVE  WorkHeld(Push(w, e))
<1> DEFINE v == Push(w, e)
           n == Len(w.events) + 1
<1>1. v.events = Append(w.events, e) /\ v.request = RequestApply(w.request, e, n)
  BY DEF Push
<1>2. w.events \in Seq(Events) /\ w.request \in [Requests -> Docs]
  BY DEF Works
<1>3. /\ DOMAIN v.events = DOMAIN w.events \cup {n}
      /\ v.events[n] = e
      /\ \A i \in DOMAIN w.events : v.events[i] = w.events[i] /\ i < n
      /\ \A i, j \in DOMAIN v.events : i < j => i \in DOMAIN w.events
      /\ n \in Int /\ DOMAIN w.events \subseteq Int /\ n - 1 = Len(w.events)
  BY <1>1, <1>2
<1>4. e.type \in {"command.claimed", "command.completed", "command.reconciled", "domain"}
  BY DEF Events
<1>5. e.type # "domain" => e.req \in Requests
  BY DEF Events
<1>6. ASSUME NEW r \in Requests
      PROVE  /\ w.request[r].state \in {"awaiting_owner", "completed"} =>
                    v.request[r].state \in {"awaiting_owner", "completed"}
             /\ AwaitsOwner(e, r) => v.request[r].state = "awaiting_owner"
  <2>1. CASE e.type = "domain"
    BY <1>1, <2>1 DEF RequestApply, AwaitsOwner
  <2>2. CASE e.type = "command.claimed"
    BY <1>1, <1>2, <1>5, <2>2 DEF RequestApply, AwaitsOwner, MayFollow, NoDoc
  <2>3. CASE e.type = "command.completed"
    BY <1>1, <1>2, <1>5, <2>3 DEF RequestApply, AwaitsOwner
  <2>4. CASE e.type = "command.reconciled"
    BY <1>1, <1>2, <1>5, <2>4 DEF RequestApply, AwaitsOwner
  <2> QED BY <1>4, <2>1, <2>2, <2>3, <2>4
<1> HIDE DEF v, n
<1>7. ASSUME NEW r \in Requests, NEW i \in DOMAIN v.events, AwaitsOwner(v.events[i], r)
      PROVE  v.request[r].state \in {"awaiting_owner", "completed"}
  BY <1>3, <1>6, <1>7 DEF WorkHeld
<1>8. ASSUME NEW r \in Requests, NEW i \in DOMAIN v.events, NEW j \in DOMAIN v.events,
             i < j, AwaitsOwner(v.events[i], r), Names(v.events[j], r)
      PROVE  \/ v.events[j].type = "command.reconciled" /\ v.events[j].actor = "owner"
             \/ /\ v.events[j].type = "command.completed"
                /\ v.events[j].by # r
                /\ j - 1 \in DOMAIN v.events
                /\ v.events[j - 1].type = "command.reconciled"
                /\ v.events[j - 1].req = r
  <2>1. i \in DOMAIN w.events /\ AwaitsOwner(w.events[i], r)
    BY <1>3, <1>8
  <2>2. CASE j \in DOMAIN w.events
    BY <1>3, <1>8, <2>1, <2>2 DEF WorkHeld
  <2>3. CASE j = n
    <3>1. w.request[r].state \in {"awaiting_owner", "completed"}
      BY <2>1 DEF WorkHeld
    <3>2. e.type # "domain" /\ e.req = r /\ v.events[j] = e
      BY <1>3, <1>8, <2>3 DEF Names
    <3>3. w.request[r].state = "awaiting_owner" /\ e.type # "command.claimed"
      BY <3>1, <3>2 DEF MayFollow, NoDoc
    <3>4. CASE e.type = "command.reconciled"
      BY <3>2, <3>3, <3>4 DEF MayFollow
    <3>5. CASE e.type = "command.completed"
      <4>1. e.by # r /\ Reconciling(w, r)
        BY <3>2, <3>3, <3>5 DEF MayFollow
      <4> QED BY <1>3, <2>3, <3>2, <3>5, <4>1 DEF Reconciling
    <3> QED BY <1>4, <3>2, <3>3, <3>4, <3>5
  <2> QED BY <1>3, <2>2, <2>3
<1>9. WorkHeld(v)
  BY <1>7, <1>8 DEF WorkHeld
<1> QED BY <1>9 DEF v

\* A fact is recorded where the scope check let it: the claims that hold its
\* tokens are the one the check left out, so every other claim of them that
\* the log tells of was completed.
LEMMA PushFacts ==
    ASSUME NEW w \in Works, WorkScope(w), WorkLives(w), WorkFacts(w), NEW e \in Events,
           e.type = "domain" => \A t \in e.under :
               w.claimScope[t] # NoHolder => w.claimScope[t].req = e.within
    PROVE  WorkFacts(Push(w, e))
<1> DEFINE v == Push(w, e)
           n == Len(w.events) + 1
<1>1. v.events = Append(w.events, e)
  BY DEF Push
<1>2. w.events \in Seq(Events)
  BY DEF Works
<1>3. /\ DOMAIN v.events = DOMAIN w.events \cup {n}
      /\ v.events[n] = e
      /\ \A i \in DOMAIN w.events : v.events[i] = w.events[i] /\ i < n
      /\ \A i, j \in DOMAIN v.events : i < j => i \in DOMAIN w.events
      /\ n \in Int /\ DOMAIN w.events \subseteq Int
  BY <1>1, <1>2
<1> HIDE DEF v, n
<1>4. ASSUME NEW i \in DOMAIN v.events, NEW j \in DOMAIN v.events, i < j,
             v.events[i].type = "command.claimed", v.events[j].type = "domain",
             v.events[j].under \cap v.events[i].scope # {},
             v.events[j].within # v.events[i].req
      PROVE  \E k \in DOMAIN v.events :
                i <= k /\ k <= j /\ Completes(v.events[k], v.events[i].req)
  <2>1. i \in DOMAIN w.events /\ v.events[i] = w.events[i]
    BY <1>3, <1>4
  <2>2. CASE j \in DOMAIN w.events
    <3>1. PICK k \in DOMAIN w.events :
              i <= k /\ k <= j /\ Completes(w.events[k], w.events[i].req)
      BY <1>3, <1>4, <2>1, <2>2 DEF WorkFacts
    <3> QED BY <1>3, <2>1, <3>1
  <2>3. CASE j = n
    <3> DEFINE r == w.events[i].req
    <3>1. w.events[i] \in Events
      BY <1>2, <2>1
    <3>2. r \in Requests /\ Claims(w.events[i], r) /\ Names(w.events[i], r)
      BY <1>4, <2>1, <3>1 DEF Claims, Names, Events
    <3>3. WorkDoc(w, r) /\ w.request[r] # NoDoc /\ w.request[r] \in Docs
      BY <2>1, <3>2 DEF WorkLives, Works
    <3>4. v.events[j] = e /\ e.type = "domain"
      BY <1>3, <1>4, <2>3
    <3> HIDE DEF r
    <3>5. CASE Open(w.request[r])
      <4> DEFINE q == w.request[r].seq
      <4>1. q \in DOMAIN w.events /\ Claims(w.events[q], r)
        BY <3>3, <3>5 DEF WorkDoc
      <4>2. q = i
        <5>1. Names(w.events[q], r)
          BY <4>1 DEF Claims, Names
        <5>2. q \in Int /\ i \in Int
          BY <1>3, <2>1, <4>1
        <5> HIDE DEF q
        <5>3. ~ (q < i) /\ ~ (i < q)
          BY <2>1, <3>2, <4>1, <5>1 DEF WorkLives
        <5> QED BY <5>2, <5>3
      <4>3. w.request[r].scope = w.events[i].scope
        BY <3>3, <3>5, <4>2 DEF WorkDoc
      <4>4. PICK t \in e.under : t \in w.request[r].scope
        BY <1>4, <2>1, <3>4, <4>3
      <4>5. w.claimScope[t] = [req |-> r, seq |-> w.request[r].seq]
        BY <3>2, <3>5, <4>4 DEF WorkScope
      <4>6. w.claimScope[t].req = r /\ w.claimScope[t] # NoHolder
        BY <3>2, <4>5, RequestAssumption DEF NoHolder
      <4>7. r = e.within
        BY <3>4, <4>4, <4>6
      <4> QED BY <1>4, <2>1, <3>4, <4>7 DEF r
    <3>6. CASE w.request[r].state = "completed"
      <4>1. PICK k \in DOMAIN w.events : Completes(w.events[k], r)
        BY <3>3, <3>6 DEF WorkDoc
      <4>2. ~ (k < i)
        BY <2>1, <3>2, <4>1 DEF WorkLives
      <4>3. k \in Int /\ i \in Int /\ k < j
        BY <1>3, <2>1, <2>3, <4>1
      <4> QED BY <1>3, <2>1, <4>1, <4>2, <4>3 DEF r
    <3>7. Open(w.request[r]) \/ w.request[r].state = "completed"
      BY <3>3 DEF Docs, ClaimedDocs, HeldDocs, CompletedDocs, Open
    <3> QED BY <3>5, <3>6, <3>7
  <2> QED BY <1>3, <2>2, <2>3
<1>5. WorkFacts(v)
  BY <1>4 DEF WorkFacts
<1> QED BY <1>5 DEF v

\* All that the log tells, over a command's work.
WorkLog(w) == WorkLives(w) /\ WorkHeld(w) /\ WorkFacts(w)

\* An event that may follow, and no fact under a claim's tokens, keeps it.
LEMMA PushLog ==
    ASSUME NEW w \in Works, WorkScope(w), WorkLog(w), NEW e \in Events, MayFollow(w, e),
           e.type = "domain" => \A t \in e.under :
               w.claimScope[t] # NoHolder => w.claimScope[t].req = e.within
    PROVE  WorkLog(Push(w, e))
<1>1. WorkLives(Push(w, e))
  BY PushLives DEF WorkLog, MayFollow
<1>2. WorkHeld(Push(w, e))
  BY PushHeld DEF WorkLog
<1>3. WorkFacts(Push(w, e))
  BY PushFacts DEF WorkLog
<1> QED BY <1>1, <1>2, <1>3 DEF WorkLog

-----------------------------------------------------------------------------
(* The inductive invariant *)

\* The answers and the leases, with what the scope check needs.
StateOK ==
    /\ lease \in [Requests -> Leases]
    /\ now \in Time
    /\ answers \subseteq [req : Requests, digest : Digests, outcome : Outcomes]

\* ScopeAgrees, OneLifeInLog and AnswersAgree made inductive: the log, the two
\* views and the callers' answers tell the same story of every request.
ClaimsInv ==
    /\ StateOK
    /\ WorkInv(Work)
    /\ WorkLog(Work)
    /\ AnswersAgree

\* The facts of a decision change no view and no request's history.
LEMMA DecidedFacts ==
    ASSUME NEW w, WorkInv(w), WorkLog(w), NEW facts \in BOOLEAN,
           NEW S \in SUBSET Tokens, NEW c \in Requests \cup {None},
           w = Work, Unblocked(S, c)
    PROVE  /\ WorkInv(Decided(w, facts, S, c))
           /\ WorkLog(Decided(w, facts, S, c))
           /\ Decided(w, facts, S, c).request = w.request
           /\ Decided(w, facts, S, c).claimScope = w.claimScope
<1>1. CASE facts
  <2>1. DomainEvent(S, c) \in Events /\ DomainEvent(S, c).type = "domain"
    BY DEF DomainEvent, Events
  <2>2. WorkLog(Push(w, DomainEvent(S, c)))
    <3> DEFINE e == DomainEvent(S, c)
    <3>1. \A t \in e.under : w.claimScope[t] # NoHolder => w.claimScope[t].req = e.within
      BY DEF Unblocked, DomainEvent, Work
    <3>2. MayFollow(w, e)
      BY <2>1 DEF MayFollow
    <3> HIDE DEF e
    <3> QED BY <2>1, <3>1, <3>2, PushLog DEF WorkInv, e
  <2> QED BY <1>1, <2>2, PushDomain DEF Decided
<1>2. CASE ~ facts
  BY <1>2 DEF Decided
<1> QED BY <1>1, <1>2

\* Likewise, of the state a command begins from.
LEMMA DecidedWork ==
    ASSUME WorkInv(Work), WorkLog(Work), NEW facts \in BOOLEAN,
           NEW S \in SUBSET Tokens, NEW c \in Requests \cup {None}, Unblocked(S, c)
    PROVE  /\ WorkInv(Decided(Work, facts, S, c))
           /\ WorkLog(Decided(Work, facts, S, c))
           /\ Decided(Work, facts, S, c).request = request
           /\ Decided(Work, facts, S, c).claimScope = claimScope
<1> DEFINE w == Work
<1>1. w.request = request /\ w.claimScope = claimScope
  BY DEF Work
<1> HIDE DEF w
<1> QED BY <1>1, DecidedFacts DEF w

\* An ordinary completion of a fresh request: its own document alone changes.
LEMMA CompletedFresh ==
    ASSUME NEW w, WorkInv(w), WorkLog(w), NEW r \in Requests,
           NEW d \in Digests, NEW o \in Outcomes, w.request[r] = NoDoc
    PROVE  LET v == Push(w, CompletedEvent(r, d, {}, o, r))
           IN  /\ WorkInv(v) /\ WorkLog(v)
               /\ v.request = [w.request EXCEPT ![r] =
                    [state |-> "completed", digest |-> d, outcome |-> o]]
<1> DEFINE e == CompletedEvent(r, d, {}, o, r)
<1>1. e \in Events /\ e.type = "command.completed" /\ e.req = r
  BY DEF CompletedEvent, Events
<1>2. w \in Works /\ WorkInv(Push(w, e))
  BY PushCompletedFresh DEF WorkInv
<1>3. MayFollow(w, e)
  BY <1>1 DEF MayFollow, NoDoc
<1>4. WorkLog(Push(w, e))
  <2> HIDE DEF e
  <2> QED BY <1>1, <1>2, <1>3, PushLog DEF WorkInv
<1>5. Push(w, e).request = [w.request EXCEPT ![r] =
                    [state |-> "completed", digest |-> d, outcome |-> o]]
  BY DEF Push, RequestApply, CompletedEvent
<1> QED BY <1>2, <1>4, <1>5

\* The completion of an open claim with its own scope.
LEMMA CompletedOpen ==
    ASSUME NEW w, WorkInv(w), WorkLog(w), NEW r \in Requests,
           NEW d \in Digests, NEW o \in Outcomes, NEW by \in Requests,
           Open(w.request[r]), NEW S, S = w.request[r].scope,
           w.request[r].state = "claimed" \/ (by # r /\ Reconciling(w, r))
    PROVE  /\ WorkInv(Push(w, CompletedEvent(r, d, S, o, by)))
           /\ WorkLog(Push(w, CompletedEvent(r, d, S, o, by)))
           /\ Push(w, CompletedEvent(r, d, S, o, by)).request =
                [w.request EXCEPT ![r] =
                    [state |-> "completed", digest |-> d, outcome |-> o]]
<1> DEFINE e == CompletedEvent(r, d, S, o, by)
<1>1. w \in Works /\ WorkInv(Push(w, e))
  BY PushCompletedOpen DEF WorkInv
<1>2. S \in SUBSET Tokens
  BY <1>1, OpenDoc DEF Works
<1>3. e \in Events /\ e.type = "command.completed" /\ e.req = r
  BY <1>2 DEF CompletedEvent, Events
<1>4. MayFollow(w, e)
  BY <1>3 DEF MayFollow, Open, CompletedEvent
<1>5. WorkLog(Push(w, e))
  <2> HIDE DEF e
  <2> QED BY <1>1, <1>3, <1>4, PushLog DEF WorkInv
<1>6. Push(w, e).request = [w.request EXCEPT ![r] =
                    [state |-> "completed", digest |-> d, outcome |-> o]]
  BY DEF Push, RequestApply, CompletedEvent
<1> QED BY <1>1, <1>5, <1>6

\* A reconciliation event leaves the claim open and completed requests alone.
LEMMA Reconciled ==
    ASSUME NEW w, WorkInv(w), WorkLog(w), NEW c \in Requests,
           Open(w.request[c]), NEW n \in Seqs,
           NEW res \in {"resolved", "awaiting_owner"},
           NEW actor \in {"owner", "baley"},
           w.request[c].state = "awaiting_owner" => actor = "owner"
    PROVE  LET v == Push(w, ReconciledEvent(c, n, res, actor))
           IN  /\ WorkInv(v) /\ WorkLog(v)
               /\ Open(v.request[c]) /\ Reconciling(v, c)
               /\ v.request[c].scope = w.request[c].scope
               /\ \A q \in Requests \ {c} : v.request[q] = w.request[q]
<1> DEFINE e == ReconciledEvent(c, n, res, actor)
<1>1. w \in Works
  BY DEF WorkInv
<1>2. e \in Events /\ e.type = "command.reconciled" /\ e.req = c
  BY DEF ReconciledEvent, Events
<1>3. MayFollow(w, e)
  BY <1>2 DEF MayFollow, Open, ReconciledEvent
<1> HIDE DEF e
<1>4. WorkLog(Push(w, e)) /\ Reconciling(Push(w, e), c)
  <2>1. WorkLog(Push(w, e))
    BY <1>1, <1>2, <1>3, PushLog DEF WorkInv
  <2>2. Push(w, e).events = Append(w.events, e) /\ w.events \in Seq(Events)
    BY <1>1 DEF Push, Works
  <2> QED BY <1>2, <2>1, <2>2 DEF Reconciling
<1>5. /\ WorkInv(Push(w, e))
      /\ Open(Push(w, e).request[c])
      /\ Push(w, e).request[c].scope = w.request[c].scope
      /\ \A q \in Requests \ {c} : Push(w, e).request[q] = w.request[q]
  BY <1>2, PushReconciled
<1> USE DEF e
<1> QED BY <1>4, <1>5

\* Writing a command's work makes it the state.
LEMMA WriteWork ==
    ASSUME NEW w \in Works, Write(w)
    PROVE  Work' = w /\ request' = w.request
BY DEF Write, Work, Works

\* Answers already given stand when only a request that was not completed
\* changes, and a new answer is the one just recorded.
LEMMA AnswersStand ==
    ASSUME AnswersAgree, StateOK, NEW r \in Requests, NEW d \in Digests,
           NEW o \in Outcomes, Answer(r, d, o),
           \A q \in Requests : request[q].state = "completed" =>
                                request'[q] = request[q],
           request'[r].state = "completed", request'[r].digest = d,
           request'[r].outcome = o
    PROVE  /\ AnswersAgree'
           /\ answers' \subseteq [req : Requests, digest : Digests,
                                  outcome : Outcomes]
<1>1. \A a \in answers : a.req \in Requests
  BY DEF StateOK
<1>2. answers' = answers \cup {[req |-> r, digest |-> d, outcome |-> o]}
  BY DEF Answer
<1>3. AnswersAgree'
  BY <1>1, <1>2 DEF AnswersAgree
<1> QED BY <1>2, <1>3 DEF StateOK

\* A token that no claim may block is free.
LEMMA FreeTokens ==
    ASSUME NEW S \in SUBSET Tokens, Unblocked(S, None)
    PROVE  \A t \in S : claimScope[t] = NoHolder
BY RequestAssumption DEF Unblocked, RowValid

\* An empty ledger satisfies the invariant.
LEMMA InitInv == Init => ClaimsInv
<1> SUFFICES ASSUME Init PROVE ClaimsInv
  OBVIOUS
<1>1. StateOK /\ AnswersAgree
  BY BoundAssumption DEF Init, StateOK, AnswersAgree, Time, Leases, NoLease
<1>2. Work \in Works
  BY DEF Init, Work, Works, Docs, Holders, NoHolder
<1>3. WorkScope(Work)
  BY DEF Init, Work, WorkScope, Open, NoDoc
<1>4. WorkLog(Work)
  BY DEF Init, Work, WorkLog, WorkLives, WorkHeld, WorkFacts, WorkDoc, Open, NoDoc
<1> QED BY <1>1, <1>2, <1>3, <1>4 DEF ClaimsInv, WorkInv

\* A replay records an answer that the request document already holds.
LEMMA ReplayInv ==
    ASSUME ClaimsInv, NEW r \in Requests, NEW d \in Digests, Replay(r, d)
    PROVE  ClaimsInv'
<1>1. request[r] \in Docs /\ request[r].state = "completed"
  BY DEF ClaimsInv, WorkInv, Works, Work, Replay
<1>2. request[r].outcome \in Outcomes
  BY <1>1 DEF Docs, NoDoc, ClaimedDocs, HeldDocs, CompletedDocs
<1>3. Work' = Work
  BY DEF Replay, Work
<1>4. /\ AnswersAgree'
      /\ answers' \subseteq [req : Requests, digest : Digests,
                             outcome : Outcomes]
  <2> DEFINE o == request[r].outcome
  <2>1. /\ Answer(r, d, o) /\ request' = request
        /\ request[r].state = "completed" /\ request[r].digest = d
    BY DEF Replay
  <2>2. o \in Outcomes
    BY <1>2
  <2> QED BY <2>1, <2>2, AnswersStand DEF ClaimsInv
<1> QED BY <1>3, <1>4 DEF ClaimsInv, StateOK, Replay

\* A transaction, and a refused claim, complete a fresh request.
LEMMA FreshInv ==
    ASSUME ClaimsInv, NEW r \in Requests, NEW d \in Digests,
           NEW S \in SUBSET Tokens, NEW facts \in BOOLEAN,
           NEW o \in Outcomes, request[r] = NoDoc, Unblocked(S, None),
           Write(Push(Decided(Work, facts, S, None),
                      CompletedEvent(r, d, {}, o, r))),
           Answer(r, d, o), UNCHANGED <<lease, now>>
    PROVE  ClaimsInv'
<1> DEFINE w == Decided(Work, facts, S, None)
           v == Push(w, CompletedEvent(r, d, {}, o, r))
           doc == [state |-> "completed", digest |-> d, outcome |-> o]
<1>1. WorkInv(w) /\ WorkLog(w) /\ w.request = request
  BY DecidedWork DEF ClaimsInv
<1>2. /\ WorkInv(v) /\ WorkLog(v)
      /\ v.request = [request EXCEPT ![r] = doc]
  <2> HIDE DEF w
  <2> QED BY <1>1, CompletedFresh
<1>3. Work' = v /\ request' = v.request
  <2>1. v \in Works
    BY <1>2 DEF WorkInv
  <2> HIDE DEF v
  <2> QED BY <2>1, WriteWork DEF v
<1>4. request \in [Requests -> Docs]
  BY DEF ClaimsInv, WorkInv, Works, Work
<1> HIDE DEF v, w
<1>5. /\ request'[r] = doc
      /\ \A q \in Requests \ {r} : request'[q] = request[q]
  BY <1>2, <1>3, <1>4
<1>6. \A q \in Requests : request[q].state = "completed" =>
                          request'[q] = request[q]
  BY <1>5 DEF NoDoc
<1>7. /\ AnswersAgree'
      /\ answers' \subseteq [req : Requests, digest : Digests,
                             outcome : Outcomes]
  BY <1>5, <1>6, AnswersStand DEF ClaimsInv
<1> QED BY <1>2, <1>3, <1>7 DEF ClaimsInv, StateOK

\* Taking a claim keeps the invariant: its tokens were free and its request new.
LEMMA ClaimInv ==
    ASSUME ClaimsInv, NEW r \in Requests, NEW d \in Digests,
           NEW S \in SUBSET Tokens, NEW p \in Procs, NEW facts \in BOOLEAN,
           NEW at \in 0..now, Claim(r, d, S, p, facts, at)
    PROVE  ClaimsInv'
<1> DEFINE e == ClaimedEvent(r, d, S, p, at)
           w == Decided(Work, facts, S, None)
           v == Push(w, e)
<1>1. /\ request[r] = NoDoc /\ Write(v)
      /\ lease' = [lease EXCEPT ![r] = [seq |-> Len(v.events), at |-> at]]
      /\ now' = now /\ answers' = answers
  BY DEF Claim
<1>2. at \in Time
  BY BoundAssumption DEF ClaimsInv, StateOK, Time
<1>3. \A t \in S : claimScope[t] = NoHolder
  BY FreeTokens DEF Claim
<1>4. /\ WorkInv(w) /\ WorkLog(w)
      /\ w.request = request /\ w.claimScope = claimScope
  BY DecidedWork DEF ClaimsInv, Claim
<1>5. w \in Works
  BY <1>4 DEF WorkInv
<1> HIDE DEF w
<1>6. WorkInv(v)
  <2> HIDE DEF v
  <2>1. w.request[r] = NoDoc /\ \A t \in S : w.claimScope[t] = NoHolder
    BY <1>1, <1>3, <1>4
  <2> QED BY <1>2, <1>4, <2>1, PushClaimed DEF v
<1>7. e \in Events /\ e.type = "command.claimed" /\ e.req = r
  BY <1>2 DEF ClaimedEvent, Events
<1>8. request[r].state # "completed"
  BY <1>1 DEF NoDoc
<1>9. WorkLog(v)
  <2>1. MayFollow(w, e)
    BY <1>1, <1>4, <1>7, <1>8 DEF MayFollow
  <2> HIDE DEF e
  <2> QED BY <1>4, <1>5, <1>7, <2>1, PushLog DEF WorkInv
<1>10. Work' = v /\ request' = v.request
  <2>1. v \in Works
    BY <1>6 DEF WorkInv
  <2> HIDE DEF v
  <2> QED BY <1>1, <2>1, WriteWork
<1>11. request \in [Requests -> Docs] /\ v.events \in Seq(Events)
  BY <1>4, <1>5, <1>6 DEF WorkInv, Works
<1>12. \A q \in Requests \ {r} : request'[q] = request[q]
  BY <1>4, <1>10, <1>11 DEF Push, RequestApply, ClaimedEvent
<1> HIDE DEF v, e
<1>13. AnswersAgree'
  <2>1. \A a \in answers : a.req \in Requests /\ a.req # r
    BY <1>8 DEF ClaimsInv, StateOK, AnswersAgree
  <2> QED BY <1>1, <1>12, <2>1 DEF ClaimsInv, AnswersAgree
<1>14. StateOK'
  <2>1. [seq |-> Len(v.events), at |-> at] \in Leases
    BY <1>2, <1>11 DEF Leases
  <2> QED BY <1>1, <2>1 DEF ClaimsInv, StateOK
<1> QED BY <1>6, <1>9, <1>10, <1>13, <1>14 DEF ClaimsInv

\* A renewal writes a lease row and touches neither the log nor a view.
LEMMA RenewLeaseInv ==
    ASSUME ClaimsInv, NEW r \in Requests, NEW p \in Procs, NEW at \in 0..now,
           RenewLease(r, p, at)
    PROVE  ClaimsInv'
<1>1. at \in Time
  BY BoundAssumption DEF ClaimsInv, StateOK, Time
<1>2. request[r] \in Docs /\ Open(request[r])
  BY DEF ClaimsInv, WorkInv, Works, Work, RenewLease, Open
<1>3. [seq |-> request[r].seq, at |-> at] \in Leases
  BY <1>1, <1>2, OpenDoc DEF Leases, Seqs
<1>4. Work' = Work /\ StateOK' /\ AnswersAgree'
  BY <1>3 DEF RenewLease, Work, ClaimsInv, StateOK, AnswersAgree
<1> QED BY <1>4 DEF ClaimsInv

\* The owner's completion closes its own claim and releases its own tokens.
LEMMA CompleteInv ==
    ASSUME ClaimsInv, NEW r \in Requests, NEW d \in Digests,
           NEW S \in SUBSET Tokens, NEW p \in Procs, NEW facts \in BOOLEAN,
           NEW o \in Outcomes, Complete(r, d, S, p, facts, o)
    PROVE  ClaimsInv'
<1> DEFINE w == Decided(Work, facts, S, r)
           v == Push(w, CompletedEvent(r, d, S, o, r))
           doc == [state |-> "completed", digest |-> d, outcome |-> o]
<1>1. /\ Open(request[r]) /\ request[r].state = "claimed"
      /\ request[r].scope = S /\ Write(v)
      /\ lease' = [lease EXCEPT ![r] = NoLease]
      /\ Answer(r, d, o) /\ now' = now
  BY DEF Complete, Open
<1>2. WorkInv(w) /\ WorkLog(w) /\ w.request = request
  BY DecidedWork DEF ClaimsInv, Complete
<1>3. /\ WorkInv(v) /\ WorkLog(v)
      /\ v.request = [request EXCEPT ![r] = doc]
  <2> HIDE DEF w
  <2>1. w.request[r].scope = S /\ w.request[r].state = "claimed"
    BY <1>1, <1>2
  <2>2. /\ WorkInv(v) /\ WorkLog(v)
        /\ v.request = [w.request EXCEPT ![r] = doc]
    BY <1>1, <1>2, <2>1, CompletedOpen
  <2> QED BY <1>2, <2>2
<1>4. Work' = v /\ request' = v.request
  <2>1. v \in Works
    BY <1>3 DEF WorkInv
  <2> HIDE DEF v
  <2> QED BY <1>1, <2>1, WriteWork
<1>5. request \in [Requests -> Docs]
  BY DEF ClaimsInv, WorkInv, Works, Work
<1> HIDE DEF v, w
<1>6. /\ request'[r] = doc
      /\ \A q \in Requests \ {r} : request'[q] = request[q]
  BY <1>3, <1>4, <1>5
<1>7. \A q \in Requests : request[q].state = "completed" =>
                          request'[q] = request[q]
  BY <1>1, <1>6
<1>8. /\ AnswersAgree'
      /\ answers' \subseteq [req : Requests, digest : Digests,
                             outcome : Outcomes]
  BY <1>1, <1>6, <1>7, AnswersStand DEF ClaimsInv
<1>9. lease' \in [Requests -> Leases]
  <2>1. NoLease \in Leases
    BY BoundAssumption DEF NoLease, Leases, Time
  <2> QED BY <1>1, <2>1 DEF ClaimsInv, StateOK
<1> QED BY <1>1, <1>3, <1>4, <1>8, <1>9 DEF ClaimsInv, StateOK

\* A resolving reconciliation closes the claim it names and then completes its
\* own request: four events, composed in the order the command pushes them.
LEMMA ResolveInv ==
    ASSUME ClaimsInv, NEW q \in Requests, NEW d \in Digests,
           NEW S \in SUBSET Tokens, NEW c \in Requests,
           NEW authority \in {"automatic", "owner"},
           NEW actor \in {"owner", "baley"}, NEW at \in 0..now,
           NEW facts \in BOOLEAN, NEW o \in Outcomes, NEW oq \in Outcomes,
           Resolve(q, d, S, c, authority, actor, at, facts, o, oq)
    PROVE  ClaimsInv'
<1> DEFINE old == request[c]
           w1 == Decided(Work, facts, S, c)
           w2 == Push(w1, ReconciledEvent(c, old.seq, "resolved", actor))
           w3 == Push(w2, CompletedEvent(c, old.digest, old.scope, o, q))
           w4 == Push(w3, CompletedEvent(q, d, {}, oq, q))
           docq == [state |-> "completed", digest |-> d, outcome |-> oq]
<1>1. /\ request[q] = NoDoc /\ Open(old) /\ Write(w4)
      /\ lease' = [lease EXCEPT ![c] = NoLease]
      /\ Answer(q, d, oq) /\ now' = now
  BY DEF Resolve, MayReconcile
<1>2. q # c /\ old.state # "completed" /\ request[q].state # "completed"
  BY <1>1 DEF Open, NoDoc
<1>3. request \in [Requests -> Docs]
  BY DEF ClaimsInv, WorkInv, Works, Work
<1>4. old.seq \in Seqs /\ old.digest \in Digests
  BY <1>1, <1>3, OpenDoc
<1>5. WorkInv(w1) /\ WorkLog(w1) /\ w1.request = request
  BY DecidedWork DEF ClaimsInv, Resolve
<1>6. /\ WorkInv(w2) /\ WorkLog(w2) /\ Open(w2.request[c]) /\ Reconciling(w2, c)
      /\ w2.request[c].scope = old.scope
      /\ \A r \in Requests \ {c} : w2.request[r] = request[r]
  <2> HIDE DEF w1
  <2>1. /\ "resolved" \in {"resolved", "awaiting_owner"} /\ Open(w1.request[c])
        /\ w1.request[c].state = "awaiting_owner" => actor = "owner"
    BY <1>1, <1>5 DEF Resolve, MayReconcile, ClaimState
  <2> QED BY <1>4, <1>5, <2>1, Reconciled, SMTT(30)
<1>7. w2.request \in [Requests -> Docs]
  <2> HIDE DEF w2
  <2> QED BY <1>6 DEF WorkInv, Works
<1>8. /\ WorkInv(w3) /\ WorkLog(w3)
      /\ \A r \in Requests \ {c} : w3.request[r] = request[r]
  <2> HIDE DEF w2
  <2>1. PICK dg \in Digests : dg = old.digest
    BY <1>4
  <2>2. PICK sc : sc = old.scope
    OBVIOUS
  <2>3. w3 = Push(w2, CompletedEvent(c, dg, sc, o, q))
    BY <2>1, <2>2
  <2> HIDE DEF w3
  <2>4. /\ WorkInv(w3) /\ WorkLog(w3)
        /\ w3.request = [w2.request EXCEPT ![c] =
              [state |-> "completed", digest |-> dg, outcome |-> o]]
    BY <1>2, <1>6, <2>2, <2>3, CompletedOpen
  <2> QED BY <1>6, <1>7, <2>4
<1>9. w3.request \in [Requests -> Docs]
  <2> HIDE DEF w3
  <2> QED BY <1>8 DEF WorkInv, Works
<1>10. /\ WorkInv(w4) /\ WorkLog(w4)
       /\ w4.request = [w3.request EXCEPT ![q] = docq]
  <2> HIDE DEF w3
  <2>1. w3.request[q] = NoDoc
    BY <1>1, <1>2, <1>8
  <2> QED BY <1>8, <2>1, CompletedFresh
<1>11. Work' = w4 /\ request' = w4.request
  <2>1. w4 \in Works
    BY <1>10 DEF WorkInv
  <2> HIDE DEF w4
  <2> QED BY <1>1, <2>1, WriteWork
<1> HIDE DEF w1, w2, w3, w4
<1>12. /\ request'[q] = docq
       /\ \A r \in Requests \ {c, q} : request'[r] = request[r]
  BY <1>8, <1>9, <1>10, <1>11
<1>13. \A r \in Requests : request[r].state = "completed" =>
                           request'[r] = request[r]
  BY <1>2, <1>12
<1>14. /\ AnswersAgree'
       /\ answers' \subseteq [req : Requests, digest : Digests,
                              outcome : Outcomes]
  BY <1>1, <1>12, <1>13, AnswersStand DEF ClaimsInv
<1>15. lease' \in [Requests -> Leases]
  <2>1. NoLease \in Leases
    BY BoundAssumption DEF NoLease, Leases, Time
  <2> QED BY <1>1, <2>1 DEF ClaimsInv, StateOK
<1> QED BY <1>1, <1>10, <1>11, <1>14, <1>15 DEF ClaimsInv, StateOK

\* A holding reconciliation leaves the claim open, with its tokens.
LEMMA HoldInv ==
    ASSUME ClaimsInv, NEW q \in Requests, NEW d \in Digests,
           NEW S \in SUBSET Tokens, NEW c \in Requests,
           NEW authority \in {"automatic", "owner"},
           NEW actor \in {"owner", "baley"}, NEW at \in 0..now,
           NEW facts \in BOOLEAN, NEW oq \in Outcomes,
           Hold(q, d, S, c, authority, actor, at, facts, oq)
    PROVE  ClaimsInv'
<1> DEFINE old == request[c]
           w1 == Decided(Work, facts, S, c)
           w2 == Push(w1, ReconciledEvent(c, old.seq, "awaiting_owner", actor))
           w3 == Push(w2, CompletedEvent(q, d, {}, oq, q))
           docq == [state |-> "completed", digest |-> d, outcome |-> oq]
<1>1. /\ request[q] = NoDoc /\ Open(old) /\ Write(w3)
      /\ Answer(q, d, oq) /\ lease' = lease /\ now' = now
  BY DEF Hold, MayReconcile
<1>2. q # c /\ old.state # "completed" /\ request[q].state # "completed"
  BY <1>1 DEF Open, NoDoc
<1>3. request \in [Requests -> Docs]
  BY DEF ClaimsInv, WorkInv, Works, Work
<1>4. old.seq \in Seqs
  BY <1>1, <1>3, OpenDoc
<1>5. WorkInv(w1) /\ WorkLog(w1) /\ w1.request = request
  BY DecidedWork DEF ClaimsInv, Hold
<1>6. /\ WorkInv(w2) /\ WorkLog(w2)
      /\ \A r \in Requests \ {c} : w2.request[r] = request[r]
  <2> HIDE DEF w1
  <2>1. /\ "awaiting_owner" \in {"resolved", "awaiting_owner"}
        /\ Open(w1.request[c])
        /\ w1.request[c].state = "awaiting_owner" => actor = "owner"
    BY <1>1, <1>5 DEF Hold, MayReconcile, ClaimState
  <2> QED BY <1>4, <1>5, <2>1, Reconciled, SMTT(30)
<1>7. w2.request \in [Requests -> Docs]
  <2> HIDE DEF w2
  <2> QED BY <1>6 DEF WorkInv, Works
<1>8. /\ WorkInv(w3) /\ WorkLog(w3)
      /\ w3.request = [w2.request EXCEPT ![q] = docq]
  <2> HIDE DEF w2
  <2>1. w2.request[q] = NoDoc
    BY <1>1, <1>2, <1>6
  <2> QED BY <1>6, <2>1, CompletedFresh
<1>9. Work' = w3 /\ request' = w3.request
  <2>1. w3 \in Works
    BY <1>8 DEF WorkInv
  <2> HIDE DEF w3
  <2> QED BY <1>1, <2>1, WriteWork
<1> HIDE DEF w1, w2, w3
<1>10. /\ request'[q] = docq
       /\ \A r \in Requests \ {c, q} : request'[r] = request[r]
  BY <1>6, <1>7, <1>8, <1>9
<1>11. \A r \in Requests : request[r].state = "completed" =>
                           request'[r] = request[r]
  BY <1>2, <1>10
<1>12. /\ AnswersAgree'
       /\ answers' \subseteq [req : Requests, digest : Digests,
                              outcome : Outcomes]
  BY <1>1, <1>10, <1>11, AnswersStand DEF ClaimsInv
<1> QED BY <1>1, <1>8, <1>9, <1>12 DEF ClaimsInv, StateOK

\* Losing the lease rows, and the passing of time, touch no document.
LEMMA OtherInv ==
    ASSUME ClaimsInv, UseExport \/ Tick \/ UNCHANGED vars
    PROVE  ClaimsInv'
<1>1. Work' = Work /\ AnswersAgree'
  BY DEF UseExport, Tick, vars, Work, ClaimsInv, AnswersAgree
<1>2. StateOK'
  <2>1. NoLease \in Leases
    BY BoundAssumption DEF NoLease, Leases, Time
  <2>2. CASE UseExport
    BY <2>1, <2>2 DEF UseExport, ClaimsInv, StateOK
  <2>3. CASE Tick
    BY <2>3, BoundAssumption DEF Tick, ClaimsInv, StateOK, Time
  <2>4. CASE UNCHANGED vars
    BY <2>4 DEF vars, ClaimsInv, StateOK
  <2> QED BY <2>2, <2>3, <2>4
<1> QED BY <1>1, <1>2 DEF ClaimsInv

\* Every command, and the clock, keeps the invariant.
LEMMA NextInv == ClaimsInv /\ [Next]_vars => ClaimsInv'
<1> SUFFICES ASSUME ClaimsInv, [Next]_vars PROVE ClaimsInv'
  OBVIOUS
<1>1. ASSUME NEW r \in Requests, NEW d \in Digests, Replay(r, d)
      PROVE  ClaimsInv'
  BY <1>1, ReplayInv
<1>2. ASSUME NEW r \in Requests, NEW d \in Digests, NEW S \in SUBSET Tokens,
             NEW facts \in BOOLEAN, NEW o \in Outcomes,
             Transact(r, d, S, facts, o)
      PROVE  ClaimsInv'
  BY <1>2, FreshInv DEF Transact
<1>3. ASSUME NEW r \in Requests, NEW d \in Digests, NEW S \in SUBSET Tokens,
             ClaimCommand(r, d, S)
      PROVE  ClaimsInv'
  <2>1. ASSUME NEW p \in Procs, NEW facts \in BOOLEAN, NEW at \in 0..now,
               Claim(r, d, S, p, facts, at)
        PROVE  ClaimsInv'
    BY <2>1, ClaimInv
  <2>2. ASSUME NEW facts \in BOOLEAN, NEW o \in Outcomes,
               RefuseClaim(r, d, S, facts, o)
        PROVE  ClaimsInv'
    BY <2>2, FreshInv DEF RefuseClaim
  <2> QED BY <1>3, <2>1, <2>2 DEF ClaimCommand
<1>4. ASSUME NEW r \in Requests, NEW d \in Digests, NEW S \in SUBSET Tokens,
             NEW p \in Procs, NEW facts \in BOOLEAN, NEW o \in Outcomes,
             Complete(r, d, S, p, facts, o)
      PROVE  ClaimsInv'
  BY <1>4, CompleteInv
<1>5. ASSUME NEW r \in Requests, NEW d \in Digests, NEW S \in SUBSET Tokens,
             ReconcileCommand(r, d, S)
      PROVE  ClaimsInv'
  <2>1. PICK c \in Requests, authority \in {"automatic", "owner"},
             actor \in {"owner", "baley"}, at \in 0..now,
             facts \in BOOLEAN, oq \in Outcomes :
          \/ \E o \in Outcomes :
                Resolve(r, d, S, c, authority, actor, at, facts, o, oq)
          \/ Hold(r, d, S, c, authority, actor, at, facts, oq)
    BY <1>5 DEF ReconcileCommand
  <2>2. ASSUME NEW o \in Outcomes,
               Resolve(r, d, S, c, authority, actor, at, facts, o, oq)
        PROVE  ClaimsInv'
    BY <2>2, ResolveInv, ZenonT(60)
  <2>3. CASE Hold(r, d, S, c, authority, actor, at, facts, oq)
    BY <2>3, HoldInv, ZenonT(60)
  <2> QED BY <2>1, <2>2, <2>3
<1>6. ASSUME NEW r \in Requests, NEW p \in Procs, NEW at \in 0..now,
             RenewLease(r, p, at)
      PROVE  ClaimsInv'
  BY <1>6, RenewLeaseInv
<1>7. CASE UseExport \/ Tick \/ UNCHANGED vars
  BY <1>7, OtherInv
<1> QED BY <1>1, <1>2, <1>3, <1>4, <1>5, <1>6, <1>7 DEF Next

\* The log, the `request` view, the `claim_scope` view and the answers callers
\* were given agree in every reachable state of the command path.
THEOREM SpecInv == Spec => []ClaimsInv
BY InitInv, NextInv, PTL DEF Spec

-----------------------------------------------------------------------------
\* The state of the command path keeps its shape: documents, rows, events and
\* answers, whatever commands run.
THEOREM TypeCorrect == Spec => []TypeOK
<1>1. ClaimsInv => TypeOK
  BY DEF ClaimsInv, StateOK, WorkInv, Works, Work, TypeOK
<1> QED BY <1>1, SpecInv, PTL

\* A scope token is held by exactly the open claim that took it, for any
\* number of requests, owners and tokens.
THEOREM ScopeExclusion == Spec => []ScopeAgrees
<1>1. ClaimsInv => ScopeAgrees
  BY DEF ClaimsInv, WorkInv, WorkScope, Work, ScopeAgrees, RowValid
<1> QED BY <1>1, SpecInv, PTL

\* A request is claimed and completed at most once, in that order.
THEOREM RequestLivesOnce == Spec => []OneLifeInLog
<1>1. ClaimsInv => OneLifeInLog
  BY DEF ClaimsInv, WorkLog, WorkLives, Work, OneLifeInLog, Of, Names, Completes, Claims
<1> QED BY <1>1, SpecInv, PTL

\* The `request` view says what the log says, of every request at once: an open
\* document names its own claim event and a completed one its completion.
THEOREM DocumentsFollowLog == Spec => []RequestsInv
<1>1. ClaimsInv => TypeOK
  BY DEF ClaimsInv, StateOK, WorkInv, Works, Work, TypeOK
<1>2. ClaimsInv => RequestAgrees
  BY DEF ClaimsInv, WorkLog, WorkLives, WorkDoc, Work, RequestAgrees, Completes, Claims
<1> QED BY <1>1, <1>2, SpecInv, PTL DEF RequestsInv

\* claim and check_scope: while a claim is open, nobody records a fact under
\* one of its tokens but its own completion and its reconciliation, whatever
\* leases, holds and refusals have come between.
THEOREM TokensKept == Spec => []NoFactUnderForeignClaim
<1>1. ClaimsInv => NoFactUnderForeignClaim
  <2> SUFFICES ASSUME ClaimsInv, NEW i \in DOMAIN events, NEW j \in DOMAIN events,
                      i < j, events[i].type = "command.claimed",
                      events[j].type = "domain",
                      events[j].under \cap events[i].scope # {},
                      events[j].within # events[i].req
               PROVE  \E k \in i..j : Of(k, "command.completed", events[i].req)
    BY DEF NoFactUnderForeignClaim
  <2>1. events \in Seq(Events) /\ WorkFacts(Work) /\ Work.events = events
    BY DEF ClaimsInv, WorkInv, Works, Work, WorkLog
  <2>2. PICK k \in DOMAIN events :
            i <= k /\ k <= j /\ Completes(events[k], events[i].req)
    BY <2>1 DEF WorkFacts
  <2>3. k \in i..j
    BY <2>1, <2>2
  <2> QED BY <2>2, <2>3 DEF Of, Completes
<1> QED BY <1>1, SpecInv, PTL

\* reconcile: a claim that was left to the owner is answered for by nobody
\* else, neither by its first caller nor by an automatic reconciliation.
THEOREM OwnerDecides == Spec => []HeldUntilOwner
<1>1. ClaimsInv => HeldUntilOwner
  <2> SUFFICES ASSUME ClaimsInv, NEW i \in DOMAIN events, NEW j \in DOMAIN events,
                      i < j, events[i].type = "command.reconciled",
                      events[i].resolution = "awaiting_owner",
                      events[j].type # "domain", events[j].req = events[i].req
               PROVE  \/ events[j].type = "command.reconciled" /\ events[j].actor = "owner"
                      \/ /\ events[j].type = "command.completed"
                         /\ events[j].by # events[j].req
                         /\ Of(j - 1, "command.reconciled", events[j].req)
    BY DEF HeldUntilOwner
  <2>1. events \in Seq(Events) /\ WorkHeld(Work) /\ Work.events = events
    BY DEF ClaimsInv, WorkInv, Works, Work, WorkLog
  <2>2. events[i].req \in Requests
    BY <2>1 DEF Events
  <2>3. AwaitsOwner(events[i], events[i].req) /\ Names(events[j], events[i].req)
    BY DEF AwaitsOwner, Names
  <2> QED BY <2>1, <2>2, <2>3 DEF WorkHeld, Of
<1> QED BY <1>1, SpecInv, PTL

\* Two callers of the same request are never told different outcomes.
THEOREM SameAnswer == Spec => []AnswersAgree
<1>1. ClaimsInv => AnswersAgree
  BY DEF ClaimsInv
<1> QED BY <1>1, SpecInv, PTL
-----------------------------------------------------------------------------
(* Steps beside a live claim *)

\* ActiveClaimUndisturbed of one request, and of one step.
Live(r) ==
    /\ request[r].state = "claimed"
    /\ lease[r].seq = request[r].seq
    /\ now < lease[r].at + LeaseExpiry
Undisturbed(r) ==
    Live(r) /\ request'[r] # request[r] =>
        request'[r].state = "completed" /\ events'[Len(events')].by = r

\* An event is projected onto the document of its own request.
LEMMA PushOthers ==
    ASSUME NEW w, DOMAIN w.request = Requests, NEW e, NEW q \in Requests,
           e.type = "domain" \/ e.req # q
    PROVE  /\ DOMAIN Push(w, e).request = Requests
           /\ Push(w, e).request[q] = w.request[q]
BY DEF Push, RequestApply

\* What a command writes, one after the other, is about the requests it names.
LEMMA Documents ==
    ASSUME ClaimsInv
    PROVE  /\ DOMAIN Work.request = Requests /\ Work.request = request
           /\ \A facts \in BOOLEAN : \A S, c :
                 /\ DOMAIN Decided(Work, facts, S, c).request = Requests
                 /\ Decided(Work, facts, S, c).request = request
<1>1. DOMAIN Work.request = Requests /\ Work.request = request
  BY DEF ClaimsInv, WorkInv, Works, Work
<1>2. ASSUME NEW S, NEW c
      PROVE  Push(Work, DomainEvent(S, c)).request = request
  BY <1>1 DEF Push, RequestApply, DomainEvent
<1> QED BY <1>1, <1>2 DEF Decided

\* A command for a request that is new changes no other document.
LEMMA FreshBeside ==
    ASSUME ClaimsInv, NEW q \in Requests, request[q] = NoDoc, NEW e, e.req = q,
           NEW facts \in BOOLEAN, NEW S, NEW c,
           Write(Push(Decided(Work, facts, S, c), e)), NEW r \in Requests
    PROVE  Undisturbed(r)
<1> DEFINE w == Decided(Work, facts, S, c)
<1>1. DOMAIN w.request = Requests /\ w.request = request
  BY Documents
<1>2. request' = Push(w, e).request
  BY DEF Write
<1> HIDE DEF w
<1>3. CASE r = q
  BY <1>3 DEF Undisturbed, Live, NoDoc
<1>4. CASE r # q
  BY <1>1, <1>2, <1>4, PushOthers DEF Undisturbed
<1> QED BY <1>3, <1>4

\* The owner's completion is its claim's own.
LEMMA CompleteBeside ==
    ASSUME ClaimsInv, NEW q \in Requests, NEW d \in Digests, NEW S \in SUBSET Tokens,
           NEW p \in Procs, NEW facts \in BOOLEAN, NEW o \in Outcomes,
           Complete(q, d, S, p, facts, o), NEW r \in Requests
    PROVE  Undisturbed(r)
<1> DEFINE w == Decided(Work, facts, S, q)
           e == CompletedEvent(q, d, S, o, q)
<1>1. DOMAIN w.request = Requests /\ w.request = request
  BY Documents
<1>2. WorkInv(w)
  BY DecidedWork DEF ClaimsInv, Complete
<1>3. w.events \in Seq(Events)
  BY <1>2 DEF WorkInv, Works
<1>4. e.type = "command.completed" /\ e.req = q /\ e.by = q
  BY DEF CompletedEvent
<1>5. request' = Push(w, e).request /\ events' = Push(w, e).events
  BY DEF Complete, Write
<1> HIDE DEF w, e
<1>6. CASE r = q
  <2>1. events' = Append(w.events, e)
    BY <1>5 DEF Push
  <2>2. events'[Len(events')] = e
    BY <1>3, <2>1
  <2>3. request'[r].state = "completed"
    BY <1>1, <1>4, <1>5, <1>6 DEF Push, RequestApply
  <2> QED BY <1>4, <1>6, <2>2, <2>3 DEF Undisturbed
<1>7. CASE r # q
  BY <1>1, <1>4, <1>5, <1>7, PushOthers DEF Undisturbed
<1> QED BY <1>6, <1>7

\* A claim that may be reconciled is held, or its lease is lost or expired at a
\* time that the clock has passed.
LEMMA Lapsed ==
    ASSUME ClaimsInv, NEW c \in Requests, NEW authority, NEW actor, NEW at \in 0..now,
           MayReconcile(c, authority, actor, at)
    PROVE  ~Live(c)
<1>1. now \in Nat /\ at \in Nat /\ at <= now
  BY BoundAssumption DEF ClaimsInv, StateOK, Time
<1>2. lease[c].at \in Nat
  BY BoundAssumption DEF ClaimsInv, StateOK, Leases, Time
<1> QED BY <1>1, <1>2, ExpiryAssumption DEF MayReconcile, ClaimState, LeaseActive, Live
\* A reconciliation changes its own document and that of a claim not live.
LEMMA ResolveBeside ==
    ASSUME ClaimsInv, NEW q \in Requests, NEW d \in Digests, NEW S \in SUBSET Tokens,
           NEW c \in Requests, NEW authority, NEW actor, NEW at \in 0..now,
           NEW facts \in BOOLEAN, NEW o, NEW oq,
           Resolve(q, d, S, c, authority, actor, at, facts, o, oq), NEW r \in Requests
    PROVE  Undisturbed(r)
<1> DEFINE w1 == Decided(Work, facts, S, c)
           e2 == ReconciledEvent(c, request[c].seq, "resolved", actor)
           e3 == CompletedEvent(c, request[c].digest, request[c].scope, o, q)
           e4 == CompletedEvent(q, d, {}, oq, q)
           w2 == Push(w1, e2)
           w3 == Push(w2, e3)
<1>1. DOMAIN w1.request = Requests /\ w1.request = request
  BY Documents
<1>2. request[q] = NoDoc /\ ~Live(c) /\ request' = Push(w3, e4).request
  BY Lapsed DEF Resolve, Write
<1>3. e2.req = c /\ e3.req = c /\ e4.req = q
  BY DEF ReconciledEvent, CompletedEvent
<1>4. CASE r = c \/ r = q
  BY <1>2, <1>4 DEF Undisturbed, Live, NoDoc
<1>5. CASE r # c /\ r # q
  <2> HIDE DEF w1, e2, e3, e4
  <2>1. e2.req # r /\ e3.req # r /\ e4.req # r
    BY <1>3, <1>5
  <2>2. DOMAIN w2.request = Requests /\ w2.request[r] = request[r]
    BY <1>1, <2>1, PushOthers
  <2> HIDE DEF w2
  <2>3. DOMAIN w3.request = Requests /\ w3.request[r] = request[r]
    BY <2>1, <2>2, PushOthers
  <2> HIDE DEF w3
  <2>4. request'[r] = request[r]
    BY <1>2, <2>1, <2>3, PushOthers
  <2> QED BY <2>4 DEF Undisturbed
<1> QED BY <1>4, <1>5

LEMMA HoldBeside ==
    ASSUME ClaimsInv, NEW q \in Requests, NEW d \in Digests, NEW S \in SUBSET Tokens,
           NEW c \in Requests, NEW authority, NEW actor, NEW at \in 0..now,
           NEW facts \in BOOLEAN, NEW oq,
           Hold(q, d, S, c, authority, actor, at, facts, oq), NEW r \in Requests
    PROVE  Undisturbed(r)
<1> DEFINE w1 == Decided(Work, facts, S, c)
           e2 == ReconciledEvent(c, request[c].seq, "awaiting_owner", actor)
           e3 == CompletedEvent(q, d, {}, oq, q)
           w2 == Push(w1, e2)
<1>1. DOMAIN w1.request = Requests /\ w1.request = request
  BY Documents
<1>2. request[q] = NoDoc /\ ~Live(c) /\ request' = Push(w2, e3).request
  BY Lapsed DEF Hold, Write
<1>3. e2.req = c /\ e3.req = q
  BY DEF ReconciledEvent, CompletedEvent
<1>4. CASE r = c \/ r = q
  BY <1>2, <1>4 DEF Undisturbed, Live, NoDoc
<1>5. CASE r # c /\ r # q
  <2> HIDE DEF w1, e2, e3
  <2>1. e2.req # r /\ e3.req # r
    BY <1>3, <1>5
  <2>2. DOMAIN w2.request = Requests /\ w2.request[r] = request[r]
    BY <1>1, <2>1, PushOthers
  <2> HIDE DEF w2
  <2>3. request'[r] = request[r]
    BY <1>2, <2>1, <2>2, PushOthers
  <2> QED BY <2>3 DEF Undisturbed
<1> QED BY <1>4, <1>5

\* Every command leaves a live claim to its owner.
LEMMA NextBeside ==
    ASSUME ClaimsInv, [Next]_vars, NEW r \in Requests
    PROVE  Undisturbed(r)
<1>1. CASE request' = request
  BY <1>1 DEF Undisturbed
<1>2. ASSUME NEW q \in Requests, NEW d \in Digests, NEW S \in SUBSET Tokens,
             \/ \E facts \in BOOLEAN, o \in Outcomes :
                   \/ Transact(q, d, S, facts, o) \/ RefuseClaim(q, d, S, facts, o)
             \/ \E p \in Procs, facts \in BOOLEAN, at \in 0..now :
                   Claim(q, d, S, p, facts, at)
      PROVE  Undisturbed(r)
  <2>1. \A at, p, o : /\ CompletedEvent(q, d, {}, o, q).req = q
                      /\ ClaimedEvent(q, d, S, p, at).req = q
    BY DEF CompletedEvent, ClaimedEvent
  <2> QED BY <1>2, <2>1, FreshBeside DEF Transact, RefuseClaim, Claim
<1>3. ASSUME NEW q \in Requests, NEW d \in Digests, NEW S \in SUBSET Tokens,
             NEW p \in Procs, NEW facts \in BOOLEAN, NEW o \in Outcomes,
             Complete(q, d, S, p, facts, o)
      PROVE  Undisturbed(r)
  BY <1>3, CompleteBeside
<1>4. ASSUME NEW q \in Requests, NEW d \in Digests, NEW S \in SUBSET Tokens,
             ReconcileCommand(q, d, S)
      PROVE  Undisturbed(r)
  BY <1>4, ResolveBeside, HoldBeside DEF ReconcileCommand
<1>5. CASE \/ \E q \in Requests, d \in Digests : Replay(q, d)
           \/ \E q \in Requests, p \in Procs, at \in 0..now : RenewLease(q, p, at)
           \/ UseExport \/ Tick \/ UNCHANGED vars
  BY <1>1, <1>5 DEF Replay, RenewLease, UseExport, Tick, vars
<1>6. ASSUME NEW q \in Requests, NEW d \in Digests, NEW S \in SUBSET Tokens,
             \/ \E facts \in BOOLEAN, o \in Outcomes : Transact(q, d, S, facts, o)
             \/ ClaimCommand(q, d, S)
      PROVE  Undisturbed(r)
  BY <1>2, <1>6 DEF ClaimCommand
<1> QED BY <1>3, <1>4, <1>5, <1>6 DEF Next

\* renew_lease and reconcile: a claim whose owner has kept its lease is closed by
\* that owner's completion alone and held by nobody, whichever commands run with
\* whatever times they read before they waited for the queue.
THEOREM LiveClaimsKept == Spec => ActiveClaimUndisturbed
<1>1. ClaimsInv /\ [Next]_vars =>
          [\A r \in Requests :
              /\ request[r].state = "claimed"
              /\ lease[r].seq = request[r].seq
              /\ now < lease[r].at + LeaseExpiry
              /\ request'[r] # request[r]
              => /\ request'[r].state = "completed"
                 /\ events'[Len(events')].by = r]_vars
  BY NextBeside DEF Undisturbed, Live
<1> QED BY <1>1, SpecInv, PTL DEF Spec, ActiveClaimUndisturbed
=============================================================================

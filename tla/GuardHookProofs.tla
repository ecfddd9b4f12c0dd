-------------------------- MODULE GuardHookProofs --------------------------
(***************************************************************************)
(* Proofs about the guard hook, for any deliveries of any calls, any       *)
(* settings and any number of changes of them.                             *)
(***************************************************************************)
EXTENDS GuardHook, TLAPS

GuardEvents ==
    [type : {"guard.answered"}, call : Calls, input : Inputs, outcome : Outcomes,
     settings : Settings \cup {NoSettings}, branch : Observations \cup {NoBranch}]
    \cup [type : {"guard.policy_recorded"}, checkout : Checkouts, parts : Denials]

\* Event n of the log answers a call with what the document of its id says.
AnswerKept(e) ==
    e.type = "guard.answered" =>
        guard[e.call] = [input |-> e.input, outcome |-> e.outcome]

\* The log answers an id once, a document is what the log answers, and a
\* process that is about to record has an answer that can be recorded.
LogInv ==
    /\ log \in Seq(GuardEvents)
    /\ OneRecord
    /\ \A n \in DOMAIN log : AnswerKept(log[n])
    /\ \A c \in Calls : guard[c] # NoDoc =>
          \E n \in DOMAIN log : AnsweredAt(n) /\ log[n].call = c
    /\ \A d \in Deliveries : At(d, "record") => proc[d].answer \in Outcomes

\* What a process was told is recorded is in the document of its call, and a
\* process asks the host only with a recorded answer.
Told(d) ==
    proc[d].pc \in {"answer", "done"} =>
        /\ proc[d].recorded =>
              /\ CallOf[d] # None
              /\ proc[d].answer \in Outcomes
              /\ guard[CallOf[d]] = [input |-> InputOf[d], outcome |-> proc[d].answer]
        /\ ~ proc[d].recorded => proc[d].answer # "ask"

ToldInv ==
    /\ \A d \in Deliveries : Told(d)
    /\ \A d \in Deliveries :
          proc[d].pc \in {"idle", "branch", "policy", "record"} => ~ proc[d].recorded

HookInv == TypeOK /\ LogInv /\ ToldInv

-----------------------------------------------------------------------------
\* A document is absent or an answer of a call.
LEMMA DocShape ==
    ASSUME TypeOK, NEW c \in Calls, guard[c] # NoDoc
    PROVE  guard[c].input \in Inputs /\ guard[c].outcome \in Outcomes
BY DEF TypeOK

\* What a process is judged to: complete settings may also let it pass.
LEMMA Answers ==
    ASSUME NEW s \in Settings, NEW parts \in Denials,
           NEW b \in Observations \cup {NoBranch}
    PROVE  /\ TornCommit(parts, b) \in Outcomes
           /\ CommitAnswer(s, parts, b) \in Outcomes \cup {"pass"}
<1>1. TornCommit(parts, b) \in Outcomes
  BY DEF TornCommit, Outcomes
<1>2. CASE s = Torn
  BY <1>1, <1>2 DEF CommitAnswer
<1>3. CASE s # Torn
  <2>1. s.on \in {"refuse", "ask", "allow"}
    BY <1>3, PoliciesAssumption DEF Settings
  <2>2. [refuse |-> "deny", ask |-> "ask", allow |-> "pass"][s.on] \in Outcomes \cup {"pass"}
    BY <2>1 DEF Outcomes
  <2>3. CompleteCommit(s, b) \in Outcomes \cup {"pass"}
    BY <2>2 DEF CompleteCommit, Outcomes
  <2> QED BY <1>1, <1>3, <2>3 DEF CommitAnswer
<1> QED BY <1>2, <1>3

\* A process's record.
Procs ==
    [pc : {"idle", "branch", "policy", "record", "answer", "done", "killed"},
     failed : BOOLEAN, branch : Observations \cup {NoBranch},
     settings : Settings \cup {NoSettings},
     answer : Outcomes \cup {"none", "pass"}, recorded : BOOLEAN]

\* The document of call id c says what process record p of delivery d says.
Backed(d, p) ==
    /\ CallOf[d] # None
    /\ p.answer \in Outcomes
    /\ guard[CallOf[d]] = [input |-> InputOf[d], outcome |-> p.answer]

\* A process may go on with record p while the ledger stays as it is.
MayBecome(d, p) ==
    /\ p \in Procs
    /\ p.pc = "record" => p.answer \in Outcomes
    /\ p.pc \in {"answer", "done"} =>
          IF p.recorded THEN Backed(d, p) ELSE p.answer # "ask"
    /\ p.pc \in {"idle", "branch", "policy", "record"} => ~ p.recorded

\* Such a step keeps the invariant.
LEMMA Quiet ==
    ASSUME HookInv, NEW d \in Deliveries, NEW p, MayBecome(d, p), Becomes(d, p),
           UNCHANGED <<files, changes, ledger>>
    PROVE  HookInv'
<1>1. proc' = [proc EXCEPT ![d] = p] /\ UNCHANGED <<files, changes, log, guard, policy>>
  BY DEF Becomes, ledger
<1>2. proc \in [Deliveries -> Procs] /\ p \in Procs
  BY DEF HookInv, TypeOK, Procs, MayBecome
<1>3. /\ proc'[d] = p
      /\ \A x \in Deliveries \ {d} : proc'[x] = proc[x]
      /\ proc' \in [Deliveries -> Procs]
  BY <1>1, <1>2
<1>4. TypeOK'
  BY <1>1, <1>3 DEF HookInv, TypeOK, Procs
<1>5. LogInv'
  <2>1. \A x \in Deliveries : At(x, "record")' => proc'[x].answer \in Outcomes
    BY <1>3 DEF HookInv, LogInv, At, MayBecome
  <2>2. OneRecord' /\ \A n \in DOMAIN log : AnswerKept(log[n])'
    BY <1>1 DEF HookInv, LogInv, OneRecord, AnsweredAt, AnswerKept
  <2> QED BY <1>1, <2>1, <2>2 DEF HookInv, LogInv, AnsweredAt
<1>6. ToldInv'
  <2>1. ASSUME NEW x \in Deliveries PROVE Told(x)'
    <3>1. CASE x = d
      BY <1>1, <1>3, <3>1 DEF Told, MayBecome, Backed
    <3>2. CASE x # d
      BY <1>1, <1>3, <3>2 DEF HookInv, ToldInv, Told
    <3> QED BY <3>1, <3>2
  <2>2. \A x \in Deliveries :
            proc'[x].pc \in {"idle", "branch", "policy", "record"} => ~ proc'[x].recorded
    BY <1>3 DEF HookInv, ToldInv, MayBecome
  <2> QED BY <2>1, <2>2 DEF ToldInv
<1> QED BY <1>4, <1>5, <1>6 DEF HookInv

\* A judgement is a plain pass, which is written, or is recorded next.
LEMMA JudgedOK ==
    ASSUME HookInv, NEW d \in Deliveries, NEW p \in Procs, ~ p.recorded,
           NEW a \in Outcomes \cup {"pass"}, Judged(d, p, a),
           UNCHANGED <<files, changes, ledger>>
    PROVE  HookInv'
<1> DEFINE q == [p EXCEPT !.pc = IF a = "pass" THEN "answer" ELSE "record", !.answer = a]
<1>1. q \in Procs /\ q.recorded = p.recorded /\ q.answer = a
      /\ q.pc = IF a = "pass" THEN "answer" ELSE "record"
  BY DEF Procs
<1>2. Becomes(d, q)
  BY DEF Judged
<1> HIDE DEF q
<1>3. MayBecome(d, q)
  BY <1>1 DEF MayBecome, Outcomes
<1> QED BY <1>2, <1>3, Quiet

\* A final answer that is the one recorded, or is none to be recorded and
\* then not an ask.
LEMMA SettleOK ==
    ASSUME HookInv, NEW d \in Deliveries, NEW a \in Outcomes, NEW r \in BOOLEAN,
           Settle(d, a, r), UNCHANGED <<files, changes, ledger>>,
           r => CallOf[d] # None /\ guard[CallOf[d]] = [input |-> InputOf[d], outcome |-> a]
    PROVE  HookInv'
<1> DEFINE q == [proc[d] EXCEPT !.pc = "answer", !.answer = RecordAnswer(a, r), !.recorded = r]
<1>1. proc[d] \in Procs
  BY DEF HookInv, TypeOK, Procs
<1>2. RecordAnswer(a, r) \in Outcomes /\ (r => RecordAnswer(a, r) = a)
      /\ (~ r => RecordAnswer(a, r) # "ask")
  BY DEF RecordAnswer, Outcomes
<1>3. q \in Procs /\ q.pc = "answer" /\ q.answer = RecordAnswer(a, r) /\ q.recorded = r
  BY <1>1, <1>2 DEF Procs
<1>4. Becomes(d, q)
  BY DEF Settle
<1> HIDE DEF q
<1>5. MayBecome(d, q)
  BY <1>2, <1>3 DEF MayBecome, Backed
<1> QED BY <1>4, <1>5, Quiet

\* redelivery: a replay is of this very input.
LEMMA ReplayOf ==
    ASSUME TypeOK, NEW d \in Deliveries, CallOf[d] # None,
           Redelivery(Doc(d), InputOf[d]) = "replay"
    PROVE  /\ Doc(d).outcome \in Outcomes
           /\ guard[CallOf[d]] = [input |-> InputOf[d], outcome |-> Doc(d).outcome]
<1>1. CallOf[d] \in Calls
  BY DeliveriesAssumption
<1>2. guard[CallOf[d]] # NoDoc /\ guard[CallOf[d]].input = InputOf[d]
  BY DEF Redelivery, Doc
<1> QED BY <1>1, <1>2 DEF Doc, TypeOK

\* decide: an answer that can be recorded, and at most a policy before it.
LEMMA DecideOK ==
    ASSUME HookInv, NEW d \in Deliveries, At(d, "record")
    PROVE  /\ Decide(d).answer \in Outcomes
           /\ \/ Decide(d).before = <<>>
              \/ \E k \in Checkouts, parts \in Denials :
                    Decide(d).before = <<PolicyRecorded(k, parts)>>
<1>1. proc[d] \in Procs /\ proc[d].answer \in Outcomes
  BY DEF HookInv, TypeOK, Procs, LogInv, At
<1>2. CheckoutOf[InputOf[d]] \in Checkouts
  BY DeliveriesAssumption
<1>3. policy[CheckoutOf[InputOf[d]]] \in Denials
  BY <1>2 DEF HookInv, TypeOK
<1>4. \A s \in Policies : DenialParts(s) \in Denials
  BY PoliciesAssumption DEF DenialParts, Denials
<1>5. \A parts \in Denials, b \in Observations \cup {NoBranch} : TornCommit(parts, b) \in Outcomes
  BY DEF TornCommit, Outcomes
<1> QED BY <1>1, <1>2, <1>3, <1>4, <1>5 DEF Decide, Procs

\* Where the id has no document, the transaction adds the one answer and
\* makes it the document.
LEMMA AppendOK ==
    ASSUME HookInv, NEW d \in Deliveries, At(d, "record"), CallOf[d] # None,
           Redelivery(Doc(d), InputOf[d]) = "no_record", AppendAnswer(d),
           UNCHANGED <<files, changes>>
    PROVE  HookInv'
<1> DEFINE c == CallOf[d]
           a == Decide(d).answer
           e == Answered(d, a, proc[d].settings, proc[d].branch)
           before == Decide(d).before
           q == [proc[d] EXCEPT !.pc = "answer", !.answer = RecordAnswer(a, TRUE), !.recorded = TRUE]
<1>1. c \in Calls /\ InputOf[d] \in Inputs /\ proc[d] \in Procs
  BY DeliveriesAssumption DEF HookInv, TypeOK, Procs
<1>2. guard[c] = NoDoc
  BY DEF Redelivery, Doc
<1>3. a \in Outcomes /\ RecordAnswer(a, TRUE) = a
  BY DecideOK DEF RecordAnswer
<1>4. /\ e \in GuardEvents /\ e.type = "guard.answered" /\ e.call = c
      /\ e.input = InputOf[d] /\ e.outcome = a
  BY <1>1, <1>3 DEF Answered, GuardEvents, Procs
<1>5. \/ before = <<>>
      \/ \E P \in GuardEvents :
            /\ P.type = "guard.policy_recorded" /\ P.parts \in Denials
            /\ before = <<P>>
  BY DecideOK DEF PolicyRecorded, GuardEvents
<1>6. /\ log' = log \o Append(before, e)
      /\ Projected({e} \cup {before[i] : i \in DOMAIN before})
      /\ proc' = [proc EXCEPT ![d] = q]
  BY DEF AppendAnswer, Settle, Becomes
<1>7. /\ q.pc = "answer" /\ q.answer = a /\ q.recorded = TRUE /\ q \in Procs
  BY <1>1, <1>3 DEF Procs
<1> HIDE DEF a, e, before, q, c
<1>8. \A x \in {e} \cup {before[i] : i \in DOMAIN before} :
          x.type = "guard.answered" => x = e
  BY <1>4, <1>5
<1>9. guard' = [x \in Calls |-> IF x = c THEN [input |-> e.input, outcome |-> e.outcome]
                                ELSE guard[x]]
  <2> DEFINE evs == {e} \cup {before[i] : i \in DOMAIN before}
  <2>1. (CHOOSE x \in evs : x.type = "guard.answered") = e
    BY <1>4, <1>8
  <2>2. \A x \in Calls :
            (\E y \in evs : y.type = "guard.answered" /\ y.call = x) <=> x = c
    BY <1>4, <1>8
  <2> HIDE DEF evs
  <2> QED BY <1>6, <2>1, <2>2 DEF Projected, evs
<1>10. policy' \in [Checkouts -> Denials]
  <2> DEFINE evs == {e} \cup {before[i] : i \in DOMAIN before}
  <2>1. \A x \in evs : x.type = "guard.policy_recorded" => x.parts \in Denials
    BY <1>4, <1>5
  <2>2. (\E y \in evs : y.type = "guard.policy_recorded") =>
            (CHOOSE x \in evs : x.type = "guard.policy_recorded").parts \in Denials
    BY <2>1
  <2>3. policy \in [Checkouts -> Denials]
    BY DEF HookInv, TypeOK
  <2>4. policy' = [k \in Checkouts |->
          IF \E y \in evs : y.type = "guard.policy_recorded" /\ y.checkout = k
          THEN (CHOOSE x \in evs : x.type = "guard.policy_recorded").parts
          ELSE policy[k]]
    BY <1>6 DEF Projected
  <2> HIDE DEF evs
  <2> QED BY <2>2, <2>3, <2>4
<1> DEFINE Grown ==
             /\ log' \in Seq(GuardEvents)
             /\ DOMAIN log \subseteq DOMAIN log'
             /\ \A n \in DOMAIN log : log'[n] = log[n]
             /\ \E m \in DOMAIN log' \ DOMAIN log :
                   /\ log'[m] = e
                   /\ \A n \in DOMAIN log' \ DOMAIN log :
                         n = m \/ log'[n].type = "guard.policy_recorded"
<1>11. Grown
  <2>1. log \in Seq(GuardEvents)
    BY DEF HookInv, LogInv
  <2>2. CASE before = <<>>
    <3>1. log' = log \o <<e>>
      BY <1>6, <2>2
    <3>2. log' \in Seq(GuardEvents) /\ Len(log') = Len(log) + 1 /\ log'[Len(log) + 1] = e
          /\ \A n \in 1..Len(log) : log'[n] = log[n]
      BY <1>4, <2>1, <3>1
    <3> QED BY <2>1, <3>2
  <2>3. ASSUME NEW P \in GuardEvents, P.type = "guard.policy_recorded", before = <<P>>
        PROVE  Grown
    <3>1. log' = log \o <<P, e>>
      BY <1>6, <2>3
    <3>2. log' \in Seq(GuardEvents) /\ Len(log') = Len(log) + 2
          /\ log'[Len(log) + 1] = P /\ log'[Len(log) + 2] = e
          /\ \A n \in 1..Len(log) : log'[n] = log[n]
      BY <1>4, <2>1, <3>1
    <3>3. /\ DOMAIN log = 1..Len(log) /\ DOMAIN log' = 1..Len(log')
          /\ Len(log) \in Nat
      BY <2>1, <3>2
    <3>4. Len(log) + 2 \in DOMAIN log' \ DOMAIN log
      BY <3>2, <3>3
    <3>5. \A n \in DOMAIN log' \ DOMAIN log : n = Len(log) + 2 \/ n = Len(log) + 1
      BY <3>2, <3>3
    <3>6. \A n \in DOMAIN log' \ DOMAIN log :
              n = Len(log) + 2 \/ log'[n].type = "guard.policy_recorded"
      BY <2>3, <3>2, <3>5
    <3>7. DOMAIN log \subseteq DOMAIN log' /\ \A n \in DOMAIN log : log'[n] = log[n]
      BY <3>2, <3>3
    <3> QED BY <3>2, <3>4, <3>6, <3>7
  <2> QED BY <1>5, <2>2, <2>3
<1> HIDE DEF Grown
<1>12. PICK m \in DOMAIN log' \ DOMAIN log :
          /\ log'[m] = e
          /\ \A n \in DOMAIN log' \ DOMAIN log :
                n = m \/ log'[n].type = "guard.policy_recorded"
  BY <1>11 DEF Grown
<1>13. /\ log' \in Seq(GuardEvents) /\ DOMAIN log \subseteq DOMAIN log'
       /\ \A n \in DOMAIN log : log'[n] = log[n]
  BY <1>11 DEF Grown
<1>14. \A n \in DOMAIN log' : AnsweredAt(n)' =>
          n = m \/ (n \in DOMAIN log /\ AnsweredAt(n) /\ log'[n] = log[n])
  BY <1>12, <1>13 DEF AnsweredAt
<1>15. \A n \in DOMAIN log : AnsweredAt(n) => log[n].call \in Calls /\ log[n].call # c
  <2> SUFFICES ASSUME NEW n \in DOMAIN log, AnsweredAt(n)
               PROVE  log[n].call \in Calls /\ log[n].call # c
    OBVIOUS
  <2>1. log[n] \in GuardEvents /\ log[n].type = "guard.answered"
    BY DEF HookInv, LogInv, AnsweredAt
  <2>2. log[n].call \in Calls /\ log[n].outcome \in Outcomes
    BY <2>1 DEF GuardEvents
  <2>3. guard[log[n].call] = [input |-> log[n].input, outcome |-> log[n].outcome]
    BY <2>1 DEF HookInv, LogInv, AnswerKept
  <2>4. guard[log[n].call].outcome \in Outcomes
    BY <2>2, <2>3
  <2>5. guard[log[n].call] # NoDoc
    BY <2>4 DEF NoDoc, Outcomes
  <2> QED BY <1>2, <2>2, <2>5
<1>16. proc \in [Deliveries -> Procs]
  BY DEF HookInv, TypeOK, Procs
<1>17. /\ proc'[d] = q /\ proc' \in [Deliveries -> Procs]
       /\ \A x \in Deliveries \ {d} : proc'[x] = proc[x]
  BY <1>6, <1>7, <1>16
<1>18. TypeOK'
  <2>1. guard' \in [Calls -> {NoDoc} \cup [input : Inputs, outcome : Outcomes]]
    <3>1. [input |-> e.input, outcome |-> e.outcome] \in [input : Inputs, outcome : Outcomes]
      BY <1>1, <1>3, <1>4
    <3>2. guard \in [Calls -> {NoDoc} \cup [input : Inputs, outcome : Outcomes]]
      BY DEF HookInv, TypeOK
    <3> QED BY <1>9, <3>1, <3>2
  <2> QED BY <1>10, <1>17, <2>1 DEF HookInv, TypeOK, Procs
<1>19. guard'[c] = [input |-> e.input, outcome |-> e.outcome]
       /\ \A x \in Calls \ {c} : guard'[x] = guard[x]
  BY <1>1, <1>9
<1>20. LogInv'
  <2>1. OneRecord'
    <3> SUFFICES ASSUME NEW i \in DOMAIN log', NEW j \in DOMAIN log',
                        AnsweredAt(i)', AnsweredAt(j)', log'[i].call = log'[j].call
                 PROVE  i = j
      BY DEF OneRecord
    <3>1. CASE i = m /\ j = m
      BY <3>1
    <3>2. CASE i = m /\ j # m
      BY <1>4, <1>12, <1>14, <1>15, <3>2
    <3>3. CASE i # m /\ j = m
      BY <1>4, <1>12, <1>14, <1>15, <3>3
    <3>4. CASE i # m /\ j # m
      BY <1>14, <3>4 DEF HookInv, LogInv, OneRecord
    <3> QED BY <3>1, <3>2, <3>3, <3>4
  <2>2. \A n \in DOMAIN log' : AnswerKept(log[n])'
    <3> SUFFICES ASSUME NEW n \in DOMAIN log', log'[n].type = "guard.answered"
                 PROVE  guard'[log'[n].call]
                            = [input |-> log'[n].input, outcome |-> log'[n].outcome]
      BY DEF AnswerKept
    <3>1. CASE n = m
      BY <1>4, <1>12, <1>19, <3>1
    <3>2. CASE n # m
      BY <1>14, <1>15, <1>19, <3>2 DEF AnsweredAt, HookInv, LogInv, AnswerKept
    <3> QED BY <3>1, <3>2
  <2>3. \A x \in Calls : guard'[x] # NoDoc =>
            \E n \in DOMAIN log' : AnsweredAt(n)' /\ log'[n].call = x
    <3> SUFFICES ASSUME NEW x \in Calls, guard'[x] # NoDoc
                 PROVE  \E n \in DOMAIN log' : AnsweredAt(n)' /\ log'[n].call = x
      OBVIOUS
    <3>1. CASE x = c
      BY <1>4, <1>12, <3>1 DEF AnsweredAt
    <3>2. CASE x # c
      <4>1. guard[x] # NoDoc
        BY <1>19, <3>2
      <4>2. PICK n \in DOMAIN log : AnsweredAt(n) /\ log[n].call = x
        BY <4>1 DEF HookInv, LogInv
      <4> QED BY <1>13, <4>2 DEF AnsweredAt
    <3> QED BY <3>1, <3>2
  <2>4. \A x \in Deliveries : At(x, "record")' => proc'[x].answer \in Outcomes
    BY <1>7, <1>17 DEF HookInv, LogInv, At
  <2> QED BY <1>13, <2>1, <2>2, <2>3, <2>4 DEF LogInv
<1>21. ToldInv'
  <2>1. ASSUME NEW x \in Deliveries PROVE Told(x)'
    <3>1. CASE x = d
      BY <1>3, <1>4, <1>7, <1>17, <1>19, <3>1 DEF Told, c
    <3>2. CASE x # d
      <4>1. Told(x) /\ proc'[x] = proc[x]
        BY <1>17, <3>2 DEF HookInv, ToldInv
      <4>2. ASSUME proc[x].pc \in {"answer", "done"}, proc[x].recorded
            PROVE  /\ CallOf[x] # None
                   /\ proc[x].answer \in Outcomes
                   /\ guard'[CallOf[x]] = [input |-> InputOf[x], outcome |-> proc[x].answer]
        <5>1. /\ CallOf[x] # None /\ CallOf[x] \in Calls /\ proc[x].answer \in Outcomes
              /\ guard[CallOf[x]] = [input |-> InputOf[x], outcome |-> proc[x].answer]
          BY <4>1, <4>2, DeliveriesAssumption DEF Told
        <5>2. guard[CallOf[x]].outcome \in Outcomes
          BY <5>1
        <5>3. guard[CallOf[x]] # NoDoc
          BY <5>2 DEF NoDoc, Outcomes
        <5> QED BY <1>2, <1>19, <5>1, <5>3
      <4> QED BY <4>1, <4>2 DEF Told
    <3> QED BY <3>1, <3>2
  <2>2. \A x \in Deliveries :
            proc'[x].pc \in {"idle", "branch", "policy", "record"} => ~ proc'[x].recorded
    BY <1>7, <1>17 DEF HookInv, ToldInv
  <2> QED BY <2>1, <2>2 DEF ToldInv
<1> QED BY <1>18, <1>20, <1>21 DEF HookInv
-----------------------------------------------------------------------------
\* A process that has not answered.
LEMMA Pending ==
    ASSUME HookInv, NEW d \in Deliveries,
           proc[d].pc \in {"idle", "branch", "policy", "record"}
    PROVE  proc[d] \in Procs /\ ~ proc[d].recorded
BY DEF HookInv, TypeOK, Procs, ToldInv

\* Each step of a process keeps the invariant.
LEMMA UnboundOK ==
    ASSUME HookInv, NEW d \in Deliveries, Unbound(d)
    PROVE  HookInv'
BY Pending, JudgedOK DEF Unbound, At

\* A path call is judged at once.
LEMMA JudgePathOK ==
    ASSUME HookInv, NEW d \in Deliveries, NEW a \in {"pass", "deny"}, JudgePath(d, a)
    PROVE  HookInv'
BY Pending, JudgedOK DEF JudgePath, At, Outcomes

\* After the lookup the call is judged or its branch read.
LEMMA LookedUpOK ==
    ASSUME HookInv, NEW d \in Deliveries, NEW failed \in BOOLEAN, At(d, "idle"),
           LookedUp(d, failed), UNCHANGED <<files, changes, ledger>>
    PROVE  HookInv'
<1> DEFINE p == [proc[d] EXCEPT !.failed = failed]
           q == [p EXCEPT !.pc = "branch"]
<1>1. proc[d] \in Procs /\ ~ proc[d].recorded
  BY Pending DEF At
<1>2. p \in Procs /\ ~ p.recorded
  BY <1>1 DEF Procs
<1>3. q \in Procs /\ ~ q.recorded /\ q.pc = "branch"
  BY <1>2 DEF Procs
<1>4. Becomes(d, q) \/ Judged(d, p, "ask")
  BY DEF LookedUp
<1> HIDE DEF p, q
<1>5. CASE Becomes(d, q)
  BY <1>3, <1>5, Quiet DEF MayBecome
<1>6. CASE Judged(d, p, "ask")
  BY <1>2, <1>6, JudgedOK DEF Outcomes
<1> QED BY <1>4, <1>5, <1>6

\* The lookup replays or goes on.
LEMMA LookupOK ==
    ASSUME HookInv, NEW d \in Deliveries, Lookup(d)
    PROVE  HookInv'
<1>1. At(d, "idle") /\ UNCHANGED <<files, changes, ledger>>
  BY DEF Lookup
<1>2. CASE \E failed \in BOOLEAN : LookedUp(d, failed)
  BY <1>1, <1>2, LookedUpOK
<1>3. CASE /\ CallOf[d] # None /\ Redelivery(Doc(d), InputOf[d]) = "replay"
           /\ Settle(d, Doc(d).outcome, TRUE)
  <2>1. TypeOK
    BY DEF HookInv
  <2> QED BY <1>1, <1>3, <2>1, ReplayOf, SettleOK
<1>4. Redelivery(Doc(d), InputOf[d]) \in {"no_record", "replay", "clash"}
  BY DEF Redelivery
<1> QED BY <1>2, <1>3, <1>4 DEF Lookup

\* The branch is read.
LEMMA ReadBranchOK ==
    ASSUME HookInv, NEW d \in Deliveries, NEW b \in Observations, ReadBranch(d, b)
    PROVE  HookInv'
<1> DEFINE q == [proc[d] EXCEPT !.pc = "policy", !.branch = b]
<1>1. proc[d] \in Procs /\ ~ proc[d].recorded
  BY Pending DEF ReadBranch, At
<1>2. q \in Procs /\ ~ q.recorded /\ q.pc = "policy"
  BY <1>1 DEF Procs
<1>3. Becomes(d, q) /\ UNCHANGED <<files, changes, ledger>>
  BY DEF ReadBranch
<1> HIDE DEF q
<1> QED BY <1>2, <1>3, Quiet DEF MayBecome

\* The settings are read and the commit judged.
LEMMA ReadPolicyOK ==
    ASSUME HookInv, NEW d \in Deliveries, ReadPolicy(d)
    PROVE  HookInv'
<1> DEFINE p == [proc[d] EXCEPT !.settings = files]
<1>1. proc[d] \in Procs /\ ~ proc[d].recorded /\ files \in Settings
  BY Pending DEF ReadPolicy, At, HookInv, TypeOK
<1>2. p \in Procs /\ ~ p.recorded
  BY <1>1 DEF Procs
<1>3. CommitAnswer(files, NoDenials, proc[d].branch) \in Outcomes \cup {"pass"}
  BY <1>1, Answers DEF NoDenials, Denials, Procs
<1>4. Judged(d, p, CommitAnswer(files, NoDenials, proc[d].branch))
      /\ UNCHANGED <<files, changes, ledger>>
  BY DEF ReadPolicy
<1> HIDE DEF p
<1> QED BY <1>2, <1>3, <1>4, JudgedOK

\* The transaction records, replays or, on a clash, records nothing.
LEMMA RecordOK ==
    ASSUME HookInv, NEW d \in Deliveries, Record(d)
    PROVE  HookInv'
<1>1. At(d, "record") /\ UNCHANGED <<files, changes>> /\ proc[d].answer \in Outcomes
  BY DEF Record, HookInv, LogInv
<1>2. CASE Settle(d, proc[d].answer, FALSE) /\ UNCHANGED ledger
  BY <1>1, <1>2, SettleOK DEF ledger
<1>3. CASE CallOf[d] # None /\ Transact(d)
  <2>1. CASE Redelivery(Doc(d), InputOf[d]) = "no_record"
    BY <1>1, <1>3, <2>1, AppendOK DEF Transact
  <2>2. CASE Redelivery(Doc(d), InputOf[d]) = "replay"
    <3>1. Settle(d, Doc(d).outcome, TRUE) /\ UNCHANGED ledger
      BY <1>3, <2>2 DEF Transact
    <3>2. TypeOK
      BY DEF HookInv
    <3> QED BY <1>1, <1>3, <2>2, <3>1, <3>2, ReplayOf, SettleOK DEF ledger
  <2>3. CASE Redelivery(Doc(d), InputOf[d]) = "clash"
    BY <1>2, <1>3, <2>3 DEF Transact
  <2>4. Redelivery(Doc(d), InputOf[d]) \in {"no_record", "replay", "clash"}
    BY DEF Redelivery
  <2> QED BY <2>1, <2>2, <2>3, <2>4
<1> QED BY <1>2, <1>3 DEF Record

\* The answer reaches the host.
LEMMA WriteOK ==
    ASSUME HookInv, NEW d \in Deliveries, Write(d)
    PROVE  HookInv'
<1> DEFINE q == [proc[d] EXCEPT !.pc = "done"]
<1>1. proc[d] \in Procs /\ proc[d].pc = "answer" /\ Told(d)
  BY DEF Write, At, HookInv, TypeOK, Procs, ToldInv
<1>2. q \in Procs /\ q.pc = "done" /\ q.answer = proc[d].answer
      /\ q.recorded = proc[d].recorded
  BY <1>1 DEF Procs
<1>3. Becomes(d, q) /\ UNCHANGED <<files, changes, ledger>>
  BY DEF Write
<1> HIDE DEF q
<1>4. MayBecome(d, q)
  BY <1>1, <1>2 DEF MayBecome, Backed, Told
<1> QED BY <1>3, <1>4, Quiet

\* The host ends the process.
LEMMA KillOK ==
    ASSUME HookInv, NEW d \in Deliveries, Kill(d)
    PROVE  HookInv'
<1> DEFINE q == [proc[d] EXCEPT !.pc = "killed"]
<1>1. proc[d] \in Procs
  BY DEF HookInv, TypeOK, Procs
<1>2. q \in Procs /\ q.pc = "killed"
  BY <1>1 DEF Procs
<1>3. Becomes(d, q) /\ UNCHANGED <<files, changes, ledger>>
  BY DEF Kill
<1> HIDE DEF q
<1> QED BY <1>2, <1>3, Quiet DEF MayBecome

\* A change of the settings files, or no step, touches nothing else.
LEMMA ElsewhereOK ==
    ASSUME HookInv, files' \in Settings, changes' \in 0..MaxChanges,
           UNCHANGED <<ledger, proc>>
    PROVE  HookInv'
<1>1. UNCHANGED <<log, guard, policy, proc>>
  BY DEF ledger
<1>2. TypeOK'
  BY <1>1 DEF HookInv, TypeOK
<1>3. LogInv'
  BY <1>1 DEF HookInv, LogInv, OneRecord, AnsweredAt, AnswerKept, At
<1>4. ToldInv'
  BY <1>1 DEF HookInv, ToldInv, Told
<1> QED BY <1>2, <1>3, <1>4 DEF HookInv

\* HookInv holds initially.
LEMMA InitOK == Init => HookInv
<1> SUFFICES ASSUME Init PROVE HookInv
  OBVIOUS
<1>1. TypeOK
  <2>1. Idle \in Procs
    BY DEF Idle, Procs
  <2>2. NoDenials \in Denials
    BY DEF NoDenials, Denials
  <2> QED BY <2>1, <2>2, BoundAssumption DEF Init, TypeOK, Procs
<1>2. LogInv
  BY DEF Init, LogInv, OneRecord, AnswerKept, At, Idle
<1>3. ToldInv
  BY DEF Init, ToldInv, Told, Idle
<1> QED BY <1>1, <1>2, <1>3 DEF HookInv

\* HookInv is inductive.
LEMMA NextOK == HookInv /\ [Next]_vars => HookInv'
<1> SUFFICES ASSUME HookInv, [Next]_vars PROVE HookInv'
  OBVIOUS
<1>1. ASSUME NEW s \in Settings, ChangeSettings(s) PROVE HookInv'
  <2>1. files' \in Settings /\ changes' \in 0..MaxChanges
    BY <1>1, BoundAssumption DEF ChangeSettings, HookInv, TypeOK
  <2> QED BY <1>1, <2>1, ElsewhereOK DEF ChangeSettings
<1>2. ASSUME NEW d \in Deliveries, Run(d) \/ Kill(d) PROVE HookInv'
  BY <1>2, UnboundOK, LookupOK, ReadPolicyOK, RecordOK, WriteOK, JudgePathOK,
     ReadBranchOK, KillOK DEF Run
<1>3. CASE UNCHANGED vars
  BY <1>3, ElsewhereOK DEF vars, HookInv, TypeOK
<1> QED BY <1>1, <1>2, <1>3 DEF Next

\* HookInv holds in every behaviour: the theorems below say what it means.
THEOREM Hook == Spec => []HookInv
BY InitOK, NextOK, PTL DEF Spec

\* record::record (GRD-R9): however many deliveries of however many calls
\* share an id, and whatever they find when they look it up, the log answers
\* the id once, because the transaction reads the document again.
THEOREM OneRecordKept == Spec => []RecordsInv
<1>1. HookInv => RecordsInv
  BY DEF HookInv, LogInv, RecordsInv
<1> QED BY <1>1, Hook, PTL

\* decide and record (GRD-R9, GRD-R10): an ask the host was given, and any
\* answer given as recorded, is what the log holds for this very call.
THEOREM RepliesKept == Spec => []RepliesAudited
<1>1. HookInv => RepliesAudited
  <2> SUFFICES ASSUME HookInv, NEW d \in Deliveries, proc[d].pc = "done",
                      proc[d].recorded \/ proc[d].answer = "ask"
               PROVE  \E n \in DOMAIN log :
                         /\ AnsweredAt(n)
                         /\ log[n].call = CallOf[d]
                         /\ log[n].input = InputOf[d]
                         /\ log[n].outcome = proc[d].answer
    BY DEF RepliesAudited
  <2>1. /\ CallOf[d] \in Calls /\ proc[d].answer \in Outcomes
        /\ guard[CallOf[d]] = [input |-> InputOf[d], outcome |-> proc[d].answer]
    BY DeliveriesAssumption DEF HookInv, ToldInv, Told, TypeOK
  <2>2. guard[CallOf[d]].outcome \in Outcomes
    BY <2>1
  <2>3. guard[CallOf[d]] # NoDoc
    BY <2>2 DEF NoDoc, Outcomes
  <2>4. PICK n \in DOMAIN log : AnsweredAt(n) /\ log[n].call = CallOf[d]
    BY <2>1, <2>3 DEF HookInv, LogInv
  <2>5. guard[CallOf[d]] = [input |-> log[n].input, outcome |-> log[n].outcome]
    BY <2>4 DEF HookInv, LogInv, AnswerKept, AnsweredAt
  <2>6. log[n].input = InputOf[d] /\ log[n].outcome = proc[d].answer
    BY <2>1, <2>5
  <2> QED BY <2>4, <2>6
<1> QED BY <1>1, Hook, PTL
-----------------------------------------------------------------------------
(* Torn settings *)

\* Event m of log l answers a commit of checkout k under complete settings.
CompleteAt(l, m, k) ==
    /\ l[m].type = "guard.answered"
    /\ l[m].settings \in Policies
    /\ CheckoutOf[l[m].input] = k

\* What the events of l before n leave remembered for checkout k.
RememberedAt(l, n, k, parts) ==
    \/ /\ parts = NoDenials
       /\ \A m \in 1..(n - 1) : ~CompleteAt(l, m, k)
    \/ \E m \in 1..(n - 1) :
          /\ CompleteAt(l, m, k)
          /\ \A o \in 1..(n - 1) : CompleteAt(l, o, k) => o <= m
          /\ parts = DenialParts(l[m].settings)

\* Event n of l, if it answers under torn settings, does by what was remembered.
TornAt(l, n) ==
    l[n].type = "guard.answered" /\ l[n].settings = Torn =>
        \E parts : /\ RememberedAt(l, n, CheckoutOf[l[n].input], parts)
                   /\ l[n].outcome = TornCommit(parts, l[n].branch)

\* The view remembers the latest complete policy, and the log was right.
DenialInv ==
    /\ \A k \in Checkouts : RememberedAt(log, Len(log) + 1, k, policy[k])
    /\ \A n \in DOMAIN log : TornAt(log, n)

\* Torn settings are no policy.
LEMMA TornIsNot == Torn \notin Policies /\ NoSettings \notin Policies /\ NoSettings # Torn
BY PoliciesAssumption DEF Torn, NoSettings

\* The events before n are what decides.
LEMMA SameBefore ==
    ASSUME NEW l, NEW j, NEW n \in Nat, \A m \in 1..(n - 1) : j[m] = l[m],
           NEW k, NEW parts
    PROVE  RememberedAt(l, n, k, parts) <=> RememberedAt(j, n, k, parts)
<1>1. \A m \in 1..(n - 1) : CompleteAt(l, m, k) <=> CompleteAt(j, m, k)
  BY DEF CompleteAt
<1> QED BY <1>1 DEF RememberedAt

\* What the transaction that answers appends and projects.
LEMMA AppendIs ==
    ASSUME HookInv, NEW d \in Deliveries, At(d, "record"), AppendAnswer(d)
    PROVE  LET s == proc[d].settings
               k == CheckoutOf[InputOf[d]]
           IN  /\ Len(log) \in Nat /\ DOMAIN log = 1..Len(log)
               /\ \E m \in {Len(log) + 1, Len(log) + 2} :
                     /\ DOMAIN log' = 1..m /\ Len(log') = m
                     /\ log'[m] = Answered(d, Decide(d).answer, s, proc[d].branch)
                     /\ \A n \in 1..Len(log) : log'[n] = log[n]
                     /\ \A n \in (Len(log) + 1)..(m - 1) : log'[n].type = "guard.policy_recorded"
               /\ policy' = IF s \in Policies THEN [policy EXCEPT ![k] = DenialParts(s)]
                                              ELSE policy
<1> DEFINE s == proc[d].settings
           k == CheckoutOf[InputOf[d]]
           before == Decide(d).before
           P == PolicyRecorded(k, DenialParts(s))
<1>1. PICK e : e = Answered(d, Decide(d).answer, s, proc[d].branch)
  OBVIOUS
<1> DEFINE evs == {e} \cup {before[i] : i \in DOMAIN before}
<1>2. e.type = "guard.answered" /\ P.type = "guard.policy_recorded"
      /\ P.checkout = k /\ P.parts = DenialParts(s)
  BY <1>1 DEF Answered, PolicyRecorded
<1>3. k \in Checkouts /\ policy \in [Checkouts -> Denials]
  BY DeliveriesAssumption DEF HookInv, TypeOK
<1>4. log \in Seq(GuardEvents) /\ Len(log) \in Nat /\ DOMAIN log = 1..Len(log)
  BY DEF HookInv, LogInv
<1>5. IF s \in Policies /\ policy[k] # DenialParts(s) THEN before = <<P>> ELSE before = <<>>
  BY TornIsNot DEF Decide, DenialsChanged
<1>6. /\ log' = log \o Append(before, e)
      /\ policy' = [x \in Checkouts |->
            IF \E y \in evs : y.type = "guard.policy_recorded" /\ y.checkout = x
            THEN (CHOOSE y \in evs : y.type = "guard.policy_recorded").parts
            ELSE policy[x]]
  BY <1>1 DEF AppendAnswer, Projected
<1> HIDE DEF before, P, s, k
<1>7. CASE before = <<>>
  <2>1. evs = {e}
    BY <1>7
  <2>2. policy' = policy
    <3> HIDE DEF evs
    <3> QED BY <1>2, <1>3, <1>6, <2>1
  <2>3. log' = log \o <<e>>
    BY <1>6, <1>7
  <2>4. /\ Len(log') = Len(log) + 1 /\ DOMAIN log' = 1..(Len(log) + 1)
        /\ log'[Len(log) + 1] = e /\ \A n \in 1..Len(log) : log'[n] = log[n]
    BY <1>4, <2>3
  <2>5. s \in Policies => policy = [policy EXCEPT ![k] = DenialParts(s)]
    <3>1. s \in Policies => policy[k] = DenialParts(s)
      BY <1>5, <1>7
    <3> QED BY <1>3, <3>1
  <2>6. \A n \in (Len(log) + 1)..(Len(log) + 1 - 1) : FALSE
    BY <1>4
  <2> QED BY <1>1, <1>4, <2>2, <2>4, <2>5, <2>6 DEF s, k
<1>8. CASE s \in Policies /\ before = <<P>>
  <2>1. evs = {e, P}
    BY <1>8
  <2>2. policy' = [policy EXCEPT ![k] = DenialParts(s)]
    <3>1. (CHOOSE y \in evs : y.type = "guard.policy_recorded") = P
      BY <1>2, <2>1
    <3>2. \A x : (\E y \in evs : y.type = "guard.policy_recorded" /\ y.checkout = x) <=> x = k
      BY <1>2, <2>1
    <3> HIDE DEF evs
    <3>3. policy' = [x \in Checkouts |-> IF x = k THEN DenialParts(s) ELSE policy[x]]
      BY <1>2, <1>6, <3>1, <3>2
    <3> QED BY <1>3, <3>3
  <2>3. log' = log \o <<P, e>>
    BY <1>6, <1>8
  <2>4. /\ Len(log') = Len(log) + 2 /\ DOMAIN log' = 1..(Len(log) + 2)
        /\ log'[Len(log) + 1] = P /\ log'[Len(log) + 2] = e
        /\ \A n \in 1..Len(log) : log'[n] = log[n]
    BY <1>4, <2>3
  <2>5. \A n \in (Len(log) + 1)..(Len(log) + 2 - 1) : n = Len(log) + 1
    BY <1>4
  <2> QED BY <1>1, <1>2, <1>4, <1>8, <2>2, <2>4, <2>5 DEF s, k
<1> QED BY <1>5, <1>7, <1>8

\* The transaction that answers.
LEMMA AppendRemembers ==
    ASSUME HookInv, DenialInv, NEW d \in Deliveries, At(d, "record"), AppendAnswer(d)
    PROVE  DenialInv'
<1> DEFINE k == CheckoutOf[InputOf[d]]
<1>1. PICK s, b, a : s = proc[d].settings /\ b = proc[d].branch /\ a = Decide(d).answer
  OBVIOUS
<1>2. /\ Len(log) \in Nat /\ DOMAIN log = 1..Len(log)
      /\ policy' = IF s \in Policies THEN [policy EXCEPT ![k] = DenialParts(s)] ELSE policy
  BY <1>1, AppendIs
<1>3. PICK m \in {Len(log) + 1, Len(log) + 2} :
          /\ DOMAIN log' = 1..m /\ Len(log') = m
          /\ log'[m] = Answered(d, a, s, b)
          /\ \A n \in 1..Len(log) : log'[n] = log[n]
          /\ \A n \in (Len(log) + 1)..(m - 1) : log'[n].type = "guard.policy_recorded"
  BY <1>1, AppendIs
<1>4. PICK j : j = log'
  OBVIOUS
<1>5. PICK e : e = j[m]
  OBVIOUS
<1>6. /\ e.type = "guard.answered" /\ e.input = InputOf[d] /\ e.outcome = a
      /\ e.settings = s /\ e.branch = b
  BY <1>3, <1>4, <1>5 DEF Answered
<1>7. k \in Checkouts /\ policy \in [Checkouts -> Denials]
  BY DeliveriesAssumption DEF HookInv, TypeOK
<1>8. m \in Nat /\ m > Len(log) /\ \A n \in 1..(m - 1) : n <= Len(log) \/ n >= Len(log) + 1
  BY <1>2, <1>3
<1>9. ASSUME NEW n \in 1..(m - 1), NEW c, CompleteAt(j, n, c)
      PROVE  n \in 1..Len(log) /\ CompleteAt(log, n, c)
  <2>1. CASE n <= Len(log)
    <3>1. n \in 1..Len(log)
      BY <1>2, <1>8, <2>1
    <3> QED BY <1>3, <1>4, <1>9, <3>1 DEF CompleteAt
  <2>2. CASE n >= Len(log) + 1
    <3>1. n \in (Len(log) + 1)..(m - 1)
      BY <1>2, <1>8, <2>2
    <3> QED BY <1>3, <1>4, <1>9, <3>1 DEF CompleteAt
  <2> QED BY <1>8, <2>1, <2>2
<1> HIDE DEF k
\* What is remembered before the answer is what was remembered.
<1>10. ASSUME NEW c \in Checkouts PROVE RememberedAt(j, m, c, policy[c])
  <2>1. RememberedAt(log, Len(log) + 1, c, policy[c])
    BY DEF DenialInv
  <2>2. CASE /\ policy[c] = NoDenials
             /\ \A n \in 1..(Len(log) + 1 - 1) : ~CompleteAt(log, n, c)
    <3>1. \A n \in 1..(m - 1) : ~CompleteAt(j, n, c)
      BY <1>2, <1>9, <2>2
    <3> QED BY <2>2, <3>1 DEF RememberedAt
  <2>3. CASE \E n \in 1..(Len(log) + 1 - 1) :
                /\ CompleteAt(log, n, c)
                /\ \A o \in 1..(Len(log) + 1 - 1) : CompleteAt(log, o, c) => o <= n
                /\ policy[c] = DenialParts(log[n].settings)
    <3>1. PICK n \in 1..Len(log) :
                /\ CompleteAt(log, n, c)
                /\ \A o \in 1..Len(log) : CompleteAt(log, o, c) => o <= n
                /\ policy[c] = DenialParts(log[n].settings)
      BY <1>2, <2>3
    <3>2. n \in 1..(m - 1) /\ j[n] = log[n]
      BY <1>2, <1>3, <1>4, <1>8, <3>1
    <3>3. CompleteAt(j, n, c) /\ \A o \in 1..(m - 1) : CompleteAt(j, o, c) => o <= n
      BY <1>9, <3>1, <3>2 DEF CompleteAt
    <3> QED BY <3>1, <3>2, <3>3 DEF RememberedAt
  <2> QED BY <2>1, <2>2, <2>3 DEF RememberedAt
<1>11. ASSUME NEW c \in Checkouts PROVE RememberedAt(j, m + 1, c, policy'[c])
  <2>1. m + 1 - 1 = m /\ \A n \in 1..m : n = m \/ n \in 1..(m - 1)
    BY <1>8
  <2>2. CompleteAt(j, m, c) <=> s \in Policies /\ c = k
    BY <1>5, <1>6 DEF CompleteAt, k
  <2>3. CASE s \in Policies /\ c = k
    <3>1. policy'[c] = DenialParts(j[m].settings)
      BY <1>2, <1>5, <1>6, <1>7, <2>3
    <3>2. m \in 1..m /\ \A o \in 1..m : o <= m
      BY <1>2, <1>8
    <3> QED BY <2>1, <2>2, <2>3, <3>1, <3>2 DEF RememberedAt
  <2>4. CASE ~(s \in Policies /\ c = k)
    <3>1. policy'[c] = policy[c] /\ ~CompleteAt(j, m, c)
      BY <1>2, <1>7, <2>2, <2>4
    <3>2. \A n \in 1..(m - 1) : n \in 1..m
      BY <1>8
    <3>3. RememberedAt(j, m, c, policy[c])
      BY <1>10
    <3> QED BY <2>1, <3>1, <3>2, <3>3 DEF RememberedAt
  <2> QED BY <2>3, <2>4
<1>12. ASSUME NEW n \in 1..m PROVE TornAt(j, n)
  <2>1. CASE n <= Len(log)
    <3>1. n \in DOMAIN log /\ n \in Nat /\ j[n] = log[n]
      BY <1>2, <1>3, <1>4, <2>1
    <3>2. \A i \in 1..(n - 1) : j[i] = log[i]
      BY <1>2, <1>3, <1>4, <2>1
    <3>3. \A c, parts : RememberedAt(log, n, c, parts) => RememberedAt(j, n, c, parts)
      BY <3>1, <3>2, SameBefore
    <3> QED BY <3>1, <3>3 DEF DenialInv, TornAt
  <2>2. CASE n = m
    <3>1. ASSUME s = Torn PROVE a = TornCommit(policy[k], b)
      BY <1>1, <3>1, TornIsNot DEF Decide, k
    <3>2. CheckoutOf[j[m].input] = k
      BY <1>5, <1>6 DEF k
    <3> QED BY <1>5, <1>6, <1>7, <1>10, <2>2, <3>1, <3>2 DEF TornAt
  <2>3. CASE n > Len(log) /\ n # m
    <3>1. n \in (Len(log) + 1)..(m - 1)
      BY <1>2, <1>8, <2>3
    <3>2. j[n].type = "guard.policy_recorded"
      BY <1>3, <1>4, <3>1
    <3> QED BY <3>2 DEF TornAt
  <2> QED BY <1>2, <1>8, <2>1, <2>2, <2>3
<1> QED BY <1>3, <1>4, <1>11, <1>12 DEF DenialInv

\* Every other step leaves the ledger alone.
LEMMA LedgerStep ==
    ASSUME [Next]_vars
    PROVE  UNCHANGED ledger \/ \E d \in Deliveries : At(d, "record") /\ AppendAnswer(d)
<1>1. ASSUME NEW d \in Deliveries, Record(d)
      PROVE  UNCHANGED ledger \/ (At(d, "record") /\ AppendAnswer(d))
  <2>1. Redelivery(Doc(d), InputOf[d]) \in {"no_record", "replay", "clash"}
    BY DEF Redelivery
  <2> QED BY <1>1, <2>1 DEF Record, Transact
<1>2. ASSUME NEW d \in Deliveries, Run(d) \/ Kill(d), ~Record(d) PROVE UNCHANGED ledger
  BY <1>2 DEF Run, Unbound, Lookup, ReadPolicy, Write, JudgePath, ReadBranch, Kill
<1> QED BY <1>1, <1>2 DEF Next, ChangeSettings, vars

LEMMA DenialStep == HookInv /\ DenialInv /\ [Next]_vars => DenialInv'
<1> SUFFICES ASSUME HookInv, DenialInv, [Next]_vars PROVE DenialInv'
  OBVIOUS
<1>1. CASE UNCHANGED ledger
  BY <1>1 DEF ledger, DenialInv
<1> QED BY <1>1, LedgerStep, AppendRemembers

LEMMA DenialInit == Init => DenialInv
<1> SUFFICES ASSUME Init PROVE DenialInv
  OBVIOUS
<1>1. log = <<>> /\ Len(log) = 0 /\ DOMAIN log = {} /\ \A k \in Checkouts : policy[k] = NoDenials
  BY DEF Init
<1>2. 1..(Len(log) + 1 - 1) = {}
  BY <1>1
<1> QED BY <1>1, <1>2 DEF DenialInv, RememberedAt

\* torn_commit with what a complete policy leaves behind denies as it would.
LEMMA TornDenies ==
    ASSUME NEW s \in Policies, NEW b \in Observations \cup {NoBranch}
    PROVE  TornCommit(DenialParts(s), b)
             = IF /\ b.name \in s.protected
                  /\ \/ b.how = "read" /\ s.on = "refuse"
                     \/ b.how = "fallback" /\ s.hard
               THEN "deny" ELSE "ask"
<1>1. s.hard \in BOOLEAN
  BY PoliciesAssumption
<1>2. PICK x : x = DenialParts(s)
  OBVIOUS
<1>3. /\ x.refuse <=> (s.on = "refuse")
      /\ x.hard <=> s.hard
      /\ x.protected = IF s.on = "refuse" \/ s.hard THEN s.protected ELSE {}
  BY <1>1, <1>2 DEF DenialParts
<1> QED BY <1>2, <1>3 DEF TornCommit

\* decide, GuardPolicyProjector (GRD-R7): whatever complete and torn settings
\* followed each other, and whichever deliveries recorded at once, a commit
\* recorded under torn settings got the denial the latest complete policy of
\* its checkout in the log gives, and an ask without one.
THEOREM DenialsKept == Spec => []TornKeepsDenials
<1>1. ASSUME HookInv, DenialInv PROVE TornKeepsDenials
  <2> SUFFICES ASSUME NEW n \in DOMAIN log, AnsweredAt(n), log[n].settings = Torn
      PROVE  LET k == CheckoutOf[log[n].input]
                 Complete == {m \in 1..(n - 1) :
                                 /\ AnsweredAt(m)
                                 /\ log[m].settings \in Policies
                                 /\ CheckoutOf[log[m].input] = k}
                 last == CHOOSE m \in Complete : \A o \in Complete : o <= m
                 b == log[n].branch
                 s == log[last].settings
                 denied == /\ Complete # {}
                           /\ b.name \in s.protected
                           /\ \/ b.how = "read" /\ s.on = "refuse"
                              \/ b.how = "fallback" /\ s.hard
             IN  log[n].outcome = IF denied THEN "deny" ELSE "ask"
    BY DEF TornKeepsDenials
  <2> DEFINE k == CheckoutOf[log[n].input]
             Complete == {m \in 1..(n - 1) :
                             /\ AnsweredAt(m)
                             /\ log[m].settings \in Policies
                             /\ CheckoutOf[log[m].input] = k}
             last == CHOOSE m \in Complete : \A o \in Complete : o <= m
             b == log[n].branch
             s == log[last].settings
             denied == /\ Complete # {}
                       /\ b.name \in s.protected
                       /\ \/ b.how = "read" /\ s.on = "refuse"
                          \/ b.how = "fallback" /\ s.hard
             Right == log[n].outcome = IF denied THEN "deny" ELSE "ask"
  <2>1. \A m \in 1..(n - 1) : m \in Complete <=> CompleteAt(log, m, k)
    BY DEF CompleteAt, AnsweredAt
  <2>2. PICK parts : RememberedAt(log, n, k, parts) /\ log[n].outcome = TornCommit(parts, b)
    BY <1>1 DEF DenialInv, TornAt, AnsweredAt
  <2>3. b \in Observations \cup {NoBranch} /\ Complete \subseteq 1..(n - 1)
        /\ 1..(n - 1) \subseteq Nat
    <3>1. log[n] \in GuardEvents /\ log[n].type = "guard.answered" /\ n \in Nat
      BY <1>1 DEF HookInv, LogInv, AnsweredAt
    <3> QED BY <3>1 DEF GuardEvents
  <2> HIDE DEF Complete, k
  <2>4. ASSUME Complete = {} PROVE Right
    <3>1. parts = NoDenials
      BY <2>1, <2>2, <2>4 DEF RememberedAt
    <3>2. TornCommit(parts, b) = "ask"
      BY <3>1 DEF TornCommit, NoDenials
    <3> QED BY <2>2, <2>4, <3>2
  <2>5. ASSUME Complete # {} PROVE Right
    <3>1. PICK m \in Complete : /\ \A o \in Complete : o <= m
                                /\ parts = DenialParts(log[m].settings)
      BY <2>1, <2>2, <2>3, <2>5 DEF RememberedAt
    <3>2. last \in Complete /\ \A o \in Complete : o <= last
      BY <3>1
    <3>3. PICK l : l = last
      OBVIOUS
    <3>4. l = m
      <4>1. l \in Complete /\ l <= m /\ m <= l
        BY <3>1, <3>2, <3>3
      <4> QED BY <2>3, <3>1, <4>1
    <3>5. s \in Policies /\ parts = DenialParts(s)
      <4>1. CompleteAt(log, m, k)
        BY <2>1, <2>3, <3>1
      <4> QED BY <3>1, <3>3, <3>4, <4>1 DEF CompleteAt
    <3>6. PICK t \in Policies : t = s
      BY <3>5
    <3> QED BY <2>2, <2>3, <2>5, <3>5, <3>6, TornDenies
  <2>6. Right
    BY <2>4, <2>5
  <2> QED BY <2>6 DEF Complete, k
<1> QED BY <1>1, InitOK, NextOK, DenialInit, DenialStep, PTL DEF Spec
=============================================================================

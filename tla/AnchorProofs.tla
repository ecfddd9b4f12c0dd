---------------------------- MODULE AnchorProofs ----------------------------
(***************************************************************************)
(* Proofs about anchoring, for any processes, requests, lease expiry and   *)
(* bounds.                                                                 *)
(***************************************************************************)
EXTENDS Anchor, TLAPS

-----------------------------------------------------------------------------
(* Chains and their heads *)

\* A chain is a sequence of whatever entries it holds.
IsSeq(c) == c \in Seq({c[i] : i \in DOMAIN c})

LEMMA SeqIs ==
    ASSUME NEW S, NEW c \in Seq(S)
    PROVE  IsSeq(c) /\ Len(c) \in Nat /\ DOMAIN c = 1..Len(c)
<1>1. Len(c) \in Nat /\ DOMAIN c = 1..Len(c) /\ c = [i \in 1..Len(c) |-> c[i]]
  OBVIOUS
<1> DEFINE T == {c[i] : i \in DOMAIN c}
<1>2. \A i \in 1..Len(c) : c[i] \in T
  BY <1>1
<1> HIDE DEF T
<1>3. c \in Seq(T)
  BY <1>1, <1>2
<1> QED BY <1>1, <1>3 DEF IsSeq, T

LEMMA LenIs ==
    ASSUME NEW c, IsSeq(c)
    PROVE  Len(c) \in Nat /\ DOMAIN c = 1..Len(c)
BY DEF IsSeq

\* The empty head is a sequence.
LEMMA EmptyIs == IsSeq(NoAnchor) /\ Len(NoAnchor) = 0
<1>1. <<>> \in Seq({})
  OBVIOUS
<1> QED BY <1>1, SeqIs DEF NoAnchor

\* A chain with one entry more.
LEMMA AppendIs ==
    ASSUME NEW c, IsSeq(c), NEW e
    PROVE  LET d == Append(c, e)
           IN  /\ IsSeq(d) /\ Len(d) = Len(c) + 1 /\ Len(c) \in Nat
               /\ d[Len(d)] = e /\ \A i \in 1..Len(c) : d[i] = c[i]
<1> DEFINE T == {c[i] : i \in DOMAIN c} \cup {e}
           d == Append(c, e)
<1>1. c \in Seq({c[i] : i \in DOMAIN c}) /\ Len(c) \in Nat
  BY DEF IsSeq
<1>2. c \in Seq(T) /\ e \in T
  <2>1. \A i \in 1..Len(c) : c[i] \in T
    BY <1>1
  <2>2. c = [i \in 1..Len(c) |-> c[i]]
    BY <1>1
  <2> HIDE DEF T
  <2>3. c \in Seq(T)
    BY <1>1, <2>1, <2>2
  <2> QED BY <2>3 DEF T
<1> HIDE DEF T
<1>3. /\ d \in Seq(T) /\ Len(d) = Len(c) + 1 /\ d[Len(c) + 1] = e
      /\ \A i \in 1..Len(c) : d[i] = c[i]
  BY <1>1, <1>2
<1> QED BY <1>1, <1>3, SeqIs

\* A head of a chain is a sequence of its first entries.
LEMMA PrefixIs ==
    ASSUME NEW c, IsSeq(c), NEW n \in 0..Len(c)
    PROVE  /\ IsSeq(Prefix(c, n)) /\ Len(Prefix(c, n)) = n
           /\ \A i \in 1..n : Prefix(c, n)[i] = c[i]
<1> DEFINE T == {c[i] : i \in DOMAIN c}
<1>1. c \in Seq(T) /\ Len(c) \in Nat
  BY DEF IsSeq
<1> HIDE DEF T
<1>2. /\ SubSeq(c, 1, n) \in Seq(T) /\ Len(SubSeq(c, 1, n)) = n
      /\ \A i \in 1..n : SubSeq(c, 1, n)[i] = c[i]
  BY <1>1
<1> QED BY <1>2, SeqIs DEF Prefix

\* Sequences with the same entries are the same.
LEMMA SameSeq ==
    ASSUME NEW a, IsSeq(a), NEW b, IsSeq(b), Len(a) = Len(b),
           \A i \in 1..Len(a) : a[i] = b[i]
    PROVE  a = b
<1>1. a = [i \in 1..Len(a) |-> a[i]] /\ b = [i \in 1..Len(b) |-> b[i]]
  BY DEF IsSeq
<1> QED BY <1>1

\* A chain holds a head whose entries are its first ones.
LEMMA HoldsIs ==
    ASSUME NEW c, IsSeq(c), NEW a, IsSeq(a)
    PROVE  Holds(c, a) <=> Len(a) <= Len(c) /\ \A i \in 1..Len(a) : c[i] = a[i]
<1>1. Len(a) \in Nat /\ Len(c) \in Nat
  BY LenIs
<1>2. CASE Len(a) <= Len(c)
  <2>1. Len(a) \in 0..Len(c)
    BY <1>1, <1>2
  <2>2. /\ IsSeq(Prefix(c, Len(a))) /\ Len(Prefix(c, Len(a))) = Len(a)
        /\ \A i \in 1..Len(a) : Prefix(c, Len(a))[i] = c[i]
    BY <2>1, PrefixIs
  <2>3. ASSUME \A i \in 1..Len(a) : c[i] = a[i]
        PROVE  Prefix(c, Len(a)) = a
    BY <2>2, <2>3, SameSeq
  <2> QED BY <1>2, <2>2, <2>3 DEF Holds
<1>3. CASE ~(Len(a) <= Len(c))
  BY <1>3 DEF Holds
<1> QED BY <1>2, <1>3

\* A chain holds its own heads, and what a held head holds.
LEMMA HoldsPrefix ==
    ASSUME NEW c, IsSeq(c), NEW n \in 0..Len(c)
    PROVE  Holds(c, Prefix(c, n))
BY LenIs, PrefixIs, HoldsIs

LEMMA HoldsSelf ==
    ASSUME NEW c, IsSeq(c)
    PROVE  Holds(c, c)
BY LenIs, HoldsIs

LEMMA HoldsTrans ==
    ASSUME NEW c, IsSeq(c), NEW b, IsSeq(b), NEW a, IsSeq(a), Holds(c, b), Holds(b, a)
    PROVE  Holds(c, a)
<1>1. Len(a) \in Nat /\ Len(b) \in Nat /\ Len(c) \in Nat
  BY LenIs
<1>2. Len(b) <= Len(c) /\ \A i \in 1..Len(b) : c[i] = b[i]
  BY HoldsIs
<1>3. Len(a) <= Len(b) /\ \A i \in 1..Len(a) : b[i] = a[i]
  BY HoldsIs
<1>4. Len(a) <= Len(c) /\ \A i \in 1..Len(a) : c[i] = a[i]
  BY <1>1, <1>2, <1>3
<1> QED BY <1>4, HoldsIs

\* Of two heads of one chain the longer one holds the shorter.
LEMMA HoldsShorter ==
    ASSUME NEW c, IsSeq(c), NEW b, IsSeq(b), NEW a, IsSeq(a), Holds(c, a), Holds(c, b),
           Len(a) <= Len(b)
    PROVE  Holds(b, a)
<1>1. Len(a) \in Nat /\ Len(b) \in Nat /\ Len(c) \in Nat
  BY LenIs
<1>2. /\ Len(b) <= Len(c) /\ \A i \in 1..Len(b) : c[i] = b[i]
      /\ Len(a) <= Len(c) /\ \A i \in 1..Len(a) : c[i] = a[i]
  BY HoldsIs
<1>3. \A i \in 1..Len(a) : b[i] = a[i]
  BY <1>1, <1>2
<1> QED BY <1>3, HoldsIs

\* A chain that grows holds what it held.
LEMMA HoldsMore ==
    ASSUME NEW c, IsSeq(c), NEW e, NEW a, IsSeq(a), Holds(c, a)
    PROVE  Holds(Append(c, e), a)
<1>1. IsSeq(Append(c, e)) /\ Holds(Append(c, e), c)
  <2>1. PICK d : d = Append(c, e)
    OBVIOUS
  <2>2. /\ IsSeq(d) /\ Len(d) = Len(c) + 1 /\ Len(c) \in Nat
        /\ \A i \in 1..Len(c) : d[i] = c[i]
    BY <2>1, AppendIs
  <2>3. Holds(d, c)
    BY <2>2, HoldsIs
  <2> QED BY <2>1, <2>2, <2>3
<1> QED BY <1>1, HoldsTrans

-----------------------------------------------------------------------------
(* Types, and the evidence for what the store keeps *)

Points == {"idle", "claim", "holder", "exact", "reconcile", "fetch", "verify",
           "push", "sent", "record", "acknowledge"}
Fields == {"pc", "req", "retried", "intent", "seen", "held", "at", "pushed"}
Owning == {"fetch", "verify", "push", "sent", "record"}

\* What a store keeps, whether in place or as a copy, with the tags on the
\* forge. An open claim's request has no outcome.
StoreOK(c, cl, out, rw, tags) ==
    /\ IsSeq(c)
    /\ DOMAIN cl = {"req", "owner", "seq", "lease"}
    /\ \/ cl = NoClaim
       \/ /\ cl.req \in Requests /\ cl.owner \in Procs
          /\ cl.seq \in 2..Len(c) /\ c[cl.seq].type = "claimed"
          /\ out[cl.req] = "none"
    /\ out \in [Requests -> {"none", "done", "refused"}]
    /\ rw \subseteq tags
    /\ \A r \in Requests : out[r] = "done" => rw # {}

\* A command in progress. The intents it acts on name a head, what it takes
\* for confirmed is on the forge.
RunOK(x, tags) ==
    /\ DOMAIN x = Fields /\ x.pc \in Points /\ x.req \in Requests \cup {None}
    /\ x.pc \notin {"idle", "acknowledge"} => x.req \in Requests
    /\ IsSeq(x.intent) /\ IsSeq(x.seen)
    /\ x.pc \in {"holder", "exact", "reconcile"} => x.held.req \in Requests
    /\ x.pc \in {"exact", "reconcile"} => Len(x.intent) > 0
    /\ x.pc = "reconcile" => x.seen \in tags \cup {NoAnchor}
    /\ x.pushed \in BOOLEAN
    /\ x.pushed => x.pc = "record" /\ x.intent \in tags

StoreInv ==
    /\ StoreOK(chain, claim, outcome, rows, remote)
    /\ StoreOK(copy.chain, copy.claim, copy.outcome, copy.rows, remote)
    /\ DOMAIN run = Procs /\ \A p \in Procs : RunOK(run[p], remote)
    /\ \A a \in remote \cup flight : IsSeq(a)
    /\ now \in 0..MaxTime /\ era \in 0..MaxEra

\* The forge keeps its tags, and more of them are evidence for as much.
LEMMA MoreTags ==
    ASSUME NEW tags, NEW more, tags \subseteq more
    PROVE  /\ \A c, cl, out, rw :
                 StoreOK(c, cl, out, rw, tags) => StoreOK(c, cl, out, rw, more)
           /\ \A x : RunOK(x, tags) => RunOK(x, more)
<1>1. ASSUME NEW c, NEW cl, NEW out, NEW rw, StoreOK(c, cl, out, rw, tags)
      PROVE  StoreOK(c, cl, out, rw, more)
  BY <1>1 DEF StoreOK
<1>2. ASSUME NEW x, RunOK(x, tags) PROVE RunOK(x, more)
  BY <1>2 DEF RunOK
<1> QED BY <1>1, <1>2

\* A store whose chain got one entry more.
LEMMA StoreGrows ==
    ASSUME NEW c, NEW cl, NEW out, NEW rw, NEW tags, StoreOK(c, cl, out, rw, tags),
           NEW e
    PROVE  StoreOK(Append(c, e), cl, out, rw, tags)
<1>1. PICK d : d = Append(c, e)
  OBVIOUS
<1>2. /\ IsSeq(d) /\ Len(d) = Len(c) + 1 /\ Len(c) \in Nat
      /\ \A i \in 1..Len(c) : d[i] = c[i]
  BY <1>1, AppendIs DEF StoreOK
<1>4. \/ cl = NoClaim
      \/ /\ cl.req \in Requests /\ cl.owner \in Procs
         /\ cl.seq \in 2..Len(d) /\ d[cl.seq].type = "claimed" /\ out[cl.req] = "none"
  BY <1>2 DEF StoreOK
<1>5. StoreOK(d, cl, out, rw, tags)
  BY <1>2, <1>4 DEF StoreOK
<1> QED BY <1>1, <1>5

\* The command of p moves on; the others' do not.
Moved(p) == DOMAIN run' = Procs /\ \A q \in Procs \ {p} : run'[q] = run[q]

\* An idle process has nothing in progress.
LEMMA NoRunIs == RunOK(NoRun, remote)
BY EmptyIs DEF RunOK, NoRun, Points, Fields, NoAnchor

\* Stopping, and moving to another point.
LEMMA StopIs ==
    ASSUME StoreInv, NEW p \in Procs, Stop(p)
    PROVE  Moved(p) /\ run'[p] = NoRun /\ RunOK(run'[p], remote)
BY NoRunIs DEF StoreInv, Stop, Moved

LEMMA GotoIs ==
    ASSUME StoreInv, NEW p \in Procs, NEW to, Goto(p, to)
    PROVE  /\ Moved(p) /\ run'[p] = [run[p] EXCEPT !.pc = to]
BY DEF StoreInv, Goto, Moved, RunOK, Fields

\* A command at another point of its own, knowing what it knew.
LEMMA GoneIs ==
    ASSUME NEW x, NEW tags, RunOK(x, tags), x.req \in Requests,
           NEW to \in {"record", "sent"}, x.pc # "record"
    PROVE  RunOK([x EXCEPT !.pc = to], tags)
<1>1. PICK y : y = [x EXCEPT !.pc = to]
  OBVIOUS
<1>2. /\ DOMAIN y = Fields /\ y.pc = to /\ y.req = x.req /\ y.intent = x.intent
      /\ y.seen = x.seen /\ y.held = x.held /\ y.pushed = x.pushed
  BY <1>1 DEF RunOK, Fields
<1> QED BY <1>1, <1>2 DEF RunOK, Points

\* The steps that change no more than what their process knows, and Send.
Quiet(p) ==
    \/ \E r \in Requests : Begin(p, r)
    \/ \E a \in Anchors : AckVerify(p, a) \/ FetchExact(p, a) \/ FetchLatest(p, a)
    \/ ClaimAnswered(p) \/ ClaimBlocked(p) \/ ReadHolder(p) \/ FetchExactFails(p)
    \/ ReconcileLost(p) \/ FetchLatestFails(p) \/ Verify(p) \/ Answered(p)
    \/ NotAnswered(p) \/ RecordReplayed(p) \/ AckStale(p) \/ Crash(p)

LEMMA QuietRun ==
    ASSUME StoreInv, NEW p \in Procs, Quiet(p) \/ Send(p)
    PROVE  Moved(p) /\ RunOK(run'[p], remote)
<1> DEFINE x == run[p]
<1>1. RunOK(x, remote) /\ DOMAIN run = Procs /\ x = run[p]
  BY DEF StoreInv
<1>2. NoAnchor \notin {} /\ IsSeq(NoAnchor) /\ \A a \in Anchors : IsSeq(a)
  BY EmptyIs DEF StoreInv, Anchors
<1>3. IsSeq(chain)
  BY DEF StoreInv, StoreOK
<1> HIDE DEF x
<1>4. ASSUME NEW r \in Requests, Begin(p, r) PROVE Moved(p) /\ RunOK(run'[p], remote)
  <2>1. Moved(p) /\ run'[p] = [x EXCEPT !.pc = "claim", !.req = r] /\ x.pc = "idle"
    BY <1>1, <1>4 DEF Begin, Moved, At
  <2>2. PICK y : y = run'[p]
    OBVIOUS
  <2>3. /\ DOMAIN y = Fields /\ y.pc = "claim" /\ y.req = r /\ y.intent = x.intent
        /\ y.seen = x.seen /\ y.pushed = x.pushed
    BY <1>1, <2>1, <2>2 DEF RunOK, Fields
  <2>4. RunOK(y, remote)
    BY <1>1, <2>1, <2>3 DEF RunOK, Points
  <2> QED BY <2>1, <2>2, <2>4
<1>5. ASSUME NEW a \in Anchors, AckVerify(p, a) PROVE Moved(p) /\ RunOK(run'[p], remote)
  <2>1. /\ Moved(p) /\ x.pc = "idle"
        /\ run'[p] = [x EXCEPT !.pc = "acknowledge", !.seen = a, !.intent = chain]
    BY <1>1, <1>5 DEF AckVerify, Moved, At
  <2> QED BY <1>1, <1>2, <1>3, <2>1 DEF RunOK, Fields, Points
<1>6. ASSUME NEW a \in Anchors, FetchExact(p, a) PROVE Moved(p) /\ RunOK(run'[p], remote)
  <2>1. /\ Moved(p) /\ x.pc = "exact"
        /\ run'[p] = [x EXCEPT !.pc = "reconcile", !.seen = a, !.at = now]
    BY <1>1, <1>6 DEF FetchExact, Moved, At
  <2> QED BY <1>1, <1>2, <2>1 DEF RunOK, Fields, Points, Anchors
<1>7. ASSUME NEW a \in Anchors, FetchLatest(p, a) PROVE Moved(p) /\ RunOK(run'[p], remote)
  <2>1. /\ Moved(p) /\ x.pc = "fetch"
        /\ run'[p] = [x EXCEPT !.pc = "verify", !.seen = a]
    BY <1>1, <1>7 DEF FetchLatest, Moved, At
  <2> QED BY <1>1, <1>2, <2>1 DEF RunOK, Fields, Points
<1>8. CASE Stop(p)
  BY <1>8, StopIs
<1>9. CASE ClaimBlocked(p)
  <2>1. CASE run' = [run EXCEPT ![p].pc = "holder", ![p].held = claim]
    <3>1. /\ Moved(p) /\ x.pc = "claim" /\ claim # NoClaim
          /\ run'[p] = [x EXCEPT !.pc = "holder", !.held = claim]
      BY <1>1, <1>9, <2>1 DEF ClaimBlocked, Moved, At
    <3>2. claim.req \in Requests
      BY <3>1 DEF StoreInv, StoreOK
    <3> QED BY <1>1, <3>1, <3>2 DEF RunOK, Fields, Points
  <2> QED BY <1>8, <1>9, <2>1 DEF ClaimBlocked
<1>10. CASE ReadHolder(p)
  <2>1. CASE claim.req = x.held.req
    <3>1. /\ Moved(p) /\ x.pc = "holder"
          /\ run'[p] = [x EXCEPT !.pc = "exact", !.held = claim, !.intent = Target]
      BY <1>1, <1>10, <2>1 DEF ReadHolder, Moved, At
    <3>2. claim.req \in Requests
      BY <1>1, <2>1, <3>1 DEF RunOK
    <3>3. claim.seq \in 2..Len(chain)
      BY <3>2, NoneAssumption DEF StoreInv, StoreOK, NoClaim
    <3>4. IsSeq(Target) /\ Len(Target) > 0
      <4>1. Len(chain) \in Nat
        BY <1>3, LenIs
      <4>2. claim.seq - 1 \in 0..Len(chain) /\ claim.seq - 1 > 0
        BY <3>3, <4>1
      <4> QED BY <1>3, <4>2, PrefixIs DEF Target
    <3>5. PICK h : h = Target
      OBVIOUS
    <3>6. PICK y : y = run'[p]
      OBVIOUS
    <3>7. /\ DOMAIN y = Fields /\ y.pc = "exact" /\ y.req = x.req /\ y.intent = h
          /\ y.seen = x.seen /\ y.held = claim /\ y.pushed = x.pushed
      BY <1>1, <3>1, <3>5, <3>6 DEF RunOK, Fields
    <3> QED BY <1>1, <3>1, <3>2, <3>4, <3>5, <3>6, <3>7 DEF RunOK, Points
  <2> QED BY <1>1, <1>8, <1>10, <2>1 DEF ReadHolder
<1>11. CASE FetchLatestFails(p)
  <2>1. Goto(p, "record") /\ x.pc = "fetch"
    BY <1>1, <1>11 DEF FetchLatestFails, At
  <2>2. x.req \in Requests
    BY <1>1, <2>1 DEF RunOK
  <2>3. RunOK([x EXCEPT !.pc = "record"], remote)
    <3>1. x.pc # "record" /\ "record" \in {"record", "sent"}
      BY <2>1
    <3> QED BY <1>1, <2>2, <3>1, GoneIs
  <2>4. Moved(p) /\ run'[p] = [x EXCEPT !.pc = "record"]
    BY <1>1, <2>1, GotoIs
  <2> QED BY <2>3, <2>4
<1>12. CASE Verify(p)
  <2>1. PICK to \in {"record", "push"} :
            run' = [run EXCEPT ![p].pc = to, ![p].seen = NoAnchor]
    BY <1>12 DEF Verify
  <2>2. Moved(p) /\ run'[p] = [x EXCEPT !.pc = to, !.seen = NoAnchor] /\ x.pc = "verify"
    BY <1>1, <1>12, <2>1 DEF Verify, Moved, At
  <2> QED BY <1>1, <1>2, <2>2 DEF RunOK, Fields, Points
<1>13. CASE Send(p)
  <2>1. Goto(p, "sent") /\ x.pc = "push"
    BY <1>1, <1>13 DEF Send, At
  <2>2. x.req \in Requests
    BY <1>1, <2>1 DEF RunOK
  <2>3. RunOK([x EXCEPT !.pc = "sent"], remote)
    <3>1. x.pc # "record" /\ "sent" \in {"record", "sent"}
      BY <2>1
    <3> QED BY <1>1, <2>2, <3>1, GoneIs
  <2>4. Moved(p) /\ run'[p] = [x EXCEPT !.pc = "sent"]
    BY <1>1, <2>1, GotoIs
  <2> QED BY <2>3, <2>4
<1>14. CASE Answered(p)
  <2>1. /\ Moved(p) /\ x.pc = "sent" /\ x.intent \in remote
        /\ run'[p] = [x EXCEPT !.pc = "record", !.pushed = TRUE]
    BY <1>1, <1>14 DEF Answered, Moved, At
  <2> QED BY <1>1, <2>1 DEF RunOK, Fields, Points
<1>15. CASE NotAnswered(p)
  <2>1. Goto(p, "record") /\ x.pc = "sent"
    BY <1>1, <1>15 DEF NotAnswered, At
  <2>2. x.req \in Requests
    BY <1>1, <2>1 DEF RunOK
  <2>3. RunOK([x EXCEPT !.pc = "record"], remote)
    <3>1. x.pc # "record" /\ "record" \in {"record", "sent"}
      BY <2>1
    <3> QED BY <1>1, <2>2, <3>1, GoneIs
  <2>4. Moved(p) /\ run'[p] = [x EXCEPT !.pc = "record"]
    BY <1>1, <2>1, GotoIs
  <2> QED BY <2>3, <2>4
<1>16. CASE ClaimAnswered(p) \/ FetchExactFails(p) \/ ReconcileLost(p)
              \/ RecordReplayed(p) \/ AckStale(p) \/ Crash(p)
  BY <1>8, <1>16 DEF ClaimAnswered, FetchExactFails, ReconcileLost, RecordReplayed,
                     AckStale, Crash
<1> QED BY <1>4, <1>5, <1>6, <1>7, <1>9, <1>10, <1>11, <1>12, <1>13, <1>14, <1>15, <1>16
        DEF Quiet

\* What the quiet steps leave alone.
LEMMA QuietWorld ==
    ASSUME NEW p \in Procs, Quiet(p)
    PROVE  UNCHANGED <<store, World>>
BY DEF Quiet, Begin, AckVerify, FetchExact, FetchLatest, ClaimAnswered, ClaimBlocked,
       ReadHolder, FetchExactFails, ReconcileLost, FetchLatestFails, Verify, Answered,
       NotAnswered, RecordReplayed, AckStale, Crash

LEMMA SendWorld ==
    ASSUME NEW p \in Procs, Send(p)
    PROVE  /\ UNCHANGED <<store, remote, now, copy, era>>
           /\ flight' = flight \cup {run[p].intent} /\ run[p].pc = "push"
BY DEF Send, At

\* The steps that write the store, and the ones outside Baley.
Writes(p) ==
    ClaimNew(p) \/ ClaimRefused(p) \/ Reconcile(p) \/ Renew(p) \/ Record(p) \/ AckRecord(p)

LEMMA Steps ==
    ASSUME [Next]_vars
    PROVE  \/ \E p \in Procs : Quiet(p) \/ Send(p) \/ Writes(p)
           \/ Work \/ Tick \/ Backup \/ Restore \/ (\E a \in flight : Land(a) \/ Lose(a))
           \/ UNCHANGED vars
<1>1. ASSUME NEW p \in Procs, Step(p) PROVE Quiet(p) \/ Send(p) \/ Writes(p)
  BY <1>1 DEF Step, Quiet, Writes
<1>2. ASSUME NEW p \in Procs,
             \/ \E r \in Requests : Begin(p, r)
             \/ \E a \in Anchors : AckVerify(p, a)
             \/ Renew(p) \/ Crash(p)
      PROVE  Quiet(p) \/ Writes(p)
  BY <1>2 DEF Quiet, Writes
<1> QED BY <1>1, <1>2 DEF Next

\* The commands after a step of p that left the forge alone.
LEMMA RunStep ==
    ASSUME StoreInv, NEW p \in Procs, Moved(p), RunOK(run'[p], remote), remote' = remote
    PROVE  DOMAIN run' = Procs /\ \A q \in Procs : RunOK(run'[q], remote')
BY DEF StoreInv, Moved

\* A step that writes the store leaves its parts in order.
LEMMA WriteStep ==
    ASSUME StoreInv, NEW p \in Procs, Writes(p)
    PROVE  /\ StoreOK(chain', claim', outcome', rows', remote)
           /\ Moved(p) /\ RunOK(run'[p], remote) /\ UNCHANGED World
<1> DEFINE x == run[p]
<1>1. RunOK(x, remote) /\ StoreOK(chain, claim, outcome, rows, remote) /\ DOMAIN run = Procs
  BY DEF StoreInv
<1>2. IsSeq(chain) /\ Len(chain) \in Nat
  BY <1>1, LenIs DEF StoreOK
<1> DEFINE Kept == StoreOK(chain', claim, outcome, rows, remote)
<1>3. ASSUME NEW e, Extend(e) PROVE chain' = Append(chain, e) /\ Kept
  BY <1>1, <1>3, StoreGrows DEF Extend
<1>4. ASSUME Kept, NEW r \in Requests, NEW o \in {"done", "refused"},
             outcome' = [outcome EXCEPT ![r] = o], claim' = NoClaim,
             rows \subseteq rows', rows' \subseteq remote, o = "done" => rows' # {}
      PROVE  StoreOK(chain', claim', outcome', rows', remote)
  BY <1>4 DEF StoreOK, NoClaim
<1>5. ASSUME NEW a, StageAnchor(a), a \in remote
      PROVE  rows \subseteq rows' /\ rows' \subseteq remote /\ rows' # {}
  BY <1>1, <1>5 DEF StageAnchor, StoreOK
<1>6. CASE ClaimNew(p)
  <2>1. x.pc = "claim" /\ x.req \in Requests
    BY <1>1, <1>6 DEF ClaimNew, At, RunOK
  <2>2. /\ Moved(p) /\ run'[p] = [x EXCEPT !.pc = "fetch", !.intent = chain]
    BY <1>1, <1>6 DEF ClaimNew, Moved
  <2>3. RunOK(run'[p], remote)
    BY <1>1, <1>2, <2>1, <2>2 DEF RunOK, Fields, Points
  <2>4. chain' = Append(chain, Entry("claimed")) /\ Kept
    BY <1>3, <1>6 DEF ClaimNew
  <2>5. Len(chain) > 0
    BY <1>2, <1>6, SameSeq, EmptyIs DEF ClaimNew, NoAnchor
  <2>6. PICK d : d = chain'
    OBVIOUS
  <2>7. Len(d) = Len(chain) + 1 /\ d[Len(d)].type = "claimed"
    BY <1>2, <2>4, <2>6, AppendIs DEF Entry
  <2>8. PICK cl : cl = claim'
    OBVIOUS
  <2>9. /\ DOMAIN cl = {"req", "owner", "seq", "lease"} /\ cl.req = x.req /\ cl.owner = p
        /\ cl.seq = Len(d)
    BY <1>6, <2>7, <2>8 DEF ClaimNew
  <2>10. outcome[x.req] = "none" /\ outcome' = outcome /\ rows' = rows /\ UNCHANGED World
    BY <1>6 DEF ClaimNew
  <2>11. Len(d) \in 2..Len(d)
    BY <1>2, <2>5, <2>7
  <2>12. StoreOK(d, cl, outcome, rows, remote)
    BY <2>1, <2>4, <2>6, <2>7, <2>9, <2>10, <2>11 DEF StoreOK
  <2> QED BY <2>2, <2>3, <2>6, <2>8, <2>10, <2>12
<1>7. CASE ClaimRefused(p)
  <2>1. x.req \in Requests
    BY <1>1, <1>7 DEF ClaimRefused, At, RunOK
  <2>2. Kept
    BY <1>3, <1>7 DEF ClaimRefused
  <2>3. StoreOK(chain', claim', outcome', rows', remote)
    BY <1>1, <1>4, <1>7, <2>1, <2>2 DEF ClaimRefused, StoreOK
  <2> QED BY <1>7, <2>3, StopIs DEF ClaimRefused
<1>8. CASE Reconcile(p)
  <2>1. x.pc = "reconcile" /\ claim.req = x.held.req
    BY <1>8 DEF Reconcile, At
  <2>2. claim.req \in Requests /\ x.req \in Requests
    BY <1>1, <2>1 DEF RunOK
  <2>3. Kept
    BY <1>3, <1>8 DEF Reconcile
  <2>4. Moved(p) /\ RunOK(run'[p], remote)
    <3>1. /\ Moved(p)
          /\ run'[p] = [NoRun EXCEPT !.pc = "claim", !.req = x.req, !.retried = TRUE]
      BY <1>1, <1>8 DEF Reconcile, Moved
    <3> QED BY <2>2, <3>1, EmptyIs DEF RunOK, NoRun, Fields, Points, NoAnchor
  <2>5. CASE JudgedAnchored(p)
    <3>1. x.intent \in remote
      <4>1. x.seen \in remote \cup {NoAnchor} /\ x.seen = x.intent /\ Len(x.intent) > 0
        BY <1>1, <2>1, <2>5 DEF RunOK, JudgedAnchored
      <4> QED BY <4>1, EmptyIs
    <3>2. StageAnchor(x.intent) /\ outcome' = [outcome EXCEPT ![claim.req] = "done"]
      BY <1>8, <2>5 DEF Reconcile
    <3> QED BY <1>4, <1>5, <1>8, <2>2, <2>3, <2>4, <3>1, <3>2 DEF Reconcile
  <2>6. CASE ~JudgedAnchored(p)
    <3>1. rows' = rows /\ outcome' = [outcome EXCEPT ![claim.req] = "refused"]
      BY <1>8, <2>6 DEF Reconcile
    <3> QED BY <1>1, <1>4, <1>8, <2>2, <2>3, <2>4, <3>1 DEF Reconcile, StoreOK
  <2> QED BY <2>5, <2>6
<1>9. CASE Renew(p)
  <2>1. claim.req \in Requests
    BY <1>1, <1>9 DEF Renew, RunOK
  <2>2. PICK cl : cl = claim'
    OBVIOUS
  <2>3. /\ DOMAIN cl = {"req", "owner", "seq", "lease"} /\ cl.req = claim.req
        /\ cl.owner = claim.owner /\ cl.seq = claim.seq /\ claim # NoClaim
    BY <1>1, <1>9, <2>1, <2>2, NoneAssumption DEF Renew, StoreOK, NoClaim
  <2>4. StoreOK(chain, cl, outcome, rows, remote)
    BY <1>1, <2>1, <2>3 DEF StoreOK
  <2> QED BY <1>1, <1>9, <2>2, <2>4 DEF Renew, Moved
<1>10. CASE Record(p)
  <2>1. x.pc = "record" /\ x.req \in Requests
    BY <1>1, <1>10 DEF Record, At, RunOK
  <2>2. Kept
    BY <1>3, <1>10 DEF Record
  <2>3. CASE x.pushed
    <3>1. x.intent \in remote
      BY <1>1, <2>3 DEF RunOK
    <3>2. StageAnchor(x.intent) /\ outcome' = [outcome EXCEPT ![x.req] = "done"]
      BY <1>10, <2>3 DEF Record
    <3>3. StoreOK(chain', claim', outcome', rows', remote)
      BY <1>4, <1>5, <1>10, <2>1, <2>2, <3>1, <3>2 DEF Record
    <3> QED BY <1>10, <3>3, StopIs DEF Record
  <2>4. CASE ~x.pushed
    <3>1. rows' = rows /\ outcome' = [outcome EXCEPT ![x.req] = "refused"]
      BY <1>10, <2>4 DEF Record
    <3>2. StoreOK(chain', claim', outcome', rows', remote)
      BY <1>1, <1>4, <1>10, <2>1, <2>2, <3>1 DEF Record, StoreOK
    <3> QED BY <1>10, <3>2, StopIs DEF Record
  <2> QED BY <2>3, <2>4
<1>11. CASE AckRecord(p)
  <2>1. Kept
    BY <1>3, <1>11 DEF AckRecord
  <2> QED BY <1>11, <2>1, StopIs DEF AckRecord
<1> QED BY <1>6, <1>7, <1>8, <1>9, <1>10, <1>11 DEF Writes

\* Every step keeps what the store rests on.
LEMMA StoreStep == StoreInv /\ [Next]_vars => StoreInv'
<1> SUFFICES ASSUME StoreInv, [Next]_vars PROVE StoreInv'
  OBVIOUS
<1>1. ASSUME NEW p \in Procs, Quiet(p) PROVE StoreInv'
  <2>1. /\ UNCHANGED <<chain, claim, outcome, rows, remote, flight, now, copy, era>>
    BY <1>1, QuietWorld DEF store, World
  <2>2. DOMAIN run' = Procs /\ \A q \in Procs : RunOK(run'[q], remote')
    BY <1>1, <2>1, QuietRun, RunStep
  <2> QED BY <2>1, <2>2 DEF StoreInv
<1>2. ASSUME NEW p \in Procs, Send(p) PROVE StoreInv'
  <2>1. /\ UNCHANGED <<chain, claim, outcome, rows, remote, now, copy, era>>
        /\ flight' = flight \cup {run[p].intent}
    BY <1>2, SendWorld DEF store
  <2>2. DOMAIN run' = Procs /\ \A q \in Procs : RunOK(run'[q], remote')
    BY <1>2, <2>1, QuietRun, RunStep
  <2>3. IsSeq(run[p].intent)
    BY DEF StoreInv, RunOK
  <2> QED BY <2>1, <2>2, <2>3 DEF StoreInv
<1>3. ASSUME NEW p \in Procs, Writes(p) PROVE StoreInv'
  <2>1. /\ StoreOK(chain', claim', outcome', rows', remote) /\ UNCHANGED World
        /\ Moved(p) /\ RunOK(run'[p], remote)
    BY <1>3, WriteStep
  <2>2. UNCHANGED <<remote, flight, now, copy, era>>
    BY <2>1 DEF World
  <2>3. DOMAIN run' = Procs /\ \A q \in Procs : RunOK(run'[q], remote')
    BY <2>1, <2>2, RunStep
  <2> QED BY <2>1, <2>2, <2>3 DEF StoreInv
<1>4. CASE Work
  <2>1. /\ UNCHANGED <<claim, outcome, rows, run, remote, flight, now, copy, era>>
        /\ chain' = Append(chain, Entry("work"))
    BY <1>4 DEF Work, World, Extend
  <2>2. StoreOK(chain', claim, outcome, rows, remote)
    BY <2>1, StoreGrows DEF StoreInv
  <2> QED BY <2>1, <2>2 DEF StoreInv
<1>5. CASE Tick
  <2>1. now' \in 0..MaxTime
    BY <1>5, BoundAssumption DEF Tick, StoreInv
  <2> QED BY <1>5, <2>1 DEF Tick, StoreInv, store
<1>6. CASE Backup
  <2>1. /\ UNCHANGED <<chain, claim, outcome, rows, remote, flight, run, now, era>>
        /\ copy'.chain = chain /\ copy'.claim = [claim EXCEPT !.lease = NoLease]
        /\ copy'.outcome = outcome /\ copy'.rows = rows
    BY <1>6 DEF Backup, store
  <2>2. PICK cl : cl = [claim EXCEPT !.lease = NoLease]
    OBVIOUS
  <2>3. StoreOK(chain, claim, outcome, rows, remote)
    BY DEF StoreInv
  <2>4. /\ DOMAIN cl = {"req", "owner", "seq", "lease"} /\ cl.req = claim.req
        /\ cl.owner = claim.owner /\ cl.seq = claim.seq
        /\ claim = NoClaim => cl = NoClaim
    BY <2>2, <2>3 DEF StoreOK, NoClaim
  <2>5. StoreOK(chain, cl, outcome, rows, remote)
    BY <2>3, <2>4 DEF StoreOK
  <2> QED BY <2>1, <2>2, <2>5 DEF StoreInv
<1>7. CASE Restore
  <2>1. /\ chain' = copy.chain /\ claim' = copy.claim /\ outcome' = copy.outcome
        /\ rows' = copy.rows /\ era' = era + 1 /\ era < MaxEra
        /\ UNCHANGED <<remote, flight, run, now, copy>>
    BY <1>7 DEF Restore
  <2>2. era' \in 0..MaxEra
    BY <2>1, BoundAssumption DEF StoreInv
  <2> QED BY <2>1, <2>2 DEF StoreInv
<1>8. ASSUME NEW a \in flight, Land(a) \/ Lose(a) PROVE StoreInv'
  <2>1. /\ UNCHANGED <<chain, claim, outcome, rows, run, now, copy, era>>
        /\ flight' \subseteq flight /\ remote \subseteq remote'
        /\ remote' \subseteq remote \cup {a}
    BY <1>8 DEF Land, Lose, store
  <2> QED BY <2>1, MoreTags DEF StoreInv
<1>9. CASE UNCHANGED vars
  BY <1>9 DEF vars, store, StoreInv
<1> QED BY <1>1, <1>2, <1>3, <1>4, <1>5, <1>6, <1>7, <1>8, <1>9, Steps

LEMMA StoreInit == Init => StoreInv
<1> SUFFICES ASSUME Init PROVE StoreInv
  OBVIOUS
<1>1. StoreOK(<<>>, NoClaim, [r \in Requests |-> "none"], {}, {})
  BY EmptyIs, BoundAssumption DEF StoreOK, NoClaim, NoAnchor
<1>2. /\ StoreOK(chain, claim, outcome, rows, remote)
      /\ StoreOK(copy.chain, copy.claim, copy.outcome, copy.rows, remote)
  BY <1>1 DEF Init
<1>3. DOMAIN run = Procs /\ \A p \in Procs : RunOK(run[p], remote)
  BY NoRunIs DEF Init
<1> QED BY <1>2, <1>3, BoundAssumption DEF Init, StoreInv

\* The invariant says what the module's does.
LEMMA StoreMeans == StoreInv => AnchorInv
<1> SUFFICES ASSUME StoreInv PROVE AnchorInv
  OBVIOUS
<1>1. StoreOK(chain, claim, outcome, rows, remote)
  BY DEF StoreInv
<1>2. ASSUME NEW p \in Procs
      PROVE  /\ run[p].pc \in {"idle", "claim", "holder", "exact", "reconcile",
                               "fetch", "verify", "push", "sent", "record",
                               "acknowledge"}
             /\ run[p].req \in Requests \cup {None}
             /\ run[p].pc \notin {"idle", "acknowledge"} => run[p].req \in Requests
  BY DEF StoreInv, RunOK, Points
<1>3. TypeOK
  BY <1>1, <1>2 DEF StoreInv, StoreOK, TypeOK
<1>4. RowsWitnessed
  BY <1>1 DEF StoreOK, RowsWitnessed
<1> QED BY <1>3, <1>4 DEF AnchorInv

\* anchor.rs, reconcile.rs, restore.rs: the inductive invariant holds.
THEOREM SpecStore == Spec => []StoreInv
BY StoreInit, StoreStep, PTL DEF Spec

\* judge_anchor, record: the anchor rows and the done outcomes of a store,
\* restored or not, name tags the forge holds, and every part has its shape.
THEOREM RowsAreTags == Spec => []AnchorInv
BY SpecStore, StoreMeans, PTL

-----------------------------------------------------------------------------
(* Commands end *)

\* The steps left at every point of a command.
LEMMA LeftIs ==
    ASSUME NEW x
    PROVE  /\ x.pc = "idle" => StepsLeft(x) = 0
           /\ x.pc \in {"record", "acknowledge"} => StepsLeft(x) = 1
           /\ x.pc = "sent" => StepsLeft(x) = 2
           /\ x.pc = "push" => StepsLeft(x) = 3
           /\ x.pc = "verify" => StepsLeft(x) = 4
           /\ x.pc = "fetch" => StepsLeft(x) = 5
           /\ x.pc = "claim" => StepsLeft(x) = IF x.retried THEN 6 ELSE 10
           /\ x.pc = "reconcile" => StepsLeft(x) = 7
           /\ x.pc = "exact" => StepsLeft(x) = 8
           /\ x.pc = "holder" => StepsLeft(x) = 9
BY DEF StepsLeft

\* A command that stops has no step left, and had one.
LEMMA StopEnds ==
    ASSUME StoreInv, NEW p \in Procs, Stop(p), run[p].pc # "idle"
    PROVE  StepsLeft(run'[p]) < StepsLeft(run[p])
<1>1. StepsLeft(run'[p]) = 0
  BY StopIs, LeftIs DEF NoRun
<1>2. run[p].pc \in Points
  BY DEF StoreInv, RunOK
<1>3. StepsLeft(run[p]) \in 1..10
  BY <1>2, LeftIs DEF Points
<1> QED BY <1>1, <1>3

\* A step of a command under way leaves it fewer.
LEMMA AdvanceStep ==
    ASSUME StoreInv, NEW p \in Procs, Quiet(p) \/ Send(p) \/ Writes(p),
           run[p].pc # "idle", run'[p] # run[p]
    PROVE  StepsLeft(run'[p]) < StepsLeft(run[p])
<1> DEFINE x == run[p]
           y == run'[p]
           Less == StepsLeft(y) < StepsLeft(x)
<1>1. RunOK(x, remote) /\ DOMAIN run = Procs /\ DOMAIN x = Fields
  BY DEF StoreInv, RunOK
<1>2. CASE Stop(p)
  BY <1>2, StopEnds
<1>3. ASSUME NEW from, NEW to, <<from, to>> \in
                 {<<"holder", "exact">>, <<"exact", "reconcile">>, <<"fetch", "verify">>,
                  <<"fetch", "record">>, <<"verify", "record">>, <<"verify", "push">>,
                  <<"push", "sent">>, <<"sent", "record">>, <<"claim", "fetch">>},
             x.pc = from, y.pc = to
      PROVE  Less
  BY <1>3, LeftIs
<1>4. CASE ClaimNew(p)
  <2>1. x.pc = "claim" /\ y.pc = "fetch"
    BY <1>1, <1>4 DEF ClaimNew, At, Fields
  <2> QED BY <1>3, <2>1
<1>5. CASE ClaimBlocked(p)
  <2>1. CASE ~x.retried /\ y.pc = "holder" /\ x.pc = "claim"
    BY <2>1, LeftIs
  <2> QED BY <1>1, <1>2, <1>5, <2>1 DEF ClaimBlocked, At, Fields
<1>6. CASE ReadHolder(p)
  <2>1. CASE x.pc = "holder" /\ y.pc = "exact"
    BY <1>3, <2>1
  <2> QED BY <1>1, <1>2, <1>6, <2>1 DEF ReadHolder, At, Fields
<1>7. CASE Reconcile(p)
  <2>1. x.pc = "reconcile" /\ y.pc = "claim" /\ y.retried
    BY <1>1, <1>7 DEF Reconcile, At, NoRun
  <2> QED BY <2>1, LeftIs
<1>8. CASE \E a \in Anchors : FetchExact(p, a)
  <2>1. x.pc = "exact" /\ y.pc = "reconcile"
    BY <1>1, <1>8 DEF FetchExact, At, Fields
  <2> QED BY <1>3, <2>1
<1>9. CASE \E a \in Anchors : FetchLatest(p, a)
  <2>1. x.pc = "fetch" /\ y.pc = "verify"
    BY <1>1, <1>9 DEF FetchLatest, At, Fields
  <2> QED BY <1>3, <2>1
<1>10. CASE FetchLatestFails(p) \/ NotAnswered(p)
  <2>1. \/ x.pc = "fetch" /\ y.pc = "record"
        \/ x.pc = "sent" /\ y.pc = "record"
    BY <1>1, <1>10 DEF FetchLatestFails, NotAnswered, Goto, At, Fields
  <2> QED BY <1>3, <2>1
<1>11. CASE Verify(p)
  <2>1. PICK to \in {"record", "push"} :
            run' = [run EXCEPT ![p].pc = to, ![p].seen = NoAnchor]
    BY <1>11 DEF Verify
  <2>2. x.pc = "verify" /\ y.pc = to
    BY <1>1, <1>11, <2>1 DEF Verify, At, Fields
  <2>3. CASE to = "record"
    BY <1>3, <2>2, <2>3
  <2>4. CASE to = "push"
    BY <1>3, <2>2, <2>4
  <2> QED BY <2>3, <2>4
<1>12. CASE Answered(p)
  <2>1. x.pc = "sent" /\ y.pc = "record"
    BY <1>1, <1>12 DEF Answered, At, Fields
  <2> QED BY <1>3, <2>1
<1>13. ~Renew(p) /\ (\A r \in Requests : ~Begin(p, r)) /\ \A a \in Anchors : ~AckVerify(p, a)
  BY DEF Renew, Begin, AckVerify, At
<1>14. ASSUME \/ ClaimRefused(p) \/ ClaimAnswered(p) \/ FetchExactFails(p)
              \/ ReconcileLost(p) \/ Record(p) \/ RecordReplayed(p)
              \/ AckRecord(p) \/ AckStale(p) \/ Crash(p)
       PROVE  Stop(p)
  BY <1>14 DEF ClaimRefused, ClaimAnswered, FetchExactFails, ReconcileLost, Record,
               RecordReplayed, AckRecord, AckStale, Crash
<1>15. CASE Quiet(p)
  BY <1>2, <1>5, <1>6, <1>8, <1>9, <1>10, <1>11, <1>12, <1>13, <1>14, <1>15 DEF Quiet
<1>16. CASE Writes(p)
  BY <1>2, <1>4, <1>7, <1>13, <1>14, <1>16 DEF Writes
<1>17. CASE Send(p)
  <2>1. x.pc = "push" /\ y.pc = "sent"
    BY <1>1, <1>17 DEF Send, Goto, At, Fields
  <2> QED BY <1>3, <2>1
<1> QED BY <1>15, <1>16, <1>17

\* anchor_command: every step of a command brings it nearer to its end, however
\* often the claim it meets changes hands: it has ten at most and retries once.
THEOREM CommandsShorten == Spec => CommandsAdvance
<1>1. ASSUME StoreInv, [Next]_vars, NEW q \in Procs, run[q].pc # "idle", run'[q] # run[q]
      PROVE  StepsLeft(run'[q]) < StepsLeft(run[q])
  <2>1. ASSUME NEW p \in Procs, Quiet(p) \/ Send(p) \/ Writes(p)
        PROVE  StepsLeft(run'[q]) < StepsLeft(run[q])
    <3>1. Moved(p)
      BY <1>1, <2>1, QuietRun, WriteStep
    <3>2. q = p
      BY <1>1, <3>1 DEF Moved
    <3> QED BY <1>1, <2>1, <3>2, AdvanceStep
  <2>2. ~(Work \/ Tick \/ Backup \/ Restore \/ (\E a \in flight : Land(a) \/ Lose(a))
          \/ UNCHANGED vars)
    BY <1>1 DEF Work, Tick, Backup, Restore, Land, Lose, vars
  <2> QED BY <1>1, <2>1, <2>2, Steps
<1>2. StoreInv /\ [Next]_vars =>
         [\A p \in Procs :
             run[p].pc # "idle" /\ run'[p] # run[p] =>
                 StepsLeft(run'[p]) < StepsLeft(run[p])]_run
  BY <1>1
<1> QED BY <1>2, SpecStore, PTL DEF Spec, CommandsAdvance

-----------------------------------------------------------------------------
(* Outcomes *)

\* Which outcomes a step that writes the store gives: those of a request
\* without one, or of the open claim.
LEMMA OutcomeStep ==
    ASSUME StoreInv, NEW p \in Procs, Writes(p)
    PROVE  \/ outcome' = outcome
           \/ \E r \in Requests, o \in {"done", "refused"} :
                 outcome[r] = "none" /\ outcome' = [outcome EXCEPT ![r] = o]
<1>1. RunOK(run[p], remote) /\ StoreOK(chain, claim, outcome, rows, remote)
  BY DEF StoreInv
<1>2. claim.req \in Requests => outcome[claim.req] = "none"
  BY <1>1, NoneAssumption DEF StoreOK, NoClaim
<1>3. CASE ClaimRefused(p)
  BY <1>1, <1>3 DEF ClaimRefused, At, RunOK
<1>4. CASE Reconcile(p)
  <2>1. claim.req \in Requests
    BY <1>1, <1>4 DEF Reconcile, At, RunOK
  <2>2. PICK o \in {"done", "refused"} : outcome' = [outcome EXCEPT ![claim.req] = o]
    BY <1>4 DEF Reconcile
  <2> QED BY <1>2, <2>1, <2>2
<1>5. CASE Record(p)
  <2>1. run[p].req \in Requests /\ claim.req = run[p].req
    BY <1>1, <1>5 DEF Record, At, RunOK
  <2>2. PICK o \in {"done", "refused"} : outcome' = [outcome EXCEPT ![run[p].req] = o]
    BY <1>5 DEF Record
  <2> QED BY <1>2, <2>1, <2>2
<1>6. CASE ClaimNew(p) \/ Renew(p) \/ AckRecord(p)
  BY <1>6 DEF ClaimNew, Renew, AckRecord
<1> QED BY <1>3, <1>4, <1>5, <1>6 DEF Writes

\* LateReplay: an outcome that was given stands until a restore, though a
\* stalled owner and a reconciler both come to record one.
THEOREM OutcomesStand == Spec => OutcomeStands
<1>1. ASSUME StoreInv, [Next]_vars
      PROVE  [era' = era =>
                \A r \in Requests :
                    outcome[r] # "none" => outcome'[r] = outcome[r]]_<<outcome, era>>
  <2>1. ASSUME NEW p \in Procs, Writes(p), NEW r \in Requests, outcome[r] # "none"
        PROVE  outcome'[r] = outcome[r]
    <3>1. outcome \in [Requests -> {"none", "done", "refused"}]
      BY <1>1 DEF StoreInv, StoreOK
    <3>2. \/ outcome' = outcome
          \/ \E q \in Requests, o \in {"done", "refused"} :
                outcome[q] = "none" /\ outcome' = [outcome EXCEPT ![q] = o]
      BY <1>1, <2>1, OutcomeStep
    <3> QED BY <2>1, <3>1, <3>2
  <2>2. ASSUME NEW p \in Procs, Quiet(p) \/ Send(p) PROVE outcome' = outcome
    BY <2>2, QuietWorld, SendWorld DEF store
  <2>3. CASE Work \/ Tick \/ Backup \/ (\E a \in flight : Land(a) \/ Lose(a)) \/ UNCHANGED vars
    BY <2>3 DEF Work, Tick, Backup, Land, Lose, store, vars
  <2>4. CASE Restore
    <3>1. era \in Nat /\ era' = era + 1
      BY <1>1, <2>4, BoundAssumption DEF StoreInv, Restore
    <3> QED BY <3>1
  <2> QED BY <1>1, <2>1, <2>2, <2>3, <2>4, Steps
<1> QED BY <1>1, SpecStore, PTL DEF Spec, OutcomeStands

-----------------------------------------------------------------------------
(* Heads on their way to the forge *)

\* What is on its way to the forge, or will be, is a head of the chain.
HeadsInv ==
    /\ \A a \in flight : Holds(chain, a)
    /\ \A p \in Procs : run[p].pc \in Owning => Holds(chain, run[p].intent)

\* The chain between two restores.
Grows == chain' = chain \/ \E e : chain' = Append(chain, e)

LEMMA GrowStep ==
    ASSUME StoreInv, [Next]_vars
    PROVE  Restore \/ (Grows /\ era' = era)
<1>1. ASSUME NEW p \in Procs, Writes(p) PROVE Grows /\ era' = era
  BY <1>1 DEF Writes, ClaimNew, ClaimRefused, Reconcile, Renew, Record, AckRecord,
              Extend, World, Grows
<1>2. ASSUME NEW p \in Procs, Quiet(p) \/ Send(p) PROVE Grows /\ era' = era
  BY <1>2, QuietWorld, SendWorld DEF store, World, Grows
<1>3. CASE Work \/ Tick \/ Backup \/ (\E a \in flight : Land(a) \/ Lose(a)) \/ UNCHANGED vars
  BY <1>3 DEF Work, Tick, Backup, Land, Lose, store, vars, Grows, Extend, World
<1> QED BY <1>1, <1>2, <1>3, Steps

LEMMA HoldsStill ==
    ASSUME StoreInv, Grows, NEW a, IsSeq(a), Holds(chain, a)
    PROVE  Holds(chain', a)
<1>1. IsSeq(chain)
  BY DEF StoreInv, StoreOK
<1> QED BY <1>1, HoldsMore DEF Grows

\* The quiet steps before a claim, and those around one that blocks.
Aside(p) ==
    \/ \E r \in Requests : Begin(p, r)
    \/ \E a \in Anchors : AckVerify(p, a) \/ FetchExact(p, a)
    \/ ClaimBlocked(p) \/ ReadHolder(p)

LEMMA AsideStep ==
    ASSUME StoreInv, NEW p \in Procs, Aside(p), ~Stop(p)
    PROVE  run'[p].pc \in {"claim", "acknowledge", "reconcile", "holder", "exact"}
<1>1. DOMAIN run = Procs /\ DOMAIN run[p] = Fields
  BY DEF StoreInv, RunOK
<1>2. ASSUME NEW r \in Requests, Begin(p, r) PROVE run'[p].pc = "claim"
  BY <1>1, <1>2 DEF Begin, Fields
<1>3. ASSUME NEW a \in Anchors, AckVerify(p, a) PROVE run'[p].pc = "acknowledge"
  BY <1>1, <1>3 DEF AckVerify, Fields
<1>4. ASSUME NEW a \in Anchors, FetchExact(p, a) PROVE run'[p].pc = "reconcile"
  BY <1>1, <1>4 DEF FetchExact, Fields
<1>5. ASSUME ClaimBlocked(p) PROVE run'[p].pc = "holder"
  <2>1. run' = [run EXCEPT ![p].pc = "holder", ![p].held = claim]
    BY <1>5 DEF ClaimBlocked
  <2> QED BY <1>1, <2>1 DEF Fields
<1>6. ASSUME ReadHolder(p) PROVE run'[p].pc = "exact"
  <2>1. run' = [run EXCEPT ![p].pc = "exact", ![p].held = claim, ![p].intent = Target]
    BY <1>6 DEF ReadHolder
  <2> QED BY <1>1, <2>1 DEF Fields
<1> QED BY <1>2, <1>3, <1>4, <1>5, <1>6 DEF Aside

\* The steps that bring a process to where it owns a claim, or keep it there.
LEMMA OwningStep ==
    ASSUME StoreInv, NEW p \in Procs, Quiet(p) \/ Send(p) \/ Writes(p),
           run'[p].pc \in Owning
    PROVE  \/ run[p].pc \in Owning /\ run'[p].intent = run[p].intent
           \/ ClaimNew(p) /\ run'[p].intent = chain
<1>1. DOMAIN run = Procs /\ DOMAIN run[p] = Fields
  BY DEF StoreInv, RunOK
<1>2. NoRun.pc \notin Owning
  BY DEF NoRun, Owning
<1>3. ~Stop(p)
  BY <1>1, <1>2 DEF Stop
<1>4. CASE Quiet(p) \/ Send(p)
  <2>1. CASE Aside(p)
    BY <1>3, <2>1, AsideStep DEF Owning
  <2>2. CASE \E a \in Anchors : FetchLatest(p, a)
    BY <1>1, <2>2 DEF FetchLatest, At, Owning, Fields
  <2>3. CASE FetchLatestFails(p) \/ Send(p) \/ NotAnswered(p)
    BY <1>1, <2>3 DEF FetchLatestFails, Send, NotAnswered, At, Goto, Owning, Fields
  <2>4. CASE Verify(p) \/ Answered(p)
    BY <1>1, <2>4 DEF Verify, Answered, At, Owning, Fields
  <2> QED BY <1>3, <1>4, <2>1, <2>2, <2>3, <2>4
          DEF Quiet, Aside, ClaimAnswered, FetchExactFails, ReconcileLost,
              RecordReplayed, AckStale, Crash
<1>5. CASE Writes(p)
  <2>1. CASE ClaimNew(p)
    BY <1>1, <2>1 DEF ClaimNew, Fields
  <2>2. CASE Reconcile(p)
    BY <1>1, <2>2 DEF Reconcile, NoRun, Owning
  <2>3. CASE Renew(p)
    BY <2>3 DEF Renew, Owning
  <2> QED BY <1>3, <1>5, <2>1, <2>2, <2>3 DEF Writes, ClaimRefused, Record, AckRecord
<1> QED BY <1>4, <1>5

LEMMA HeadsStep == StoreInv /\ HeadsInv /\ [Next]_vars => HeadsInv'
<1> SUFFICES ASSUME StoreInv, HeadsInv, [Next]_vars PROVE HeadsInv'
  OBVIOUS
<1>1. IsSeq(chain) /\ DOMAIN run = Procs
  BY DEF StoreInv, StoreOK
<1>2. ASSUME Grows, NEW a \in flight PROVE Holds(chain', a)
  <2>1. IsSeq(a) /\ Holds(chain, a)
    BY DEF StoreInv, HeadsInv
  <2> QED BY <1>2, <2>1, HoldsStill
<1>3. ASSUME Grows, NEW q \in Procs, run[q].pc \in Owning
      PROVE  Holds(chain', run[q].intent)
  <2>1. IsSeq(run[q].intent) /\ Holds(chain, run[q].intent)
    BY <1>3 DEF StoreInv, RunOK, HeadsInv
  <2>2. PICK a : a = run[q].intent
    OBVIOUS
  <2> QED BY <1>3, <2>1, <2>2, HoldsStill
<1>4. ASSUME NEW p \in Procs, Quiet(p) \/ Send(p) \/ Writes(p) PROVE HeadsInv'
  <2>1. Grows
    <3>1. CASE Writes(p)
      BY <3>1 DEF Writes, ClaimNew, ClaimRefused, Reconcile, Renew, Record, AckRecord,
                  Extend, Grows
    <3>2. CASE Quiet(p) \/ Send(p)
      BY <3>2, QuietWorld, SendWorld DEF store, Grows
    <3> QED BY <1>4, <3>1, <3>2
  <2>2. Moved(p)
    BY <1>4, QuietRun, WriteStep
  <2>3. \A a \in flight' : Holds(chain', a)
    <3>1. CASE Send(p)
      <4>1. flight' = flight \cup {run[p].intent} /\ run[p].pc \in Owning
        BY <3>1, SendWorld DEF Owning
      <4> QED BY <1>2, <1>3, <2>1, <4>1
    <3>2. CASE Quiet(p) \/ Writes(p)
      BY <1>2, <2>1, <3>2, QuietWorld, WriteStep DEF World
    <3> QED BY <1>4, <3>1, <3>2
  <2>4. ASSUME run'[p].pc \in Owning PROVE Holds(chain', run'[p].intent)
    <3>1. CASE run[p].pc \in Owning /\ run'[p].intent = run[p].intent
      BY <1>3, <2>1, <3>1
    <3>2. CASE ClaimNew(p) /\ run'[p].intent = chain
      BY <1>1, <2>1, <3>2, HoldsSelf, HoldsStill
    <3> QED BY <1>4, <2>4, <3>1, <3>2, OwningStep
  <2>5. \A q \in Procs \ {p} : run'[q].pc \in Owning => Holds(chain', run'[q].intent)
    BY <1>3, <2>1, <2>2 DEF Moved
  <2> QED BY <2>3, <2>4, <2>5 DEF HeadsInv
<1>5. CASE Restore
  <2>1. flight' = {} /\ \A q \in Procs : run'[q].pc = "idle"
    BY <1>5 DEF Restore, At
  <2> QED BY <2>1 DEF HeadsInv, Owning
<1>6. CASE Work \/ Tick \/ Backup \/ (\E a \in flight : Land(a) \/ Lose(a)) \/ UNCHANGED vars
  <2>1. Grows /\ run' = run /\ flight' \subseteq flight
    BY <1>6 DEF Work, Tick, Backup, Land, Lose, vars, store, World, Extend, Grows
  <2> QED BY <1>2, <1>3, <2>1 DEF HeadsInv
<1> QED BY <1>4, <1>5, <1>6, Steps

LEMMA HeadsInit == Init => HeadsInv
BY DEF Init, HeadsInv, NoRun, Owning

\* act_and_record: between two restores only heads of the chain are pushed.
THEOREM SpecHeads == Spec => [](StoreInv /\ HeadsInv)
BY StoreInit, StoreStep, HeadsInit, HeadsStep, PTL DEF Spec

-----------------------------------------------------------------------------
(* Agreement *)

\* A chain that grows explains and acknowledges what it did.
LEMMA AcknowledgesMore ==
    ASSUME NEW c, IsSeq(c), NEW e, NEW i \in DOMAIN c
    PROVE  i \in DOMAIN Append(c, e) /\ Append(c, e)[i] = c[i]
<1>1. PICK d : d = Append(c, e)
  OBVIOUS
<1>2. /\ IsSeq(d) /\ Len(d) = Len(c) + 1 /\ Len(c) \in Nat
      /\ \A j \in 1..Len(c) : d[j] = c[j]
  BY <1>1, AppendIs
<1>3. DOMAIN c = 1..Len(c) /\ DOMAIN d = 1..Len(d)
  BY <1>2, LenIs
<1> QED BY <1>1, <1>2, <1>3

\* pre_push_check: a chain that grows mismatches no more than it did.
LEMMA MismatchLess ==
    ASSUME StoreInv, Grows, NEW a \in remote, Mismatch(chain', a)
    PROVE  Mismatch(chain, a)
<1>1. IsSeq(chain) /\ IsSeq(a)
  BY DEF StoreInv, StoreOK
<1>2. a # NoAnchor /\ ~Holds(chain, a)
  BY <1>1, HoldsStill DEF Mismatch
<1>3. ASSUME NEW i \in DOMAIN chain, chain[i].type = "acknowledged", chain[i].anchor = a
      PROVE  FALSE
  <2>1. i \in DOMAIN chain' /\ chain'[i] = chain[i]
    BY <1>1, AcknowledgesMore DEF Grows
  <2> QED BY <1>3, <2>1 DEF Mismatch, Acknowledges
<1> QED BY <1>2, <1>3 DEF Mismatch, Acknowledges

\* Only a push that lands changes the tags.
LEMMA ForgeStep ==
    ASSUME StoreInv, [Next]_vars
    PROVE  remote' = remote \/ \E b \in flight : Land(b)
<1>1. ASSUME NEW p \in Procs, Writes(p) PROVE remote' = remote
  BY <1>1, WriteStep DEF World
<1>2. ASSUME NEW p \in Procs, Quiet(p) \/ Send(p) PROVE remote' = remote
  BY <1>2, QuietWorld, SendWorld DEF World
<1>3. CASE Work \/ Tick \/ Backup \/ Restore \/ (\E b \in flight : Lose(b)) \/ UNCHANGED vars
  BY <1>3 DEF Work, Tick, Backup, Restore, Lose, store, vars, World
<1> QED BY <1>1, <1>2, <1>3, Steps

\* What a push that lands changes.
LEMMA LandIs ==
    ASSUME StoreInv, HeadsInv, NEW b \in flight, Land(b)
    PROVE  /\ UNCHANGED <<store, run, now, copy, era>> /\ flight' \subseteq flight
           /\ Holds(chain, b) /\ IsSeq(b)
           /\ \/ remote' = remote
              \/ remote' = remote \cup {b} /\ \A a \in remote : Len(a) # Len(b)
BY DEF Land, HeadsInv, StoreInv, Tagged

\* A latest tag that mismatches was the latest and mismatched before.
LEMMA MismatchStep ==
    ASSUME StoreInv, HeadsInv, [Next]_vars, era' = era,
           NEW a \in remote', Latest(a)', Mismatch(chain', a)
    PROVE  a \in remote /\ Latest(a) /\ Mismatch(chain, a)
<1>1. Grows
  BY GrowStep DEF Restore, StoreInv, BoundAssumption
<1>2. CASE remote' = remote
  BY <1>1, <1>2, MismatchLess DEF Latest
<1>3. CASE \E b \in flight : Land(b)
  <2>1. PICK b \in flight : Land(b)
    BY <1>3
  <2>2. /\ chain' = chain /\ remote' \subseteq remote \cup {b} /\ remote \subseteq remote'
        /\ Holds(chain, b)
    BY <2>1, LandIs DEF store
  <2>3. a # b
    BY <2>2 DEF Mismatch
  <2>4. a \in remote /\ Latest(a)
    BY <2>2, <2>3 DEF Latest
  <2> QED BY <2>2, <2>4
<1> QED BY <1>2, <1>3, ForgeStep

\* restore.rs, chain.rs: a chain that agrees with the forge's latest tag is
\* never again called truncated or rewritten, restores aside.
THEOREM AgreementKept == Spec => AgreementStays
<1>1. ASSUME StoreInv, HeadsInv, [Next]_vars, era' = era, ~Disagrees PROVE ~Disagrees'
  BY <1>1, MismatchStep DEF Disagrees
<1>2. ASSUME StoreInv, HeadsInv, UNCHANGED vars, ~Disagrees PROVE ~Disagrees'
  BY <1>2 DEF vars, store, Disagrees, Latest
<1> QED BY <1>1, <1>2, SpecHeads, PTL DEF Spec, AgreementStays

-----------------------------------------------------------------------------
(* Pushes *)

\* The forge has one tag of each sequence; what a command fetched is the only
\* latest tag its chain can mismatch; and a command that pushes found none.
PushInv ==
    /\ \A a, b \in remote : Len(a) = Len(b) => a = b
    /\ \A p \in Procs : run[p].pc = "verify" =>
          /\ run[p].seen \in remote \cup {NoAnchor}
          /\ \A a \in remote : Latest(a) /\ Mismatch(chain, a) => a = run[p].seen
    /\ PushesAgree

Pushing == {"verify", "push", "sent"}

\* The steps after which a command verifies, pushes or has pushed.
LEMMA PushingStep ==
    ASSUME StoreInv, NEW p \in Procs, Quiet(p) \/ Send(p) \/ Writes(p),
           run'[p].pc \in Pushing
    PROVE  \/ run'[p].pc = "verify" /\ \E a \in Anchors : FetchLatest(p, a) /\ run'[p].seen = a
           \/ run'[p].pc = "push" /\ Verify(p) /\ ~Mismatch(chain, run[p].seen)
           \/ run'[p].pc = "sent" /\ Send(p)
           \/ Renew(p)
<1>1. DOMAIN run = Procs /\ DOMAIN run[p] = Fields
  BY DEF StoreInv, RunOK
<1>2. ~Stop(p)
  BY <1>1 DEF Stop, NoRun, Pushing
<1>3. CASE Quiet(p) \/ Send(p)
  <2>1. CASE Aside(p)
    BY <1>2, <2>1, AsideStep DEF Pushing
  <2>2. CASE \E a \in Anchors : FetchLatest(p, a)
    BY <1>1, <2>2 DEF FetchLatest, Fields
  <2>3. CASE FetchLatestFails(p) \/ NotAnswered(p) \/ Answered(p)
    <3>1. run'[p].pc = "record"
      BY <1>1, <2>3 DEF FetchLatestFails, NotAnswered, Answered, Goto, Fields
    <3> QED BY <3>1 DEF Pushing
  <2>4. CASE Send(p)
    BY <1>1, <2>4 DEF Send, Goto, Fields
  <2>5. CASE Verify(p)
    <3>1. PICK to : /\ to = IF Mismatch(chain, run[p].seen) THEN "record" ELSE "push"
                    /\ run' = [run EXCEPT ![p].pc = to, ![p].seen = NoAnchor]
      BY <2>5 DEF Verify
    <3>2. run'[p].pc = to
      BY <1>1, <3>1 DEF Fields
    <3> QED BY <2>5, <3>1, <3>2 DEF Pushing
  <2> QED BY <1>2, <1>3, <2>1, <2>2, <2>3, <2>4, <2>5
          DEF Quiet, Aside, ClaimAnswered, FetchExactFails, ReconcileLost,
              RecordReplayed, AckStale, Crash
<1>4. CASE Writes(p)
  <2>1. CASE ClaimNew(p)
    BY <1>1, <2>1 DEF ClaimNew, Fields, Pushing
  <2>2. CASE Reconcile(p)
    BY <1>1, <2>2 DEF Reconcile, NoRun, Pushing
  <2> QED BY <1>2, <1>4, <2>1, <2>2 DEF Writes, ClaimRefused, Record, AckRecord
<1> QED BY <1>3, <1>4

\* What is said of one command survives the steps that leave it alone.
LEMMA PushStill ==
    ASSUME StoreInv, HeadsInv, PushInv, [Next]_vars, era' = era,
           NEW p \in Procs, run'[p] = run[p]
    PROVE  /\ run'[p].pc = "verify" =>
                 /\ run'[p].seen \in remote' \cup {NoAnchor}
                 /\ \A a \in remote' : Latest(a)' /\ Mismatch(chain', a) => a = run'[p].seen
           /\ run'[p].pc \in {"push", "sent"} => ~Disagrees'
<1>1. remote \subseteq remote'
  BY ForgeStep DEF Land
<1>2. \A a \in remote' : Latest(a)' /\ Mismatch(chain', a) =>
          a \in remote /\ Latest(a) /\ Mismatch(chain, a)
  BY MismatchStep
<1> QED BY <1>1, <1>2 DEF PushInv, PushesAgree, Disagrees

\* Verification is of the fetched tag, and what landed since is a head of the
\* chain: so what a command finds when it verifies lasts until its push.
LEMMA PushStep == StoreInv /\ HeadsInv /\ PushInv /\ [Next]_vars => PushInv'
<1> SUFFICES ASSUME StoreInv, HeadsInv, PushInv, [Next]_vars PROVE PushInv'
  OBVIOUS
<1> DEFINE Fine(p) ==
             /\ run'[p].pc = "verify" =>
                  /\ run'[p].seen \in remote' \cup {NoAnchor}
                  /\ \A a \in remote' : Latest(a)' /\ Mismatch(chain', a) => a = run'[p].seen
             /\ run'[p].pc \in {"push", "sent"} => ~Disagrees'
<1>1. ASSUME NEW a \in remote', NEW b \in remote', Len(a) = Len(b) PROVE a = b
  <2>1. CASE remote' = remote
    BY <1>1, <2>1 DEF PushInv
  <2>2. CASE \E c \in flight : Land(c)
    <3>1. PICK c \in flight : Land(c)
      BY <2>2
    <3> QED BY <1>1, <2>1, <3>1, LandIs DEF PushInv
  <2> QED BY <2>1, <2>2, ForgeStep
<1>2. ASSUME NEW p \in Procs, Quiet(p) \/ Send(p) \/ Writes(p), NEW q \in Procs
      PROVE  Fine(q)
  <2>1. era' = era /\ remote' = remote /\ Moved(p)
    BY <1>2, QuietWorld, SendWorld, QuietRun, WriteStep DEF World
  <2>2. CASE run'[q] = run[q]
    BY <2>1, <2>2, PushStill
  <2>3. CASE q = p /\ run'[p].pc \in Pushing /\ run'[p] # run[p]
    <3>1. CASE \E a \in Anchors : FetchLatest(p, a) /\ run'[p].seen = a /\ run'[p].pc = "verify"
      <4>1. PICK a \in Anchors : FetchLatest(p, a) /\ run'[p].seen = a /\ run'[p].pc = "verify"
        BY <3>1
      <4>2. Latest(a) /\ UNCHANGED <<chain, remote>>
        BY <4>1, <2>1 DEF FetchLatest, store
      <4>3. ASSUME NEW b \in remote', Latest(b)', Mismatch(chain', b) PROVE b = a
        <5>1. b \in remote /\ Latest(b)
          BY <2>1, <4>3, MismatchStep
        <5>2. a \in remote /\ Len(a) = Len(b)
          <6>1. Len(a) \in Nat /\ Len(b) \in Nat
            BY <5>1, LenIs, EmptyIs DEF StoreInv, Anchors
          <6> QED BY <4>2, <5>1, <6>1 DEF Latest
        <5> QED BY <5>1, <5>2 DEF PushInv
      <4> QED BY <2>1, <2>3, <4>1, <4>3 DEF Anchors
    <3>2. CASE run'[p].pc = "push" /\ Verify(p) /\ ~Mismatch(chain, run[p].seen)
      <4>1. UNCHANGED <<chain, remote>> /\ run[p].pc = "verify"
        BY <2>1, <3>2 DEF Verify, store, At
      <4>2. ASSUME NEW b \in remote', Latest(b)', Mismatch(chain', b) PROVE FALSE
        <5>1. b \in remote /\ Latest(b) /\ Mismatch(chain, b)
          BY <2>1, <4>2, MismatchStep
        <5> QED BY <3>2, <4>1, <5>1 DEF PushInv
      <4> QED BY <2>3, <3>2, <4>2 DEF Disagrees
    <3>3. CASE run'[p].pc = "sent" /\ Send(p)
      <4>1. ~Disagrees
        BY <3>3 DEF Send, At, PushInv, PushesAgree
      <4> QED BY <2>1, <2>3, <3>3, <4>1, MismatchStep DEF Disagrees
    <3>4. CASE Renew(p)
      BY <2>3, <3>4 DEF Renew
    <3> QED BY <1>2, <2>3, <3>1, <3>2, <3>3, <3>4, PushingStep
  <2>4. CASE run'[q].pc \notin Pushing
    BY <2>4 DEF Pushing
  <2> QED BY <2>1, <2>2, <2>3, <2>4 DEF Moved
<1>3. ASSUME Work \/ Tick \/ Backup \/ (\E a \in flight : Land(a) \/ Lose(a)) \/ UNCHANGED vars,
             NEW q \in Procs
      PROVE  Fine(q)
  <2>1. era' = era /\ run' = run
    BY <1>3 DEF Work, Tick, Backup, Land, Lose, vars, World
  <2> QED BY <2>1, PushStill
<1>4. ASSUME Restore, NEW q \in Procs PROVE Fine(q)
  BY <1>4 DEF Restore, At
<1>5. \A q \in Procs : Fine(q)
  BY <1>2, <1>3, <1>4, Steps
<1>6. PushesAgree'
  BY <1>5 DEF PushesAgree
<1> QED BY <1>1, <1>5, <1>6 DEF PushInv

LEMMA PushInit == Init => PushInv
BY DEF Init, PushInv, PushesAgree, NoRun

LEMMA SpecPush == Spec => [](StoreInv /\ HeadsInv /\ PushInv)
BY StoreInit, StoreStep, HeadsInit, HeadsStep, PushInit, PushStep, PTL DEF Spec

-----------------------------------------------------------------------------
(* Before and after one restore *)

\* A head whose entries are all from before the restore.
Old(a) == \A i \in DOMAIN a : a[i].era = 0

Comparable(a, b) == Holds(a, b) \/ Holds(b, a)

\* The chain holds the tag, or tells the restore that took it away.
Known(a) == Holds(chain, a) \/ Explained(a)

\* A tag of the restored chain is on the forge or may come there.
Anew ==
    \/ flight # {}
    \/ \E p \in Procs : run[p].pc \in {"push", "sent"}
    \/ \E a \in remote : ~Old(a)

\* Before the restore the chain holds every tag.
EraZero == Old(chain) /\ Holds(chain, copy.chain) /\ \A a \in remote : Holds(chain, a)

\* The restored chain goes on from the copy; the tags of the lost one are heads
\* of one chain the copy is a head of too.
Lineage ==
    /\ Old(copy.chain) /\ Holds(chain, copy.chain)
    /\ \A i \in DOMAIN chain : i > Len(copy.chain) => chain[i].era = 1
    /\ \A a \in remote :
          /\ Old(a) \/ Holds(chain, a)
          /\ Old(a) => Comparable(a, copy.chain)
    /\ \A a, b \in remote : Old(a) /\ Old(b) => Comparable(a, b)

\* After it nothing new is pushed before every tag is known.
EraOne ==
    /\ Lineage
    /\ \A p \in Procs : run[p].pc = "verify" =>
          \A a \in remote : Holds(chain, a) \/ Len(a) <= Len(run[p].seen)
    /\ Anew => \A a \in remote : Known(a)

EraInv == (era = 0 => EraZero) /\ (era = 1 => EraOne)

\* An entry is of the time it is made in.
LEMMA EntryStep ==
    ASSUME StoreInv, [Next]_vars, era' = era
    PROVE  chain' = chain \/ \E e : e.era = era /\ chain' = Append(chain, e)
<1>1. ASSUME NEW p \in Procs, Writes(p)
      PROVE  chain' = chain \/ \E e : e.era = era /\ chain' = Append(chain, e)
  <2>1. \A t : Entry(t).era = era
    BY DEF Entry
  <2>2. CASE AckRecord(p)
    <3>1. PICK e : /\ e = IF Mismatch(chain, run[p].seen)
                         THEN [type |-> "acknowledged", era |-> era, anchor |-> run[p].seen]
                         ELSE Entry("refused")
                   /\ Extend(e)
      BY <2>2 DEF AckRecord
    <3>2. e.era = era
      BY <2>1, <3>1
    <3> QED BY <3>1, <3>2 DEF Extend
  <2> QED BY <1>1, <2>1, <2>2 DEF Writes, ClaimNew, ClaimRefused, Reconcile, Renew, Record, Extend
<1>2. ASSUME NEW p \in Procs, Quiet(p) \/ Send(p) PROVE chain' = chain
  BY <1>2, QuietWorld, SendWorld DEF store
<1>3. CASE Tick \/ Backup \/ (\E a \in flight : Land(a) \/ Lose(a)) \/ UNCHANGED vars
  BY <1>3 DEF Tick, Backup, Land, Lose, store, vars
<1>4. CASE Work
  <2>1. Entry("work").era = era
    BY DEF Entry
  <2> QED BY <1>4, <2>1 DEF Work, Extend
<1>5. ~Restore
  BY BoundAssumption DEF StoreInv, Restore
<1> QED BY <1>1, <1>2, <1>3, <1>4, <1>5, Steps

\* What is known of a tag stays known while the chain grows.
LEMMA KnownStill ==
    ASSUME StoreInv, Grows, NEW a, IsSeq(a), Known(a)
    PROVE  Known(a)'
<1>1. IsSeq(chain)
  BY DEF StoreInv, StoreOK
<1>2. CASE Holds(chain, a)
  BY <1>2, HoldsStill DEF Known
<1>3. CASE Explained(a)
  <2>1. PICK i \in DOMAIN chain :
            chain[i].type = "acknowledged" /\ Holds(chain[i].anchor, a)
    BY <1>3 DEF Explained
  <2>2. i \in DOMAIN chain' /\ chain'[i] = chain[i]
    BY <1>1, <2>1, AcknowledgesMore DEF Grows
  <2> QED BY <2>1, <2>2 DEF Known, Explained
<1> QED BY <1>2, <1>3 DEF Known

\* A chain from before the restore holds only heads from before it.
LEMMA OldHeads ==
    ASSUME NEW c, IsSeq(c), NEW a, IsSeq(a), Holds(c, a), Old(c)
    PROVE  Old(a)
<1>1. /\ Len(a) \in Nat /\ DOMAIN a = 1..Len(a) /\ Len(c) \in Nat /\ DOMAIN c = 1..Len(c)
      /\ Len(a) <= Len(c) /\ \A i \in 1..Len(a) : c[i] = a[i]
  BY LenIs, HoldsIs
<1> QED BY <1>1 DEF Old

\* Two heads of one chain are comparable.
LEMMA HeadsCompare ==
    ASSUME NEW c, IsSeq(c), NEW a, IsSeq(a), NEW b, IsSeq(b), Holds(c, a), Holds(c, b)
    PROVE  Comparable(a, b)
<1>1. Len(a) \in Nat /\ Len(b) \in Nat
  BY LenIs
<1> QED BY <1>1, HoldsShorter DEF Comparable

\* Before the restore.
LEMMA ZeroStep ==
    ASSUME StoreInv, HeadsInv, [Next]_vars, era' = era, era = 0, EraZero
    PROVE  EraZero'
<1>1. Grows
  BY GrowStep, BoundAssumption DEF Restore, StoreInv
<1>2. IsSeq(chain) /\ IsSeq(copy.chain) /\ \A a \in remote \cup flight : IsSeq(a)
  BY DEF StoreInv, StoreOK
<1>3. Old(chain')
  <2>1. CASE chain' = chain
    BY <2>1 DEF EraZero
  <2>2. CASE \E e : e.era = 0 /\ chain' = Append(chain, e)
    <3>1. PICK d, e : e.era = 0 /\ d = Append(chain, e) /\ chain' = d
      BY <2>2
    <3>2. /\ IsSeq(d) /\ Len(d) = Len(chain) + 1 /\ Len(chain) \in Nat /\ d[Len(d)] = e
          /\ \A i \in 1..Len(chain) : d[i] = chain[i]
      BY <1>2, <3>1, AppendIs
    <3>3. DOMAIN d = 1..Len(d) /\ DOMAIN chain = 1..Len(chain)
      BY <1>2, <3>2, LenIs
    <3> QED BY <3>1, <3>2, <3>3 DEF EraZero, Old
  <2> QED BY <2>1, <2>2, EntryStep
<1>4. Holds(chain', copy'.chain)
  <2>1. CASE Backup
    BY <1>2, <2>1, HoldsSelf DEF Backup, store
  <2>2. copy' = copy \/ Backup
    <3>1. ASSUME NEW p \in Procs, Quiet(p) \/ Send(p) \/ Writes(p) PROVE copy' = copy
      BY <3>1, QuietWorld, SendWorld, WriteStep DEF World
    <3> QED BY <3>1, Steps DEF Work, Tick, Restore, Land, Lose, vars, World
  <2>3. Holds(chain, copy.chain)
    BY DEF EraZero
  <2>4. PICK k : k = copy.chain
    OBVIOUS
  <2>5. Holds(chain', k)
    BY <1>1, <1>2, <2>3, <2>4, HoldsStill
  <2> QED BY <2>1, <2>2, <2>4, <2>5
<1>5. ASSUME NEW a \in remote' PROVE Holds(chain', a)
  <2>1. a \in remote \/ \E b \in flight : a = b
    BY ForgeStep DEF Land
  <2>2. Holds(chain, a) /\ IsSeq(a)
    BY <1>2, <2>1 DEF EraZero, HeadsInv
  <2> QED BY <1>1, <2>2, HoldsStill
<1> QED BY <1>3, <1>4, <1>5 DEF EraZero

\* The restore.
LEMMA RestoreStep ==
    ASSUME StoreInv, EraZero, Restore
    PROVE  EraOne'
<1>1. /\ chain' = copy.chain /\ copy' = copy /\ remote' = remote
      /\ flight' = {} /\ \A p \in Procs : run'[p].pc = "idle"
  BY DEF Restore, At
<1>2. IsSeq(chain) /\ IsSeq(copy.chain) /\ \A a \in remote : IsSeq(a) /\ Holds(chain, a)
  BY DEF StoreInv, StoreOK, EraZero
<1>3. Holds(chain, copy.chain) /\ Old(chain)
  BY DEF EraZero
<1>4. PICK k : k = copy.chain
  OBVIOUS
<1>5. Old(k) /\ Holds(k, k) /\ \A a \in remote : Old(a) /\ Comparable(a, k)
  BY <1>2, <1>3, <1>4, OldHeads, HeadsCompare, HoldsSelf
<1>6. \A a, b \in remote : Comparable(a, b)
  BY <1>2, HeadsCompare
<1>7. \A i \in DOMAIN k : ~(i > Len(k))
  BY <1>2, <1>4, LenIs
<1>8. Lineage'
  BY <1>1, <1>4, <1>5, <1>6, <1>7 DEF Lineage
<1>9. ~Anew'
  BY <1>1, <1>5 DEF Anew
<1> QED BY <1>1, <1>8, <1>9 DEF EraOne

\* After the restore only Backup, which is done by then, would change the copy.
LEMMA CopyStays ==
    ASSUME StoreInv, [Next]_vars, era = 1
    PROVE  copy' = copy
<1>1. ASSUME NEW p \in Procs, Quiet(p) \/ Send(p) \/ Writes(p) PROVE copy' = copy
  BY <1>1, QuietWorld, SendWorld, WriteStep DEF World
<1> QED BY <1>1, Steps DEF Work, Tick, Backup, Restore, Land, Lose, vars, World

\* A head of the restored chain that is from before the restore is a head of
\* the copy.
LEMMA OldIsCopied ==
    ASSUME StoreInv, Lineage, NEW b, IsSeq(b), Holds(chain, b), Old(b)
    PROVE  Holds(copy.chain, b)
<1>1. PICK k : k = copy.chain
  OBVIOUS
<1>2. IsSeq(chain) /\ IsSeq(k)
  BY <1>1 DEF StoreInv, StoreOK
<1>3. /\ Len(b) \in Nat /\ DOMAIN b = 1..Len(b) /\ Len(k) \in Nat
      /\ Len(chain) \in Nat /\ DOMAIN chain = 1..Len(chain)
      /\ Len(b) <= Len(chain) /\ \A i \in 1..Len(b) : chain[i] = b[i]
  BY <1>2, LenIs, HoldsIs
<1>4. ASSUME Len(b) > Len(k) PROVE FALSE
  <2>1. Len(b) \in DOMAIN chain /\ Len(b) \in DOMAIN b
    BY <1>3, <1>4
  <2>2. chain[Len(b)].era = 1 /\ b[Len(b)].era = 0
    BY <1>1, <1>4, <2>1 DEF Lineage, Old
  <2> QED BY <1>3, <2>1, <2>2
<1> QED BY <1>1, <1>2, <1>3, <1>4, HoldsShorter DEF Lineage

\* The lineage through a step of Baley or the forge.
LEMMA LineageStep ==
    ASSUME StoreInv, HeadsInv, Lineage, [Next]_vars, era' = era, era = 1
    PROVE  Lineage'
<1>1. Grows /\ copy' = copy
  BY GrowStep, CopyStays, BoundAssumption DEF Restore, StoreInv
<1>2. PICK k : k = copy.chain
  OBVIOUS
<1>3. IsSeq(chain) /\ IsSeq(k) /\ \A a \in remote \cup flight : IsSeq(a)
  BY <1>2 DEF StoreInv, StoreOK
<1>4. Old(k) /\ Holds(chain', k)
  BY <1>1, <1>2, <1>3, HoldsStill DEF Lineage
<1>5. \A i \in DOMAIN chain' : i > Len(k) => chain'[i].era = 1
  <2>1. CASE chain' = chain
    BY <1>2, <2>1 DEF Lineage
  <2>2. CASE \E e : e.era = 1 /\ chain' = Append(chain, e)
    <3>1. PICK d, e : e.era = 1 /\ d = Append(chain, e) /\ chain' = d
      BY <2>2
    <3>2. /\ IsSeq(d) /\ Len(d) = Len(chain) + 1 /\ Len(chain) \in Nat /\ d[Len(d)] = e
          /\ \A i \in 1..Len(chain) : d[i] = chain[i]
      BY <1>3, <3>1, AppendIs
    <3>3. DOMAIN d = 1..Len(d) /\ DOMAIN chain = 1..Len(chain)
      BY <1>3, <3>2, LenIs
    <3> QED BY <1>2, <3>1, <3>2, <3>3 DEF Lineage
  <2> QED BY <2>1, <2>2, EntryStep
<1>6. CASE remote' = remote
  <2>1. \A a \in remote : Holds(chain, a) => Holds(chain', a)
    BY <1>1, <1>3, HoldsStill
  <2> QED BY <1>1, <1>2, <1>4, <1>5, <1>6, <2>1 DEF Lineage
<1>7. CASE \E b \in flight : Land(b)
  <2>1. PICK b \in flight : Land(b)
    BY <1>7
  <2>2. chain' = chain /\ IsSeq(b) /\ Holds(chain, b)
    BY <2>1, LandIs DEF store
  <2>3. CASE remote' = remote
    BY <1>6, <2>3
  <2>4. CASE remote' = remote \cup {b}
    <3>1. Old(b) => Holds(k, b)
      BY <1>2, <2>2, OldIsCopied
    <3>2. ASSUME NEW a \in remote, Old(a), Old(b) PROVE Comparable(a, b)
      <4>1. Comparable(a, k)
        BY <1>2, <3>2 DEF Lineage
      <4>2. CASE Holds(a, k)
        BY <1>3, <2>2, <3>1, <3>2, <4>2, HoldsTrans DEF Comparable
      <4>3. CASE Holds(k, a)
        BY <1>3, <2>2, <3>1, <3>2, <4>3, HeadsCompare
      <4> QED BY <4>1, <4>2, <4>3 DEF Comparable
    <3>3. Comparable(b, b)
      BY <2>2, HoldsSelf DEF Comparable
    <3>4. \A a \in remote' : Old(a) \/ Holds(chain', a)
      BY <2>2, <2>4 DEF Lineage
    <3>5. \A a \in remote' : Old(a) => Comparable(a, k)
      BY <1>2, <2>4, <3>1 DEF Lineage, Comparable
    <3>6. \A a, c \in remote' : Old(a) /\ Old(c) => Comparable(a, c)
      BY <2>4, <3>2, <3>3 DEF Lineage, Comparable
    <3> QED BY <1>1, <1>2, <1>4, <1>5, <3>4, <3>5, <3>6 DEF Lineage
  <2> QED BY <2>1, <2>3, <2>4, LandIs
<1> QED BY <1>6, <1>7, ForgeStep

\* pre_push_check: what verification makes of every tag, from the latest one.
LEMMA VerifyKnows ==
    ASSUME StoreInv, PushInv, EraOne, NEW p \in Procs, run[p].pc = "verify",
           ~Mismatch(chain, run[p].seen), NEW a \in remote
    PROVE  Known(a)
<1>1. PICK s : s = run[p].seen
  OBVIOUS
<1>2. IsSeq(chain) /\ IsSeq(s) /\ IsSeq(a) /\ Len(a) \in Nat /\ Len(s) \in Nat
  BY <1>1, LenIs DEF StoreInv, StoreOK, RunOK
<1>3. s \in remote \cup {NoAnchor} /\ (Holds(chain, a) \/ Len(a) <= Len(s))
  BY <1>1 DEF PushInv, EraOne
<1>4. SUFFICES ASSUME ~Holds(chain, a), \A b \in remote : Old(b) PROVE Known(a)
  BY DEF Known, EraOne, Anew
<1>5. CASE s = NoAnchor
  <2>1. Len(a) = 0
    BY <1>2, <1>3, <1>4, <1>5, EmptyIs
  <2>2. Len(chain) \in Nat
    BY <1>2, LenIs
  <2> QED BY <1>2, <2>1, <2>2, HoldsIs DEF Known
<1>6. CASE s \in remote /\ s # NoAnchor
  <2>1. Holds(s, a)
    <3>1. CASE Holds(a, s)
      <4>1. Len(s) <= Len(a)
        BY <3>1 DEF Holds
      <4>2. Len(a) = Len(s)
        BY <1>2, <1>3, <1>4, <4>1
      <4>3. a = s
        BY <1>6, <4>2 DEF PushInv
      <4> QED BY <3>1, <4>3
    <3> QED BY <1>4, <1>6, <3>1 DEF EraOne, Lineage, Comparable
  <2>2. CASE Holds(chain, s)
    BY <1>2, <2>1, <2>2, HoldsTrans DEF Known
  <2>3. CASE Acknowledges(chain, s)
    BY <2>1, <2>3 DEF Acknowledges, Known, Explained
  <2> QED BY <1>1, <1>6, <2>2, <2>3 DEF Mismatch
<1> QED BY <1>3, <1>5, <1>6

\* A new tag is on its way only where one was, or where a command has just
\* verified the latest tag.
LEMMA AnewStep ==
    ASSUME StoreInv, HeadsInv, Lineage, [Next]_vars, era' = era, Anew'
    PROVE  Anew \/ \E p \in Procs : run[p].pc = "verify" /\ ~Mismatch(chain, run[p].seen)
<1>1. ~Restore
  BY BoundAssumption DEF Restore, StoreInv
<1>2. CASE \E a \in remote' : ~Old(a)
  BY <1>2, ForgeStep DEF Anew, Land
<1>3. ASSUME NEW p \in Procs, Quiet(p) \/ Send(p) \/ Writes(p),
             flight' # {} \/ \E q \in Procs : run'[q].pc \in {"push", "sent"}
      PROVE  Anew \/ \E q \in Procs : run[q].pc = "verify" /\ ~Mismatch(chain, run[q].seen)
  <2>1. CASE Send(p)
    BY <2>1, SendWorld DEF Anew
  <2>2. CASE ~Send(p) /\ flight' # {}
    BY <1>3, <2>2, QuietWorld, WriteStep DEF World, Anew
  <2>3. CASE ~Send(p) /\ \E q \in Procs : run'[q].pc \in {"push", "sent"}
    <3>1. PICK q \in Procs : run'[q].pc \in {"push", "sent"}
      BY <2>3
    <3>2. CASE run'[q] = run[q]
      BY <3>1, <3>2 DEF Anew
    <3>3. CASE q = p
      <4>1. CASE Renew(p)
        BY <3>1, <4>1 DEF Renew, Anew
      <4> QED BY <1>3, <2>3, <3>1, <3>3, <4>1, PushingStep DEF Verify, At, Pushing
    <3> QED BY <1>3, <3>2, <3>3, QuietRun, WriteStep DEF Moved
  <2> QED BY <1>3, <2>1, <2>2, <2>3
<1>4. CASE Work \/ Tick \/ Backup \/ (\E a \in flight : Land(a) \/ Lose(a)) \/ UNCHANGED vars
  <2>1. run' = run /\ (flight' = flight \/ flight # {})
    BY <1>4 DEF Work, Tick, Backup, Land, Lose, vars, World
  <2> QED BY <1>2, <2>1 DEF Anew
<1> QED BY <1>1, <1>2, <1>3, <1>4, Steps DEF Anew

\* After the restore.
LEMMA OneStep ==
    ASSUME StoreInv, HeadsInv, PushInv, EraOne, [Next]_vars, era' = era, era = 1
    PROVE  EraOne'
<1>1. Lineage'
  BY LineageStep DEF EraOne
<1>2. Grows /\ ~Restore
  BY GrowStep, BoundAssumption DEF Restore, StoreInv
<1>3. IsSeq(chain) /\ \A a \in remote \cup flight : IsSeq(a)
  BY DEF StoreInv, StoreOK
<1>4. \A a \in remote : Holds(chain, a) => Holds(chain', a)
  BY <1>2, <1>3, HoldsStill
<1>5. \A a \in remote' : a \in remote \/ Holds(chain', a)
  <2>1. ASSUME NEW b \in flight, Land(b) PROVE Holds(chain', b)
    BY <2>1, LandIs DEF store
  <2> QED BY <2>1, ForgeStep DEF Land
<1>6. ASSUME NEW q \in Procs, run'[q].pc = "verify", NEW a \in remote'
      PROVE  Holds(chain', a) \/ Len(a) <= Len(run'[q].seen)
  <2>1. CASE run'[q] = run[q]
    BY <1>4, <1>5, <1>6, <2>1 DEF EraOne
  <2>2. ASSUME NEW p \in Procs, Quiet(p) \/ Send(p) \/ Writes(p), run'[q] # run[q]
        PROVE  Len(a) <= Len(run'[q].seen)
    <3>1. q = p /\ run'[p].pc \in Pushing /\ remote' = remote
      BY <1>6, <2>2, QuietRun, WriteStep, QuietWorld, SendWorld DEF Moved, Pushing, World
    <3>2. ~Renew(p)
      BY <2>2, <3>1 DEF Renew
    <3>3. run'[p].pc = "verify" /\ "verify" \notin {"push", "sent"}
      BY <1>6, <3>1
    <3>4. PICK b \in Anchors : FetchLatest(p, b) /\ run'[p].seen = b
      <4>1. \/ \E b \in Anchors : FetchLatest(p, b) /\ run'[p].seen = b
            \/ Renew(p)
        BY <2>2, <3>1, <3>3, PushingStep
      <4> QED BY <3>2, <4>1
    <3> QED BY <1>6, <3>1, <3>4 DEF FetchLatest, Latest
  <2>3. CASE Work \/ Tick \/ Backup \/ (\E b \in flight : Land(b) \/ Lose(b)) \/ UNCHANGED vars
    BY <2>1, <2>3 DEF Work, Tick, Backup, Land, Lose, vars, World
  <2> QED BY <1>2, <2>1, <2>2, <2>3, Steps
<1>7. ASSUME Anew', NEW a \in remote' PROVE Known(a)'
  <2>1. CASE a \in remote
    <3>1. Known(a)
      BY <1>7, <2>1, AnewStep, VerifyKnows DEF EraOne
    <3> QED BY <1>2, <1>3, <2>1, <3>1, KnownStill
  <2> QED BY <1>5, <2>1 DEF Known
<1> QED BY <1>1, <1>6, <1>7 DEF EraOne

LEMMA EraStep == StoreInv /\ HeadsInv /\ PushInv /\ EraInv /\ [Next]_vars => EraInv'
<1> SUFFICES ASSUME StoreInv, HeadsInv, PushInv, EraInv, [Next]_vars PROVE EraInv'
  OBVIOUS
<1>1. CASE Restore
  <2>1. era \in Nat /\ era' = era + 1
    BY <1>1, BoundAssumption DEF StoreInv, Restore
  <2>2. era' # 0 /\ (era' = 1 => era = 0)
    BY <2>1
  <2> QED BY <1>1, <2>2, RestoreStep DEF EraInv
<1>2. CASE era' = era
  BY <1>2, ZeroStep, OneStep DEF EraInv
<1> QED BY <1>1, <1>2, GrowStep

LEMMA EraInit == Init => EraInv
<1> SUFFICES ASSUME Init PROVE EraInv
  OBVIOUS
<1>1. Holds(<<>>, <<>>) /\ \A i \in DOMAIN <<>> : FALSE
  BY EmptyIs, HoldsSelf DEF NoAnchor
<1> QED BY <1>1 DEF Init, EraInv, EraZero, Old

\* Two tags of which neither extends the other are of the restored chain and of
\* the lost one, and a tag of the restored chain comes after the owner told.
LEMMA EraMeans == StoreInv /\ EraInv => TagsExplained
<1> SUFFICES ASSUME StoreInv, EraInv, era <= 1, NEW a \in remote, NEW b \in remote
             PROVE  Comparable(a, b) \/ Explained(a) \/ Explained(b)
  BY DEF TagsExplained, Comparable
<1>1. IsSeq(chain) /\ IsSeq(a) /\ IsSeq(b)
  BY DEF StoreInv, StoreOK
<1>2. CASE Holds(chain, a) /\ Holds(chain, b)
  BY <1>1, <1>2, HeadsCompare
<1>3. era = 0 \/ era = 1
  BY BoundAssumption DEF StoreInv
<1>4. CASE era = 0
  BY <1>2, <1>4 DEF EraInv, EraZero
<1>5. CASE era = 1
  <2>1. CASE Old(a) /\ Old(b)
    BY <1>5, <2>1 DEF EraInv, EraOne, Lineage
  <2>2. CASE ~Old(a) \/ ~Old(b)
    BY <1>2, <1>5, <2>2 DEF EraInv, EraOne, Anew, Known
  <2> QED BY <2>1, <2>2
<1> QED BY <1>3, <1>4, <1>5

\* pre_push_check, acknowledge_restore: over any number of commands, crashes and
\* late pushes, a command pushes only while its chain agrees with the latest
\* tag, and the tags tell one history but for what a restore parted and the
\* owner acknowledged.
THEOREM TagsTell == Spec => []ForgeInv
<1>1. StoreInv /\ PushInv /\ EraInv => ForgeInv
  BY EraMeans DEF PushInv, ForgeInv
<1> QED BY <1>1, StoreInit, StoreStep, HeadsInit, HeadsStep, PushInit, PushStep,
           EraInit, EraStep, PTL DEF Spec

=============================================================================

-------------------------- MODULE PreparationProofs --------------------------
(***************************************************************************)
(* Proofs about the preparation of project writes, for any callers,        *)
(* checkouts, facts, settings, requests and bounds.                        *)
(***************************************************************************)
EXTENDS Preparation, FiniteSetTheorems, WellFoundedInduction, TLAPS

\* A finite set of numbers has a highest one: the one with the fewest above.
LEMMA HighestExists ==
    ASSUME NEW V \in SUBSET Nat, IsFiniteSet(V), V # {}
    PROVE  \E v \in V : \A w \in V : w <= v
<1> DEFINE Over(v) == {w \in V : w > v}
           Counts == {Cardinality(Over(v)) : v \in V}
<1>1. \A v \in V : IsFiniteSet(Over(v)) /\ Cardinality(Over(v)) \in Nat
  BY FS_Subset, FS_CardinalityType
<1>2. PICK n \in Counts : \A m \in Counts : n <= m
  <2>1. Counts \in SUBSET Nat /\ Counts # {}
    BY <1>1
  <2> HIDE DEF Counts
  <2>2. PICK n \in Counts : \A m \in Counts : ~(<<m, n>> \in OpToRel(<, Nat))
    BY <2>1, NatLessThanWellFounded, WFMin
  <2>3. \A m \in Counts : ~(m < n)
    BY <2>1, <2>2 DEF OpToRel
  <2> QED BY <2>1, <2>3
<1>3. PICK v \in V : \A w \in V : Cardinality(Over(v)) <= Cardinality(Over(w))
  BY <1>2
<1>4. ASSUME NEW w \in V, w > v PROVE FALSE
  <2>1. Over(w) \subseteq Over(v) /\ Over(w) # Over(v)
    <3>1. v \in Nat /\ w \in Nat /\ V \subseteq Nat
      OBVIOUS
    <3>2. w \notin Over(w) /\ w \in Over(v)
      BY <1>4, <3>1
    <3>3. \A x \in V : x > w => x > v
      BY <1>4, <3>1
    <3> QED BY <3>2, <3>3
  <2>2. Cardinality(Over(w)) < Cardinality(Over(v))
    <3> HIDE DEF Over
    <3> QED BY <1>1, <2>1, FS_Subset
  <2> QED BY <1>1, <1>3, <2>2
<1> QED BY <1>4

\* Last is the highest of a finite set of positions.
LEMMA LastIs ==
    ASSUME NEW V \in SUBSET Nat, IsFiniteSet(V)
    PROVE  /\ V = {} => Last(V) = 0
           /\ V # {} => Last(V) \in V /\ \A m \in V : m <= Last(V)
           /\ \A n \in V : (\A m \in V : m <= n) => Last(V) = n
<1>1. V # {} => \E v \in V : \A w \in V : w <= v
  BY HighestExists
<1>2. V # {} => Last(V) \in V /\ \A m \in V : m <= Last(V)
  BY <1>1 DEF Last
<1>3. ASSUME NEW n \in V, \A m \in V : m <= n PROVE Last(V) = n
  <2>1. Last(V) \in V /\ n <= Last(V)
    BY <1>2
  <2>2. Last(V) <= n /\ Last(V) \in Nat /\ n \in Nat
    BY <1>3, <2>1
  <2> QED BY <2>1, <2>2
<1> QED BY <1>2, <1>3 DEF Last

\* The positions a view looks at.
SeenAt(events, path) ==
    {n \in DOMAIN events : events[n].type = "seen" /\ events[n].path = path}
PolicyAt(events, path, host) ==
    {n \in DOMAIN events :
        events[n].type = "policy" /\ events[n].path = path /\ events[n].host = host}

\* The latest of them, if any.
IsLast(n, V) ==
    IF V = {} THEN n = 0 ELSE n \in V /\ \A m \in V : m <= n

\* There is one latest.
LEMMA OneLast ==
    ASSUME NEW V \in SUBSET Nat, NEW a, NEW b, IsLast(a, V), IsLast(b, V)
    PROVE  a = b
<1>1. CASE V = {}
  BY <1>1 DEF IsLast
<1>2. CASE V # {}
  <2>1. a \in V /\ b \in V /\ a <= b /\ b <= a
    BY <1>2 DEF IsLast
  <2>2. a \in Nat /\ b \in Nat
    BY <2>1
  <2> QED BY <2>1, <2>2
<1> QED BY <1>1, <1>2

\* What the views find.
LEMMA Lasts ==
    ASSUME NEW T, NEW events \in Seq(T), NEW path, NEW host
    PROVE  /\ IsLast(SeenIn(events, path), SeenAt(events, path))
           /\ IsLast(PolicyIn(events, path, host), PolicyAt(events, path, host))
<1>1. DOMAIN events = 1..Len(events) /\ Len(events) \in Nat
  OBVIOUS
<1>2. IsFiniteSet(DOMAIN events) /\ DOMAIN events \subseteq Nat
  BY <1>1, FS_Interval
<1>3. /\ SeenAt(events, path) \subseteq DOMAIN events
      /\ PolicyAt(events, path, host) \subseteq DOMAIN events
  BY DEF SeenAt, PolicyAt
<1>4. /\ IsFiniteSet(SeenAt(events, path)) /\ IsFiniteSet(PolicyAt(events, path, host))
  BY <1>2, <1>3, FS_Subset
<1>5. /\ SeenIn(events, path) = Last(SeenAt(events, path))
      /\ PolicyIn(events, path, host) = Last(PolicyAt(events, path, host))
  BY DEF SeenIn, PolicyIn, SeenAt, PolicyAt
<1> QED BY <1>2, <1>3, <1>4, <1>5, LastIs DEF IsLast

\* An appended event is the latest of its kind and no other.
LEMMA Appended ==
    ASSUME NEW T, NEW events \in Seq(T), NEW e \in T, NEW path, NEW host
    PROVE  /\ SeenIn(Append(events, e), path)
                = IF e.type = "seen" /\ e.path = path
                  THEN Len(events) + 1 ELSE SeenIn(events, path)
           /\ PolicyIn(Append(events, e), path, host)
                = IF e.type = "policy" /\ e.path = path /\ e.host = host
                  THEN Len(events) + 1 ELSE PolicyIn(events, path, host)
<1> DEFINE more == Append(events, e)
           n == Len(events) + 1
<1>1. /\ more \in Seq(T) /\ DOMAIN more = DOMAIN events \cup {n} /\ more[n] = e
      /\ \A m \in DOMAIN events : more[m] = events[m] /\ m \in Nat /\ m < n
      /\ n \in Nat /\ n \notin DOMAIN events
  OBVIOUS
<1> HIDE DEF more, n
<1>2. SeenAt(more, path) = IF e.type = "seen" /\ e.path = path
                           THEN SeenAt(events, path) \cup {n} ELSE SeenAt(events, path)
  BY <1>1 DEF SeenAt
<1>3. PolicyAt(more, path, host)
        = IF e.type = "policy" /\ e.path = path /\ e.host = host
          THEN PolicyAt(events, path, host) \cup {n} ELSE PolicyAt(events, path, host)
  BY <1>1 DEF PolicyAt
<1>4. /\ \A m \in SeenAt(events, path) : m \in Nat /\ m < n
      /\ \A m \in PolicyAt(events, path, host) : m \in Nat /\ m < n
  BY <1>1 DEF SeenAt, PolicyAt
<1>5. /\ IsLast(SeenIn(events, path), SeenAt(events, path))
      /\ IsLast(PolicyIn(events, path, host), PolicyAt(events, path, host))
      /\ IsLast(SeenIn(more, path), SeenAt(more, path))
      /\ IsLast(PolicyIn(more, path, host), PolicyAt(more, path, host))
  BY <1>1, Lasts
<1>6. /\ IsLast(n, SeenAt(events, path) \cup {n})
      /\ IsLast(n, PolicyAt(events, path, host) \cup {n})
  BY <1>1, <1>4 DEF IsLast
<1>7. /\ SeenAt(more, path) \in SUBSET Nat /\ PolicyAt(more, path, host) \in SUBSET Nat
  BY <1>1, <1>2, <1>3, <1>4
<1>8. SeenIn(more, path) = IF e.type = "seen" /\ e.path = path THEN n
                           ELSE SeenIn(events, path)
  BY <1>2, <1>5, <1>6, <1>7, OneLast
<1>9. PolicyIn(more, path, host)
        = IF e.type = "policy" /\ e.path = path /\ e.host = host THEN n
          ELSE PolicyIn(events, path, host)
  BY <1>3, <1>5, <1>6, <1>7, OneLast
<1> QED BY <1>8, <1>9 DEF more, n

\* What stood before an event is not touched by an append.
LEMMA Before ==
    ASSUME NEW T, NEW events \in Seq(T), NEW e \in T, NEW n \in DOMAIN Append(events, e)
    PROVE  SubSeq(Append(events, e), 1, n - 1)
             = IF n = Len(events) + 1 THEN events ELSE SubSeq(events, 1, n - 1)
OBVIOUS
-----------------------------------------------------------------------------
(* Calls *)

Active == {"lookup", "check", "relook", "gather", "admit", "admitting", "step",
           "policy", "recording", "command"}

Seen(path) == \E n \in DOMAIN log : log[n].type = "seen" /\ log[n].path = path

\* The version a command runs under is the policy its own settings gave.
Ruled(r, v) ==
    /\ v \in DOMAIN log /\ log[v].type = "policy"
    /\ log[v].path = r.path /\ log[v].host = r.host /\ log[v].value = r.value

\* What a call doing r has observed, and what of it no other call undoes.
CallOK(r) ==
    /\ r.at \in Active \cup {"idle", "ended"}
    /\ "attempt" \in DOMAIN r => r.attempt \in 1..Attempts
    /\ r.at \in Active =>
          /\ {"path", "host", "request", "checked", "attempt"} \subseteq DOMAIN r
          /\ r.path \in Paths /\ r.host \in {Host, None}
          /\ r.request \in Requests \cup {None} /\ r.checked \in 0..Len(log)
    /\ r.at \in {"lookup", "check", "relook"} => r.request # None
    /\ r.at \in {"admit", "admitting", "step", "policy", "recording"} =>
          /\ {"value", "facts"} \subseteq DOMAIN r
          /\ r.value \in Values /\ r.facts \in Facts
    /\ r.at \in {"step", "policy", "recording"} => Seen(r.path)
    /\ r.at \in {"policy", "recording"} =>
          "catalog" \in DOMAIN r /\ r.catalog \in 0..MaxEdits
    /\ r.at = "recording" =>
          /\ "observed" \in DOMAIN r /\ r.observed \in {0} \cup DOMAIN log
          /\ r.observed # 0 =>
                log[r.observed].value # r.value \/ log[r.observed].catalog # r.catalog
    /\ r.at = "command" =>
          /\ "version" \in DOMAIN r
          /\ \/ r.version = 0 /\ r.request # None /\ Done(r.request) # {}
             \/ "value" \in DOMAIN r /\ r.value \in Values /\ Ruled(r, r.version)
    /\ r.at = "ended" =>
          /\ {"answer", "request", "checked"} \subseteq DOMAIN r
          /\ r.checked \in 0..Len(log)
          /\ r.answer = "refused" => \A n \in Done(r.request) : n > r.checked

OwnerOK ==
    /\ facts \in [Paths -> Facts] /\ settings \in [Paths -> Settings]
    /\ edits \in 0..MaxEdits /\ catalog \in 0..edits

\* A checkout was admitted before a policy is recorded for it.
PolicySeen ==
    \A n \in DOMAIN log : log[n].type = "policy" =>
        \E m \in DOMAIN log : m < n /\ log[m].type = "seen" /\ log[m].path = log[n].path

LogOK ==
    /\ log \in Seq(Event) /\ Len(log) <= MaxLog
    /\ OneRemote /\ SeenChanges /\ PolicyChain /\ PolicySeen /\ RunsUnderItsPolicy

CallsOK == DOMAIN call = Callers /\ \A c \in Callers : CallOK(call[c])

IInv == LogOK /\ OwnerOK /\ CallsOK

\* The kinds of events.
LEMMA Kinds ==
    ASSUME NEW e \in Event
    PROVE  /\ e.type \in {"seen", "policy", "done"}
           /\ e.path \in Paths
           /\ e.type = "seen" => e.facts \in Facts
BY DEF Event

\* An event more, or none, leaves what a call holds true.
LEMMA Kept ==
    ASSUME LogOK, NEW r, CallOK(r),
           log' = log \/ \E e \in Event : log' = Append(log, e)
    PROVE  CallOK(r)'
<1>1. /\ log \in Seq(Event) /\ DOMAIN log = 1..Len(log) /\ Len(log) \in Nat
  BY DEF LogOK
<1>2. /\ DOMAIN log \subseteq DOMAIN log' /\ Len(log') \in Nat /\ Len(log) <= Len(log')
      /\ \A n \in DOMAIN log : log'[n] = log[n]
      /\ \A n \in DOMAIN log' \ DOMAIN log : n \in Nat /\ n > Len(log)
  BY <1>1
<1>3. \A path : Seen(path) => Seen(path)'
  BY <1>2 DEF Seen
<1>4. \A v : Ruled(r, v) => Ruled(r, v)'
  BY <1>2 DEF Ruled
<1>5. \A q : Done(q) \subseteq Done(q)'
             /\ \A n \in Done(q)' : n \in Done(q) \/ n \in DOMAIN log' \ DOMAIN log
  BY <1>2 DEF Done
<1>6. r.at = "ended" /\ r.answer = "refused" => \A n \in Done(r.request)' : n > r.checked
  <2> SUFFICES ASSUME r.at = "ended", r.answer = "refused", NEW n \in Done(r.request)'
               PROVE  n > r.checked
    OBVIOUS
  <2>1. r.checked \in 0..Len(log)
    BY DEF CallOK
  <2>2. CASE n \in Done(r.request)
    BY <2>2 DEF CallOK
  <2>3. CASE n \in DOMAIN log' \ DOMAIN log
    BY <1>1, <1>2, <2>1, <2>3
  <2> QED BY <1>5, <2>2, <2>3
<1>7. \A k \in 0..Len(log) : k \in 0..Len(log')
  BY <1>1, <1>2
<1> QED BY <1>2, <1>3, <1>4, <1>5, <1>6, <1>7 DEF CallOK

\* Call c becomes r, the others stay.
Moves(c, r) ==
    /\ DOMAIN call' = DOMAIN call /\ call'[c] = r
    /\ \A b \in DOMAIN call \ {c} : call'[b] = call[b]

\* A call that moves, beside an event or none.
LEMMA CallsMove ==
    ASSUME IInv, NEW c \in Callers, NEW r, CallOK(r)', Moves(c, r),
           log' = log \/ \E e \in Event : log' = Append(log, e)
    PROVE  CallsOK'
<1>1. LogOK /\ DOMAIN call = Callers /\ \A b \in Callers : CallOK(call[b])
  BY DEF IInv, CallsOK
<1>2. ASSUME NEW b \in Callers PROVE CallOK(call[b])'
  <2>1. CASE b = c
    BY <2>1, ZenonT(60) DEF Moves
  <2>2. CASE b # c
    <3>1. PICK s : s = call[b]
      OBVIOUS
    <3>2. CallOK(s)'
      BY <1>1, <3>1, Kept
    <3>3. call'[b] = s
      BY <1>1, <2>2, <3>1 DEF Moves
    <3> QED BY <3>2, <3>3 DEF CallOK, Ruled
  <2> QED BY <2>1, <2>2
<1> QED BY <1>1, <1>2 DEF CallsOK, Moves

\* The log as it is.
LEMMA SameLog ==
    ASSUME LogOK, UNCHANGED log
    PROVE  LogOK'
BY DEF LogOK, OneRemote, SeenChanges, PolicyChain, PolicySeen, RunsUnderItsPolicy

\* A step that records nothing.
LEMMA QuietOK ==
    ASSUME IInv, NEW c \in Callers, NEW r, CallOK(r), Moves(c, r), UNCHANGED <<log, owner>>
    PROVE  IInv'
<1>1. LogOK'
  BY SameLog DEF IInv
<1>2. CallOK(r)'
  BY Kept DEF IInv
<1>3. CallsOK'
  BY <1>2, CallsMove
<1>4. OwnerOK'
  BY DEF IInv, OwnerOK, owner
<1> QED BY <1>1, <1>3, <1>4 DEF IInv
-----------------------------------------------------------------------------
(* Events *)

\* What an appended event leaves as it was.
LEMMA Extends ==
    ASSUME LogOK, NEW e \in Event, Len(log) < MaxLog, log' = Append(log, e)
    PROVE  /\ log' \in Seq(Event) /\ Len(log') <= MaxLog
           /\ Len(log) \in Nat /\ MaxLog \in Nat
           /\ DOMAIN log = 1..Len(log)
           /\ DOMAIN log' = DOMAIN log \cup {Len(log) + 1}
           /\ log'[Len(log) + 1] = e
           /\ \A n \in DOMAIN log : log'[n] = log[n] /\ n # Len(log) + 1
           /\ \A path : SeenIn(log', path) = IF e.type = "seen" /\ e.path = path
                                             THEN Len(log) + 1 ELSE SeenIn(log, path)
           /\ \A n \in DOMAIN log : SubSeq(log', 1, n - 1) = SubSeq(log, 1, n - 1)
           /\ SubSeq(log', 1, Len(log)) = log
           /\ \A path : SeenIn(log, path) \in {0} \cup DOMAIN log
           /\ \A path, host : PolicyIn(log, path, host) \in {0} \cup DOMAIN log
<1>1. log \in Seq(Event) /\ Len(log) \in Nat /\ DOMAIN log = 1..Len(log)
  BY DEF LogOK
<1>2. MaxLog \in Nat
  BY BoundAssumption
<1>3. /\ log' \in Seq(Event) /\ Len(log') = Len(log) + 1
      /\ DOMAIN log' = DOMAIN log \cup {Len(log) + 1}
      /\ log'[Len(log) + 1] = e
      /\ \A n \in DOMAIN log : log'[n] = log[n] /\ n # Len(log) + 1
  BY <1>1
<1>4. \A path : SeenIn(log', path) = IF e.type = "seen" /\ e.path = path
                                     THEN Len(log) + 1 ELSE SeenIn(log, path)
  BY <1>1, Appended
<1>5. ASSUME NEW n \in DOMAIN log'
      PROVE  SubSeq(log', 1, n - 1)
               = IF n = Len(log) + 1 THEN log ELSE SubSeq(log, 1, n - 1)
  BY <1>1, Before
<1>6. (Len(log) + 1) - 1 = Len(log)
  BY <1>1
<1>7. SubSeq(log', 1, Len(log)) = log
  <2>1. Len(log) + 1 \in DOMAIN log'
    BY <1>3
  <2> QED BY <2>1, <1>5, <1>6
<1>8. ASSUME NEW path, NEW host
      PROVE  /\ SeenIn(log, path) \in {0} \cup DOMAIN log
             /\ PolicyIn(log, path, host) \in {0} \cup DOMAIN log
  <2>1. /\ IsLast(SeenIn(log, path), SeenAt(log, path))
        /\ IsLast(PolicyIn(log, path, host), PolicyAt(log, path, host))
    BY <1>1, Lasts
  <2> QED BY <2>1 DEF IsLast, SeenAt, PolicyAt
<1>9. Len(log') <= MaxLog
  BY <1>1, <1>2, <1>3
<1>10. \A n \in DOMAIN log : SubSeq(log', 1, n - 1) = SubSeq(log, 1, n - 1)
  BY <1>3, <1>5
<1> QED BY <1>1, <1>2, <1>3, <1>4, <1>7, <1>8, <1>9, <1>10

\* The policy record at n names the one it replaces and differs from it.
Follows(n) ==
    LET before == PolicyIn(SubSeq(log, 1, n - 1), log[n].path, log[n].host)
    IN  /\ log[n].replaces = before
        /\ before = 0 \/ <<log[before].value, log[before].catalog>>
                           # <<log[n].value, log[n].catalog>>

\* The earlier events keep what is said of them.
LEMMA OldOnes ==
    ASSUME LogOK, NEW e \in Event, Len(log) < MaxLog, log' = Append(log, e)
    PROVE  \A n \in DOMAIN log :
             /\ log'[n].type = "seen" =>
                  LET before == SeenIn(SubSeq(log', 1, n - 1), log'[n].path)
                  IN  before = 0 \/ log'[before].facts # log'[n].facts
             /\ log'[n].type = "policy" => Follows(n)'
             /\ log'[n].type = "policy" =>
                  \E m \in DOMAIN log' :
                      m < n /\ log'[m].type = "seen" /\ log'[m].path = log'[n].path
             /\ log'[n].type = "done" =>
                  LET v == log'[n].version
                  IN  /\ v < n /\ log'[v].type = "policy"
                      /\ <<log'[v].path, log'[v].host, log'[v].value>>
                           = <<log'[n].path, log'[n].host, log'[n].value>>
                      /\ \E m \in 1..(v - 1) :
                            log'[m].type = "seen" /\ log'[m].path = log'[n].path
<1> SUFFICES ASSUME NEW n \in DOMAIN log
             PROVE
             /\ log'[n].type = "seen" =>
                  LET before == SeenIn(SubSeq(log', 1, n - 1), log'[n].path)
                  IN  before = 0 \/ log'[before].facts # log'[n].facts
             /\ log'[n].type = "policy" => Follows(n)'
             /\ log'[n].type = "policy" =>
                  \E m \in DOMAIN log' :
                      m < n /\ log'[m].type = "seen" /\ log'[m].path = log'[n].path
             /\ log'[n].type = "done" =>
                  LET v == log'[n].version
                  IN  /\ v < n /\ log'[v].type = "policy"
                      /\ <<log'[v].path, log'[v].host, log'[v].value>>
                           = <<log'[n].path, log'[n].host, log'[n].value>>
                      /\ \E m \in 1..(v - 1) :
                            log'[m].type = "seen" /\ log'[m].path = log'[n].path
  OBVIOUS
<1>1. /\ log \in Seq(Event) /\ Len(log) \in Nat /\ DOMAIN log = 1..Len(log)
      /\ log'[n] = log[n] /\ n \in 1..Len(log)
      /\ \A m \in DOMAIN log : log'[m] = log[m]
      /\ SubSeq(log', 1, n - 1) = SubSeq(log, 1, n - 1)
      /\ DOMAIN log \subseteq DOMAIN log'
  BY Extends DEF LogOK
<1>2. /\ SubSeq(log, 1, n - 1) \in Seq(Event)
      /\ DOMAIN SubSeq(log, 1, n - 1) \subseteq DOMAIN log
  BY <1>1
<1>3. ASSUME NEW path, NEW host
      PROVE  /\ SeenIn(SubSeq(log, 1, n - 1), path) \in {0} \cup DOMAIN log
             /\ PolicyIn(SubSeq(log, 1, n - 1), path, host) \in {0} \cup DOMAIN log
  <2>1. /\ IsLast(SeenIn(SubSeq(log, 1, n - 1), path), SeenAt(SubSeq(log, 1, n - 1), path))
        /\ IsLast(PolicyIn(SubSeq(log, 1, n - 1), path, host),
                  PolicyAt(SubSeq(log, 1, n - 1), path, host))
    BY <1>2, Lasts
  <2> QED BY <1>2, <2>1 DEF IsLast, SeenAt, PolicyAt
<1>4. log'[n].type = "seen" =>
        LET before == SeenIn(SubSeq(log', 1, n - 1), log'[n].path)
        IN  before = 0 \/ log'[before].facts # log'[n].facts
  <2> SUFFICES ASSUME log[n].type = "seen"
               PROVE  LET before == SeenIn(SubSeq(log, 1, n - 1), log[n].path)
                      IN  before = 0 \/ log'[before].facts # log[n].facts
    BY <1>1
  <2>1. PICK before : before = SeenIn(SubSeq(log, 1, n - 1), log[n].path)
    OBVIOUS
  <2>2. before \in {0} \cup DOMAIN log
    BY <1>3, <2>1
  <2>3. before = 0 \/ log[before].facts # log[n].facts
    BY <2>1 DEF LogOK, SeenChanges
  <2>4. before # 0 => log'[before] = log[before]
    BY <1>1, <2>2
  <2> QED BY <2>1, <2>3, <2>4
<1>5. log'[n].type = "policy" => Follows(n)'
  <2> SUFFICES ASSUME log[n].type = "policy"
               PROVE  LET before == PolicyIn(SubSeq(log, 1, n - 1), log[n].path, log[n].host)
                      IN  /\ log[n].replaces = before
                          /\ before = 0 \/ <<log'[before].value, log'[before].catalog>>
                                             # <<log[n].value, log[n].catalog>>
    BY <1>1 DEF Follows
  <2>1. PICK b : b = PolicyIn(SubSeq(log, 1, n - 1), log[n].path, log[n].host)
    OBVIOUS
  <2>2. /\ log[n].replaces = b
        /\ b = 0 \/ <<log[b].value, log[b].catalog>> # <<log[n].value, log[n].catalog>>
    BY <2>1 DEF LogOK, PolicyChain
  <2>3. b \in {0} \cup DOMAIN log
    BY <1>3, <2>1
  <2>4. b = 0 \/ log'[b] = log[b]
    BY <1>1, <2>3
  <2> QED BY <2>1, <2>2, <2>4
<1>6. log'[n].type = "policy" =>
        \E m \in DOMAIN log' :
            m < n /\ log'[m].type = "seen" /\ log'[m].path = log'[n].path
  <2> SUFFICES ASSUME log[n].type = "policy"
               PROVE  \E m \in DOMAIN log' :
                        m < n /\ log'[m].type = "seen" /\ log'[m].path = log[n].path
    BY <1>1
  <2>1. PICK m \in DOMAIN log : m < n /\ log[m].type = "seen" /\ log[m].path = log[n].path
    BY DEF LogOK, PolicySeen
  <2>2. m \in DOMAIN log' /\ log'[m] = log[m]
    BY <1>1
  <2> QED BY <2>1, <2>2
<1>7. log'[n].type = "done" =>
        LET v == log'[n].version
        IN  /\ v < n /\ log'[v].type = "policy"
            /\ <<log'[v].path, log'[v].host, log'[v].value>>
                 = <<log'[n].path, log'[n].host, log'[n].value>>
            /\ \E m \in 1..(v - 1) :
                  log'[m].type = "seen" /\ log'[m].path = log'[n].path
  <2> SUFFICES ASSUME log[n].type = "done"
               PROVE  LET v == log[n].version
                      IN  /\ v < n /\ log'[v].type = "policy"
                          /\ <<log'[v].path, log'[v].host, log'[v].value>>
                               = <<log[n].path, log[n].host, log[n].value>>
                          /\ \E m \in 1..(v - 1) :
                                log'[m].type = "seen" /\ log'[m].path = log[n].path
    BY <1>1
  <2> DEFINE v == log[n].version
  <2>1. log[n] \in Event
    BY <1>1
  <2>2. v \in 1..MaxLog
    BY <2>1 DEF Event
  <2>3. /\ v < n /\ log[v].type = "policy"
        /\ <<log[v].path, log[v].host, log[v].value>>
             = <<log[n].path, log[n].host, log[n].value>>
        /\ \E m \in 1..(v - 1) : log[m].type = "seen" /\ log[m].path = log[n].path
    BY DEF LogOK, RunsUnderItsPolicy
  <2>4. v \in DOMAIN log /\ \A m \in 1..(v - 1) : m \in DOMAIN log
    BY <1>1, <2>2, <2>3
  <2> HIDE DEF v
  <2>5. log'[v] = log[v] /\ \A m \in 1..(v - 1) : log'[m] = log[m]
    BY <1>1, <2>4
  <2> QED BY <2>3, <2>5 DEF v
<1> QED BY <1>4, <1>5, <1>6, <1>7
\* An event that may follow keeps what the views are computed from.
LEMMA AppendOK ==
    ASSUME LogOK, NEW e \in Event, Len(log) < MaxLog, log' = Append(log, e),
           OneRemote',
           e.type = "seen" => LET before == SeenIn(log, e.path)
                              IN  before = 0 \/ log[before].facts # e.facts,
           e.type = "policy" =>
             /\ Seen(e.path)
             /\ LET before == PolicyIn(log, e.path, e.host)
                IN  /\ e.replaces = before
                    /\ before = 0 \/ log[before].value # e.value
                                  \/ log[before].catalog # e.catalog,
           e.type = "done" => Ruled(e, e.version)
    PROVE  LogOK'
<1> DEFINE top == Len(log) + 1
<1>1. /\ log' \in Seq(Event) /\ Len(log') <= MaxLog
      /\ Len(log) \in Nat /\ DOMAIN log = 1..Len(log) /\ DOMAIN log' = DOMAIN log \cup {top}
      /\ log'[top] = e
      /\ \A n \in DOMAIN log : log'[n] = log[n]
      /\ SubSeq(log', 1, top - 1) = log
  <2>1. /\ log' \in Seq(Event) /\ Len(log') <= MaxLog
        /\ Len(log) \in Nat /\ DOMAIN log = 1..Len(log)
        /\ DOMAIN log' = DOMAIN log \cup {top}
        /\ log'[top] = e
        /\ \A n \in DOMAIN log : log'[n] = log[n]
        /\ SubSeq(log', 1, Len(log)) = log
    BY Extends
  <2>2. top - 1 = Len(log)
    BY <2>1
  <2> QED BY <2>1, <2>2
<1>2. \A path, host : /\ SeenIn(log, path) \in {0} \cup DOMAIN log
                      /\ PolicyIn(log, path, host) \in {0} \cup DOMAIN log
  BY Extends
<1> HIDE DEF top
<1>3. SeenChanges'
  <2> SUFFICES ASSUME NEW n \in DOMAIN log', log'[n].type = "seen"
               PROVE  LET before == SeenIn(SubSeq(log', 1, n - 1), log'[n].path)
                      IN  before = 0 \/ log'[before].facts # log'[n].facts
    BY DEF SeenChanges
  <2>1. CASE n \in DOMAIN log
    BY <2>1, OldOnes, ZenonT(60)
  <2>2. CASE n = top
    <3>1. PICK b : b = SeenIn(log, e.path)
      OBVIOUS
    <3>2. /\ e.type = "seen" /\ SeenIn(SubSeq(log', 1, n - 1), log'[n].path) = b
          /\ log'[n] = e
      BY <1>1, <2>2, <3>1
    <3>3. b = 0 \/ log'[b].facts # e.facts
      BY <1>1, <1>2, <3>1, <3>2
    <3> QED BY <3>2, <3>3
  <2> QED BY <1>1, <2>1, <2>2
<1>4. PolicyChain'
  <2> SUFFICES ASSUME NEW n \in DOMAIN log', log'[n].type = "policy"
               PROVE  Follows(n)'
    BY DEF PolicyChain, Follows
  <2>1. CASE n \in DOMAIN log
    BY <2>1, OldOnes, ZenonT(60)
  <2>2. CASE n = top
    <3>1. PICK b : b = PolicyIn(log, e.path, e.host)
      OBVIOUS
    <3>2. /\ e.type = "policy"
          /\ PolicyIn(SubSeq(log', 1, n - 1), log'[n].path, log'[n].host) = b
          /\ log'[n] = e
      BY <1>1, <2>2, <3>1
    <3>3. /\ e.replaces = b
          /\ b = 0 \/ log'[b].value # e.value \/ log'[b].catalog # e.catalog
      BY <1>1, <1>2, <3>1, <3>2
    <3> QED BY <3>2, <3>3 DEF Follows
  <2> QED BY <1>1, <2>1, <2>2
<1>5. PolicySeen'
  <2> SUFFICES ASSUME NEW n \in DOMAIN log', log'[n].type = "policy"
               PROVE  \E m \in DOMAIN log' :
                        m < n /\ log'[m].type = "seen" /\ log'[m].path = log'[n].path
    BY DEF PolicySeen
  <2>1. CASE n \in DOMAIN log
    BY <2>1, OldOnes, ZenonT(60)
  <2>2. CASE n = top
    <3>1. PICK m \in DOMAIN log : log[m].type = "seen" /\ log[m].path = e.path
      BY <1>1, <2>2 DEF Seen
    <3>2. m < n /\ log'[m] = log[m] /\ m \in DOMAIN log'
      BY <1>1, <2>2 DEF top
    <3> QED BY <1>1, <2>2, <3>1, <3>2
  <2> QED BY <1>1, <2>1, <2>2
<1>6. RunsUnderItsPolicy'
  <2> SUFFICES ASSUME NEW n \in DOMAIN log', log'[n].type = "done"
               PROVE  LET v == log'[n].version
                      IN  /\ v < n /\ log'[v].type = "policy"
                          /\ <<log'[v].path, log'[v].host, log'[v].value>>
                               = <<log'[n].path, log'[n].host, log'[n].value>>
                          /\ \E m \in 1..(v - 1) :
                                log'[m].type = "seen" /\ log'[m].path = log'[n].path
    BY DEF RunsUnderItsPolicy
  <2>1. CASE n \in DOMAIN log
    BY <2>1, OldOnes, ZenonT(60)
  <2>2. CASE n = top
    <3>1. PICK v : v = e.version
      OBVIOUS
    <3>2. /\ v \in DOMAIN log /\ log[v].type = "policy" /\ log[v].path = e.path
          /\ log[v].host = e.host /\ log[v].value = e.value
      BY <1>1, <2>2, <3>1 DEF Ruled
    <3>3. PICK m \in DOMAIN log : m < v /\ log[m].type = "seen" /\ log[m].path = log[v].path
      BY <3>2 DEF LogOK, PolicySeen
    <3>4. m \in 1..(v - 1) /\ v < n
      BY <1>1, <2>2, <3>2, <3>3 DEF top
    <3>5. log'[n] = e /\ log'[v] = log[v] /\ log'[m] = log[m]
      BY <1>1, <2>2, <3>2
    <3>6. \E k \in 1..(v - 1) : log'[k].type = "seen" /\ log'[k].path = e.path
      BY <3>2, <3>3, <3>4, <3>5
    <3> QED BY <3>1, <3>2, <3>4, <3>5, <3>6
  <2> QED BY <1>1, <2>1, <2>2
<1> QED BY <1>1, <1>3, <1>4, <1>5, <1>6 DEF LogOK

\* An event that is no checkout's leaves the remotes alone.
LEMMA SameRemotes ==
    ASSUME LogOK, NEW e \in Event, Len(log) < MaxLog, log' = Append(log, e),
           e.type # "seen"
    PROVE  OneRemote'
<1>1. /\ \A path : SeenIn(log', path) = SeenIn(log, path)
      /\ \A path : SeenIn(log, path) \in {0} \cup DOMAIN log
      /\ \A n \in DOMAIN log : log'[n] = log[n]
  BY Extends
<1>2. OneRemote
  BY DEF LogOK
<1>3. ASSUME NEW p \in Paths, NEW q \in Paths, SeenIn(log, p) # 0, SeenIn(log, q) # 0
      PROVE  LET u == log'[SeenIn(log, p)].facts.url
                 w == log'[SeenIn(log, q)].facts.url
             IN  None \in {u, w} \/ u = w
  <2>1. /\ log'[SeenIn(log, p)] = log[SeenIn(log, p)]
        /\ log'[SeenIn(log, q)] = log[SeenIn(log, q)]
    BY <1>1, <1>3
  <2> QED BY <1>2, <1>3, <2>1 DEF OneRemote
<1> QED BY <1>1, <1>3 DEF OneRemote

\* Nor does a checkout whose URL is in no conflict.
LEMMA AdmittedRemotes ==
    ASSUME LogOK, NEW e \in Event, Len(log) < MaxLog, log' = Append(log, e),
           e.type = "seen", ~Conflict(e.path, e.facts.url)
    PROVE  OneRemote'
<1>1. /\ \A path : SeenIn(log', path) = IF e.path = path THEN Len(log) + 1
                                        ELSE SeenIn(log, path)
      /\ \A path : SeenIn(log, path) \in {0} \cup DOMAIN log
      /\ \A n \in DOMAIN log : log'[n] = log[n]
      /\ log'[Len(log) + 1] = e
  BY Extends
<1>2. OneRemote
  BY DEF LogOK
<1>3. ASSUME NEW p \in Paths \ {e.path}, SeenIn(log, p) # 0
      PROVE  LET w == log[SeenIn(log, p)].facts.url
             IN  /\ None \in {e.facts.url, w} \/ e.facts.url = w
                 /\ log'[SeenIn(log, p)] = log[SeenIn(log, p)]
  BY <1>1, <1>3 DEF Conflict
<1>4. ASSUME NEW p \in Paths, NEW q \in Paths, SeenIn(log', p) # 0, SeenIn(log', q) # 0
      PROVE  LET u == log'[SeenIn(log', p)].facts.url
                 w == log'[SeenIn(log', q)].facts.url
             IN  None \in {u, w} \/ u = w
  <2>1. CASE p = e.path /\ q = e.path
    BY <2>1
  <2>2. CASE p = e.path /\ q # e.path
    BY <1>1, <1>3, <1>4, <2>2
  <2>3. CASE p # e.path /\ q = e.path
    BY <1>1, <1>3, <1>4, <2>3
  <2>4. CASE p # e.path /\ q # e.path
    <3>1. /\ SeenIn(log', p) = SeenIn(log, p) /\ SeenIn(log', q) = SeenIn(log, q)
          /\ SeenIn(log, p) # 0 /\ SeenIn(log, q) # 0
      BY <1>1, <1>4, <2>4
    <3>2. /\ log'[SeenIn(log, p)] = log[SeenIn(log, p)]
          /\ log'[SeenIn(log, q)] = log[SeenIn(log, q)]
      BY <1>3, <2>4, <3>1
    <3> QED BY <1>2, <3>1, <3>2 DEF OneRemote
  <2> QED BY <2>1, <2>2, <2>3, <2>4
<1> QED BY <1>4 DEF OneRemote
-----------------------------------------------------------------------------
(* Steps of a call *)

\* What a step may assume of its caller.
LEMMA OfCaller ==
    ASSUME IInv, NEW c \in Callers
    PROVE  /\ CallOK(call[c]) /\ DOMAIN call = Callers /\ LogOK /\ OwnerOK
           /\ log \in Seq(Event) /\ Len(log) \in Nat /\ DOMAIN log = 1..Len(log)
           /\ Len(log) <= MaxLog /\ MaxLog \in Nat /\ MaxEdits \in Nat
           /\ 1 \in 1..Attempts
BY BoundAssumption, AttemptsAssumption DEF IInv, CallsOK, LogOK

\* What a call may have observed.
Keys == {"path", "host", "request", "checked", "attempt", "value", "facts", "catalog",
         "observed", "verdict", "version"}

\* What a call that goes on keeps, and what it takes from `more`.
LEMMA Fields ==
    ASSUME NEW r, NEW at, NEW more, DOMAIN more \subseteq Keys, NEW g, g = Grown(r, at, more)
    PROVE  /\ g.at = at
           /\ \A k \in Keys : k \in DOMAIN r \/ k \in DOMAIN more => k \in DOMAIN g
           /\ \A k \in Keys : k \in DOMAIN more => g[k] = more[k]
           /\ \A k \in Keys : k \in DOMAIN r /\ k \notin DOMAIN more => g[k] = r[k]
<1>1. "at" \notin Keys
  BY DEF Keys
<1>2. \A k \in DOMAIN more : k # "at"
  BY <1>1
<1>3. DOMAIN g = {"at"} \cup DOMAIN more \cup DOMAIN r
  BY DEF Grown
<1>4. g.at = at
  BY DEF Grown
<1>5. \A k \in DOMAIN more : g[k] = more[k]
  BY <1>2 DEF Grown
<1>6. \A k \in DOMAIN r \ (DOMAIN more \cup {"at"}) : g[k] = r[k]
  BY DEF Grown
<1> QED BY <1>1, <1>3, <1>4, <1>5, <1>6

\* A call in the middle has its caller's facts.
LEMMA BaseOK ==
    ASSUME NEW r, CallOK(r), r.at \in Active, NEW at, NEW more, DOMAIN more \subseteq Keys,
           NEW g, g = Grown(r, at, more)
    PROVE  /\ g.at = at
           /\ {"path", "host", "request", "checked", "attempt"} \subseteq DOMAIN g
           /\ \A k \in DOMAIN more : k \in DOMAIN g /\ g[k] = more[k]
           /\ "path" \notin DOMAIN more => g.path = r.path
           /\ "host" \notin DOMAIN more => g.host = r.host
           /\ "request" \notin DOMAIN more => g.request = r.request
           /\ "checked" \notin DOMAIN more => g.checked = r.checked
           /\ "attempt" \notin DOMAIN more => g.attempt = r.attempt
           /\ "value" \notin DOMAIN more /\ "value" \in DOMAIN r =>
                "value" \in DOMAIN g /\ g.value = r.value
           /\ "facts" \notin DOMAIN more /\ "facts" \in DOMAIN r =>
                "facts" \in DOMAIN g /\ g.facts = r.facts
           /\ "catalog" \notin DOMAIN more /\ "catalog" \in DOMAIN r =>
                "catalog" \in DOMAIN g /\ g.catalog = r.catalog
<1>1. {"path", "host", "request", "checked", "attempt"} \subseteq DOMAIN r
  BY DEF CallOK
<1>2. /\ "path" \in Keys /\ "host" \in Keys /\ "request" \in Keys /\ "checked" \in Keys
      /\ "attempt" \in Keys /\ "value" \in Keys /\ "facts" \in Keys /\ "catalog" \in Keys
  BY DEF Keys
<1>3. /\ g.at = at
      /\ \A k \in Keys : k \in DOMAIN r \/ k \in DOMAIN more => k \in DOMAIN g
      /\ \A k \in Keys : k \in DOMAIN more => g[k] = more[k]
      /\ \A k \in Keys : k \in DOMAIN r /\ k \notin DOMAIN more => g[k] = r[k]
  BY Fields
<1> QED BY <1>1, <1>2, <1>3

\* Going on, nothing recorded.
LEMMA GoOn ==
    ASSUME IInv, NEW c \in Callers, NEW r, call[c] = r, NEW at, NEW more,
           Goto(c, at, more), CallOK(Grown(r, at, more)), UNCHANGED <<log, owner>>
    PROVE  IInv'
<1>1. Moves(c, Grown(r, at, more))
  BY OfCaller DEF Goto, Moves
<1> QED BY <1>1, QuietOK

\* What a call that ended is.
Ended(r, answer) ==
    [at |-> "ended", answer |-> answer, request |-> r.request, checked |-> r.checked]

\* Ending keeps what an ended call holds.
LEMMA EndedOK ==
    ASSUME NEW r, CallOK(r), r.at \in Active, NEW answer,
           answer = "refused" => Done(r.request) = {}
    PROVE  CallOK(Ended(r, answer))
BY DEF CallOK, Ended, Active

\* Ending moves the caller alone.
LEMMA EndMoves ==
    ASSUME IInv, NEW c \in Callers, NEW r, call[c] = r, NEW answer, End(c, answer)
    PROVE  Moves(c, Ended(r, answer))
BY OfCaller DEF End, Moves, Ended

\* Ending, nothing recorded.
LEMMA EndOn ==
    ASSUME IInv, NEW c \in Callers, NEW r, call[c] = r, r.at \in Active, NEW answer,
           answer = "refused" => Done(r.request) = {},
           End(c, answer), UNCHANGED <<log, owner>>
    PROVE  IInv'
<1>1. CallOK(r)
  BY OfCaller
<1> QED BY <1>1, EndedOK, EndMoves, QuietOK

\* A call begins with nothing observed.
LEMMA StartOK ==
    ASSUME IInv, NEW c \in Callers, NEW path \in Paths, NEW host \in {Host, None},
           NEW request \in Requests \cup {None}, Start(c, path, host, request)
    PROVE  IInv'
<1> DEFINE r == [at |-> IF host = None THEN "gather" ELSE "lookup", path |-> path,
                 host |-> host, request |-> request, checked |-> 0, attempt |-> 1]
<1>1. Moves(c, r)
  BY OfCaller DEF Start, Moves
<1>2. CallOK(r)
  BY OfCaller DEF CallOK, Active, Start
<1> QED BY <1>1, <1>2, QuietOK DEF Start

\* A request found recorded goes to its transaction, any other to its check.
LEMMA LookUpOK ==
    ASSUME IInv, NEW c \in Callers, LookUp(c)
    PROVE  IInv'
<1>1. PICK r : r = call[c]
  OBVIOUS
<1>2. CallOK(r) /\ r.at = "lookup"
  BY <1>1, OfCaller DEF LookUp
<1>3. CASE Done(r.request) # {}
  <2>1. CallOK(Grown(r, "command", [version |-> 0]))
    <3>1. PICK g : g = Grown(r, "command", [version |-> 0])
      OBVIOUS
    <3>2. /\ g.at = "command" /\ "version" \in DOMAIN g /\ g.version = 0
          /\ {"path", "host", "request", "checked", "attempt"} \subseteq DOMAIN g
          /\ g.path = r.path /\ g.host = r.host /\ g.request = r.request
          /\ g.checked = r.checked /\ g.attempt = r.attempt
      BY <1>2, <3>1, BaseOK DEF Active, Keys
    <3>3. CallOK(g)
      BY <1>2, <1>3, <3>2 DEF CallOK, Active
    <3> QED BY <3>1, <3>3
  <2> QED BY <1>1, <1>3, <2>1, GoOn DEF LookUp
<1>4. CASE Done(r.request) = {}
  <2>1. CallOK(Grown(r, "check", <<>>))
    <3>1. PICK g : g = Grown(r, "check", <<>>)
      OBVIOUS
    <3>2. /\ g.at = "check"
          /\ {"path", "host", "request", "checked", "attempt"} \subseteq DOMAIN g
          /\ g.path = r.path /\ g.host = r.host /\ g.request = r.request
          /\ g.checked = r.checked /\ g.attempt = r.attempt
      BY <1>2, <3>1, BaseOK DEF Active, Keys
    <3>3. CallOK(g)
      BY <1>2, <3>2 DEF CallOK, Active
    <3> QED BY <3>1, <3>3
  <2> QED BY <1>1, <1>4, <2>1, GoOn DEF LookUp
<1> QED BY <1>3, <1>4

\* The check notes how much of the log it saw.
LEMMA CheckOK ==
    ASSUME IInv, NEW c \in Callers, Check(c)
    PROVE  IInv'
<1>1. PICK r : r = call[c]
  OBVIOUS
<1>2. CallOK(r) /\ r.at = "check"
  BY <1>1, OfCaller DEF Check
<1>3. CASE Taken
  <2>1. PICK n : n = Len(log)
    OBVIOUS
  <2>2. n \in 0..Len(log)
    BY <2>1, OfCaller
  <2>3. CallOK(Grown(r, "relook", [checked |-> n]))
    <3>1. PICK g : g = Grown(r, "relook", [checked |-> n])
      OBVIOUS
    <3>2. /\ g.at = "relook"
          /\ {"path", "host", "request", "checked", "attempt"} \subseteq DOMAIN g
          /\ g.path = r.path /\ g.host = r.host /\ g.request = r.request
          /\ g.checked = n /\ g.attempt = r.attempt
      BY <1>2, <3>1, BaseOK DEF Active, Keys
    <3>3. CallOK(g)
      BY <1>2, <2>2, <3>2 DEF CallOK, Active
    <3> QED BY <3>1, <3>3
  <2>4. Goto(c, "relook", [checked |-> n]) /\ UNCHANGED <<log, owner>>
    BY <1>3, <2>1 DEF Check
  <2> QED BY <1>1, <2>3, <2>4, GoOn
<1>4. CASE ~Taken
  <2>1. CallOK(Grown(r, "gather", <<>>))
    <3>1. PICK g : g = Grown(r, "gather", <<>>)
      OBVIOUS
    <3>2. /\ g.at = "gather"
          /\ {"path", "host", "request", "checked", "attempt"} \subseteq DOMAIN g
          /\ g.path = r.path /\ g.host = r.host /\ g.request = r.request
          /\ g.checked = r.checked /\ g.attempt = r.attempt
      BY <1>2, <3>1, BaseOK DEF Active, Keys
    <3>3. CallOK(g)
      BY <1>2, <3>2 DEF CallOK, Active
    <3> QED BY <3>1, <3>3
  <2> QED BY <1>1, <1>4, <2>1, GoOn DEF Check
<1> QED BY <1>3, <1>4

\* A refusal is answered only for a request still not recorded.
LEMMA RelookOK ==
    ASSUME IInv, NEW c \in Callers, Relook(c)
    PROVE  IInv'
<1>1. PICK r : r = call[c]
  OBVIOUS
<1>2. CallOK(r) /\ r.at = "relook" /\ r.at \in Active
  BY <1>1, OfCaller DEF Relook, Active
<1>3. CASE Done(r.request) # {}
  <2>1. CallOK(Grown(r, "command", [version |-> 0]))
    <3>1. PICK g : g = Grown(r, "command", [version |-> 0])
      OBVIOUS
    <3>2. /\ g.at = "command" /\ "version" \in DOMAIN g /\ g.version = 0
          /\ {"path", "host", "request", "checked", "attempt"} \subseteq DOMAIN g
          /\ g.path = r.path /\ g.host = r.host /\ g.request = r.request
          /\ g.checked = r.checked /\ g.attempt = r.attempt
      BY <1>2, <3>1, BaseOK DEF Active, Keys
    <3>3. CallOK(g)
      BY <1>2, <1>3, <3>2 DEF CallOK, Active
    <3> QED BY <3>1, <3>3
  <2> QED BY <1>1, <1>3, <2>1, GoOn DEF Relook
<1>4. CASE Done(r.request) = {}
  <2>1. call[c] = r /\ r.at \in Active /\ Done(r.request) = {}
    BY <1>1, <1>2, <1>4
  <2>2. End(c, "refused") /\ UNCHANGED <<log, owner>>
    <3>1. Done(call[c].request) = {}
      BY <1>1, <1>4, Zenon
    <3> QED BY <3>1, Zenon DEF Relook
  <2> QED BY <2>1, <2>2, EndOn, Zenon
<1> QED BY <1>3, <1>4

\* What the settings give is a value.
LEMMA MergeOK ==
    ASSUME NEW s \in Settings, NEW host
    PROVE  Merge(s, host) \in Values
<1> DEFINE Order == <<"default", "global", "globalHost", "project", "projectHost">>
           Applies(n) == /\ s[Order[n]] # None
                         /\ Order[n] \in {"globalHost", "projectHost"} => host # None
           top == CHOOSE n \in 1..5 : Applies(n) /\ \A m \in (n + 1)..5 : ~Applies(m)
<1>1. Order[1] = "default" /\ \A n \in 1..5 : Order[n] \in Layers
  BY DEF Layers
<1>2. DOMAIN s = Layers /\ s["default"] # None
  BY SettingsAssumption
<1>3. Applies(1)
  BY <1>1, <1>2
<1> HIDE DEF Order
<1>4. \E n \in 1..5 : Applies(n) /\ \A m \in (n + 1)..5 : ~Applies(m)
  <2> HIDE DEF Applies
  <2> DEFINE V == {n \in 1..5 : Applies(n)}
  <2>1. V \subseteq 1..5 /\ IsFiniteSet(1..5)
    <3>1. IsFiniteSet(1..5)
      BY FS_Interval, 1 \in Int, 5 \in Int
    <3> QED BY <3>1
  <2>2. V \in SUBSET Nat /\ V # {} /\ IsFiniteSet(V)
    BY <1>3, <2>1, FS_Subset
  <2>3. PICK n \in V : \A m \in V : m <= n
    BY <2>2, HighestExists
  <2> QED BY <2>3
<1>5. top \in 1..5 /\ Applies(top)
  BY <1>4
<1>6. Merge(s, host) = s[Order[top]]
  BY DEF Merge, Order
<1> QED BY <1>1, <1>2, <1>5, <1>6 DEF Values

\* The gathered value and facts are ones a checkout may hold.
LEMMA GatherOK ==
    ASSUME IInv, NEW c \in Callers, Gather(c)
    PROVE  IInv'
<1>1. PICK r : r = call[c]
  OBVIOUS
<1>2. CallOK(r) /\ r.at = "gather"
  BY <1>1, OfCaller DEF Gather
<1>3. r.path \in Paths
  BY <1>2 DEF CallOK, Active
<1>4. PICK v : v = Merge(settings[r.path], r.host)
  OBVIOUS
<1>5. PICK f : f = facts[r.path]
  OBVIOUS
<1>6. v \in Values /\ f \in Facts
  BY <1>3, <1>4, <1>5, MergeOK, OfCaller DEF OwnerOK
<1>7. CallOK(Grown(r, "admit", [value |-> v, facts |-> f]))
  <2>1. PICK g : g = Grown(r, "admit", [value |-> v, facts |-> f])
    OBVIOUS
  <2>2. /\ g.at = "admit" /\ "value" \in DOMAIN g /\ g.value = v
        /\ "facts" \in DOMAIN g /\ g.facts = f
        /\ {"path", "host", "request", "checked", "attempt"} \subseteq DOMAIN g
        /\ g.path = r.path /\ g.host = r.host /\ g.request = r.request
        /\ g.checked = r.checked /\ g.attempt = r.attempt
    BY <1>2, <2>1, BaseOK DEF Active, Keys
  <2>3. CallOK(g)
    BY <1>2, <1>6, <2>2 DEF CallOK, Active
  <2> QED BY <2>1, <2>3
<1>8. Goto(c, "admit", [value |-> v, facts |-> f]) /\ UNCHANGED <<log, owner>>
  BY <1>1, <1>4, <1>5 DEF Gather
<1> QED BY <1>1, <1>7, <1>8, GoOn

\* A view's row is a record of the log.
LEMMA Rows ==
    ASSUME IInv, NEW c \in Callers, NEW path, NEW host
    PROVE  /\ SeenIn(log, path) \in {0} \cup DOMAIN log
           /\ PolicyIn(log, path, host) \in {0} \cup DOMAIN log
           /\ SeenIn(log, path) # 0 => Seen(path)
           /\ PolicyIn(log, path, host) # 0 =>
                LET v == PolicyIn(log, path, host)
                IN  log[v].type = "policy" /\ log[v].path = path /\ log[v].host = host
<1>1. /\ IsLast(SeenIn(log, path), SeenAt(log, path))
      /\ IsLast(PolicyIn(log, path, host), PolicyAt(log, path, host))
  BY OfCaller, Lasts
<1> QED BY <1>1 DEF IsLast, SeenAt, PolicyAt, Seen

\* A try is taken again or given up.
LEMMA AgainOK ==
    ASSUME IInv, NEW c \in Callers, NEW r, call[c] = r,
           NEW at \in {"admit", "policy"}, CallOK(r),
           r.at = (IF at = "admit" THEN "admitting" ELSE "recording"),
           Again(c, at), UNCHANGED <<log, owner>>
    PROVE  IInv'
<1>1. r.at \in Active /\ r.attempt \in 1..Attempts
  BY DEF CallOK, Active
<1>2. CASE r.attempt < Attempts
  <2>1. PICK n : n = r.attempt + 1
    OBVIOUS
  <2>2. n \in 1..Attempts
    BY <1>1, <1>2, <2>1, AttemptsAssumption
  <2>3. CallOK(Grown(r, at, [attempt |-> n]))
    <3>0. /\ "value" \in DOMAIN r /\ "facts" \in DOMAIN r
          /\ at = "policy" => "catalog" \in DOMAIN r
      BY DEF CallOK
    <3>1. CASE at = "admit"
      <4>1. PICK g : g = Grown(r, "admit", [attempt |-> n])
        OBVIOUS
      <4>2. /\ g.at = "admit" /\ g.attempt = n
            /\ {"path", "host", "request", "checked", "attempt"} \subseteq DOMAIN g
            /\ g.path = r.path /\ g.host = r.host /\ g.request = r.request
            /\ g.checked = r.checked
            /\ "value" \in DOMAIN g /\ g.value = r.value
            /\ "facts" \in DOMAIN g /\ g.facts = r.facts
        BY <1>1, <3>0, <3>1, <4>1, BaseOK DEF Keys
      <4>3. CallOK(g)
        BY <1>1, <2>2, <3>1, <4>2 DEF CallOK, Active
      <4> QED BY <3>1, <4>1, <4>3
    <3>2. CASE at = "policy"
      <4>1. PICK g : g = Grown(r, "policy", [attempt |-> n])
        OBVIOUS
      <4>2. /\ g.at = "policy" /\ g.attempt = n
            /\ {"path", "host", "request", "checked", "attempt"} \subseteq DOMAIN g
            /\ g.path = r.path /\ g.host = r.host /\ g.request = r.request
            /\ g.checked = r.checked
            /\ "value" \in DOMAIN g /\ g.value = r.value
            /\ "facts" \in DOMAIN g /\ g.facts = r.facts
            /\ "catalog" \in DOMAIN g /\ g.catalog = r.catalog
        BY <1>1, <3>0, <3>2, <4>1, BaseOK DEF Keys
      <4>3. CallOK(g)
        BY <1>1, <2>2, <3>2, <4>2 DEF CallOK, Active
      <4> QED BY <3>2, <4>1, <4>3
    <3> QED BY <3>1, <3>2
  <2>4. Goto(c, at, [attempt |-> n])
    BY <1>2, <2>1 DEF Again
  <2> QED BY <2>3, <2>4, GoOn
<1>3. CASE ~(r.attempt < Attempts)
  <2>1. End(c, "failed")
    BY <1>3 DEF Again
  <2> QED BY <1>1, <2>1, EndOn
<1> QED BY <1>2, <1>3
\* A checkout that opens no command was admitted before.
LEMMA AdmitReadOK ==
    ASSUME IInv, NEW c \in Callers, AdmitRead(c)
    PROVE  IInv'
<1>1. PICK r : r = call[c]
  OBVIOUS
<1>2. CallOK(r) /\ r.at = "admit" /\ r.at \in Active
  BY <1>1, OfCaller DEF AdmitRead, Active
<1>3. "value" \in DOMAIN r /\ "facts" \in DOMAIN r
  BY <1>2 DEF CallOK
<1>4. CASE JudgeCheckout(r.path, r.facts) = "unchanged"
  <2>1. Seen(r.path)
    <3>1. SeenIn(log, r.path) # 0
      BY <1>4 DEF JudgeCheckout
    <3> QED BY <3>1, Rows
  <2>2. CallOK(Grown(r, "step", [attempt |-> 1]))
    <3>1. PICK g : g = Grown(r, "step", [attempt |-> 1])
      OBVIOUS
    <3>2. /\ g.at = "step" /\ g.attempt = 1
          /\ {"path", "host", "request", "checked", "attempt"} \subseteq DOMAIN g
          /\ g.path = r.path /\ g.host = r.host /\ g.request = r.request
          /\ g.checked = r.checked
          /\ "value" \in DOMAIN g /\ g.value = r.value
          /\ "facts" \in DOMAIN g /\ g.facts = r.facts
      BY <1>2, <1>3, <3>1, BaseOK DEF Keys
    <3>3. CallOK(g)
      BY <1>2, <2>1, <3>2, OfCaller DEF CallOK, Active
    <3> QED BY <3>1, <3>3
  <2> QED BY <1>1, <1>4, <2>2, GoOn DEF AdmitRead
<1>5. CASE JudgeCheckout(r.path, r.facts) # "unchanged"
  <2>1. PICK o : o = PolicyIn(log, r.path, None)
    OBVIOUS
  <2>2. PICK v : v = JudgeCheckout(r.path, r.facts)
    OBVIOUS
  <2>3. CallOK(Grown(r, "admitting", [observed |-> o, verdict |-> v]))
    <3>1. PICK g : g = Grown(r, "admitting", [observed |-> o, verdict |-> v])
      OBVIOUS
    <3>2. /\ g.at = "admitting" /\ g.attempt = r.attempt
          /\ {"path", "host", "request", "checked", "attempt"} \subseteq DOMAIN g
          /\ g.path = r.path /\ g.host = r.host /\ g.request = r.request
          /\ g.checked = r.checked
          /\ "value" \in DOMAIN g /\ g.value = r.value
          /\ "facts" \in DOMAIN g /\ g.facts = r.facts
      BY <1>2, <1>3, <3>1, BaseOK DEF Keys
    <3>3. CallOK(g)
      BY <1>2, <3>2 DEF CallOK, Active
    <3> QED BY <3>1, <3>3
  <2>4. /\ Goto(c, "admitting", [observed |-> o, verdict |-> v])
        /\ UNCHANGED <<log, owner>>
    BY <1>1, <1>5, <2>1, <2>2 DEF AdmitRead
  <2> QED BY <1>1, <2>3, <2>4, GoOn
<1> QED BY <1>4, <1>5

\* Going on beside an event.
LEMMA GoRecorded ==
    ASSUME IInv, NEW c \in Callers, NEW r, call[c] = r, NEW at, NEW more,
           Goto(c, at, more), CallOK(Grown(r, at, more))', LogOK', UNCHANGED owner,
           log' = log \/ \E e \in Event : log' = Append(log, e)
    PROVE  IInv'
<1>1. PICK g : g = Grown(r, at, more)
  OBVIOUS
<1>2. Moves(c, g)
  BY <1>1, OfCaller DEF Goto, Moves
<1>3. CallOK(g)'
  BY <1>1 DEF CallOK, Ruled
<1>4. CallsOK'
  BY <1>2, <1>3, CallsMove
<1>5. OwnerOK'
  BY OfCaller DEF OwnerOK, owner
<1> QED BY <1>4, <1>5 DEF IInv

\* Admission records a change without a conflict, or nothing.
LEMMA AdmitOK ==
    ASSUME IInv, NEW c \in Callers, Admit(c)
    PROVE  IInv'
<1>1. PICK r : r = call[c]
  OBVIOUS
<1>2. /\ CallOK(r) /\ r.at = "admitting" /\ r.at \in Active
      /\ LogOK /\ OwnerOK /\ UNCHANGED owner
  BY <1>1, OfCaller DEF Admit, Active
<1>3. /\ "value" \in DOMAIN r /\ "facts" \in DOMAIN r /\ r.path \in Paths /\ r.facts \in Facts
  BY <1>2 DEF CallOK
<1>4. CASE Verdict(c) = "conflict" /\ End(c, "fork") /\ UNCHANGED log
  BY <1>1, <1>2, <1>4, EndOn
<1>5. CASE Again(c, "admit") /\ UNCHANGED log
  BY <1>1, <1>2, <1>5, AgainOK
<1>6. CASE /\ Verdict(c) # "conflict" /\ Len(log) < MaxLog
           /\ log' = IF Verdict(c) = "unchanged" THEN log
                     ELSE Append(log, [type |-> "seen", path |-> call[c].path,
                                       facts |-> call[c].facts])
           /\ Goto(c, "step", [attempt |-> 1])
  <2>1. PICK e : e = [type |-> "seen", path |-> r.path, facts |-> r.facts]
    OBVIOUS
  <2>2. e \in Event /\ e.type = "seen" /\ e.path = r.path /\ e.facts = r.facts
    BY <1>3, <2>1 DEF Event
  <2>3. /\ Verdict(c) = JudgeCheckout(r.path, r.facts)
        /\ log' = IF Verdict(c) = "unchanged" THEN log ELSE Append(log, e)
    BY <1>1, <1>6, <2>1 DEF Verdict
  <2>4. LogOK' /\ Seen(r.path)'
    <3>1. CASE Verdict(c) = "unchanged"
      <4>1. SeenIn(log, r.path) # 0 /\ log' = log
        BY <2>3, <3>1 DEF JudgeCheckout
      <4>2. Seen(r.path)
        BY <4>1, Rows
      <4> QED BY <1>2, <4>1, <4>2, SameLog DEF Seen
    <3>2. CASE Verdict(c) # "unchanged"
      <4>1. log' = Append(log, e)
        BY <2>3, <3>2
      <4>2. /\ ~Conflict(r.path, r.facts.url)
            /\ SeenIn(log, r.path) = 0 \/ log[SeenIn(log, r.path)].facts # r.facts
        BY <1>6, <2>3, <3>2 DEF JudgeCheckout
      <4>3. OneRemote'
        BY <1>2, <1>6, <2>2, <4>1, <4>2, AdmittedRemotes
      <4>4. LogOK'
        BY <1>2, <1>6, <2>2, <4>1, <4>2, <4>3, AppendOK
      <4>5. Seen(r.path)'
        BY <2>2, <4>1, OfCaller DEF Seen
      <4> QED BY <4>4, <4>5
    <3> QED BY <3>1, <3>2
  <2>5. log' = log \/ \E x \in Event : log' = Append(log, x)
    BY <2>2, <2>3
  <2>6. CallOK(r)'
    BY <1>2, <2>5, Kept
  <2>7. CallOK(Grown(r, "step", [attempt |-> 1]))'
    <3>1. PICK g : g = Grown(r, "step", [attempt |-> 1])
      OBVIOUS
    <3>2. /\ g.at = "step" /\ g.attempt = 1
          /\ {"path", "host", "request", "checked", "attempt"} \subseteq DOMAIN g
          /\ g.path = r.path /\ g.host = r.host /\ g.request = r.request
          /\ g.checked = r.checked
          /\ "value" \in DOMAIN g /\ g.value = r.value
          /\ "facts" \in DOMAIN g /\ g.facts = r.facts
      BY <1>2, <1>3, <3>1, BaseOK DEF Keys
    <3>3. CallOK(g)'
      BY <1>2, <2>4, <2>6, <3>2, OfCaller DEF CallOK, Active, Seen
    <3> QED BY <3>1, <3>3
  <2> QED BY <1>1, <1>2, <1>6, <2>4, <2>5, <2>7, GoRecorded
<1> QED BY <1>4, <1>5, <1>6 DEF Admit
\* The catalog's version is one it had.
LEMMA StepCatalogOK ==
    ASSUME IInv, NEW c \in Callers, StepCatalog(c)
    PROVE  IInv'
<1>1. PICK r : r = call[c]
  OBVIOUS
<1>2. CallOK(r) /\ r.at = "step" /\ r.at \in Active /\ OwnerOK
  BY <1>1, OfCaller DEF StepCatalog, Active
<1>3. "value" \in DOMAIN r /\ "facts" \in DOMAIN r
  BY <1>2 DEF CallOK
<1>4. PICK v : v = catalog
  OBVIOUS
<1>5. v \in 0..MaxEdits
  BY <1>2, <1>4, OfCaller DEF OwnerOK
<1>6. CallOK(Grown(r, "policy", [catalog |-> v]))
  <2>1. PICK g : g = Grown(r, "policy", [catalog |-> v])
    OBVIOUS
  <2>2. /\ g.at = "policy" /\ "catalog" \in DOMAIN g /\ g.catalog = v
        /\ {"path", "host", "request", "checked", "attempt"} \subseteq DOMAIN g
        /\ g.path = r.path /\ g.host = r.host /\ g.request = r.request
        /\ g.checked = r.checked /\ g.attempt = r.attempt
        /\ "value" \in DOMAIN g /\ g.value = r.value
        /\ "facts" \in DOMAIN g /\ g.facts = r.facts
    BY <1>2, <1>3, <2>1, BaseOK DEF Keys
  <2>3. CallOK(g)
    BY <1>2, <1>5, <2>2 DEF CallOK, Active
  <2> QED BY <2>1, <2>3
<1>7. Goto(c, "policy", [catalog |-> v]) /\ UNCHANGED <<log, owner>>
  BY <1>1, <1>4 DEF StepCatalog
<1> QED BY <1>1, <1>6, <1>7, GoOn

\* The version in force holds what the settings gave.
LEMMA PolicyReadOK ==
    ASSUME IInv, NEW c \in Callers, PolicyRead(c)
    PROVE  IInv'
<1>1. PICK r : r = call[c]
  OBVIOUS
<1>2. CallOK(r) /\ r.at = "policy" /\ r.at \in Active
  BY <1>1, OfCaller DEF PolicyRead, Active
<1>3. /\ "value" \in DOMAIN r /\ "facts" \in DOMAIN r /\ "catalog" \in DOMAIN r
      /\ r.value \in Values
  BY <1>2 DEF CallOK
<1>4. PICK v : v = PolicyIn(log, r.path, r.host)
  OBVIOUS
<1>5. /\ v \in {0} \cup DOMAIN log
      /\ v # 0 => log[v].type = "policy" /\ log[v].path = r.path /\ log[v].host = r.host
  BY <1>4, Rows
<1>6. InForce(c) = IF v # 0 /\ log[v].value = r.value /\ log[v].catalog = r.catalog
                   THEN v ELSE 0
  BY <1>1, <1>4 DEF InForce, JudgePolicy
<1>7. CASE InForce(c) # 0
  <2>1. v # 0 /\ InForce(c) = v /\ Ruled(r, v)
    BY <1>5, <1>6, <1>7 DEF Ruled
  <2>2. CallOK(Grown(r, "command", [version |-> v]))
    <3>1. PICK g : g = Grown(r, "command", [version |-> v])
      OBVIOUS
    <3>2. /\ g.at = "command" /\ "version" \in DOMAIN g /\ g.version = v
          /\ {"path", "host", "request", "checked", "attempt"} \subseteq DOMAIN g
          /\ g.path = r.path /\ g.host = r.host /\ g.request = r.request
          /\ g.checked = r.checked /\ g.attempt = r.attempt
          /\ "value" \in DOMAIN g /\ g.value = r.value
      BY <1>2, <1>3, <3>1, BaseOK DEF Keys
    <3>3. CallOK(g)
      BY <1>2, <1>3, <2>1, <3>2 DEF CallOK, Active, Ruled
    <3> QED BY <3>1, <3>3
  <2>3. Goto(c, "command", [version |-> v]) /\ UNCHANGED <<log, owner>>
    BY <1>7, <2>1 DEF PolicyRead
  <2> QED BY <1>1, <2>2, <2>3, GoOn
<1>8. CASE InForce(c) = 0
  <2>1. v # 0 => v \in DOMAIN log /\ (log[v].value # r.value \/ log[v].catalog # r.catalog)
    BY <1>5, <1>6, <1>8
  <2>2. CallOK(Grown(r, "recording", [observed |-> v]))
    <3>1. PICK g : g = Grown(r, "recording", [observed |-> v])
      OBVIOUS
    <3>2. /\ g.at = "recording" /\ "observed" \in DOMAIN g /\ g.observed = v
          /\ {"path", "host", "request", "checked", "attempt"} \subseteq DOMAIN g
          /\ g.path = r.path /\ g.host = r.host /\ g.request = r.request
          /\ g.checked = r.checked /\ g.attempt = r.attempt
          /\ "value" \in DOMAIN g /\ g.value = r.value
          /\ "facts" \in DOMAIN g /\ g.facts = r.facts
          /\ "catalog" \in DOMAIN g /\ g.catalog = r.catalog
      BY <1>2, <1>3, <3>1, BaseOK DEF Keys
    <3>3. CallOK(g)
      BY <1>2, <1>5, <2>1, <3>2 DEF CallOK, Active
    <3> QED BY <3>1, <3>3
  <2>3. Goto(c, "recording", [observed |-> v]) /\ UNCHANGED <<log, owner>>
    BY <1>1, <1>4, <1>8 DEF PolicyRead
  <2> QED BY <1>1, <2>2, <2>3, GoOn
<1> QED BY <1>7, <1>8

\* A recorded policy follows the one it replaces.
LEMMA RecordOK ==
    ASSUME IInv, NEW c \in Callers, Record(c)
    PROVE  IInv'
<1>1. PICK r : r = call[c]
  OBVIOUS
<1>2. /\ CallOK(r) /\ r.at = "recording" /\ r.at \in Active
      /\ LogOK /\ OwnerOK /\ UNCHANGED owner
  BY <1>1, OfCaller DEF Record, Active
<1>3. /\ {"value", "facts", "catalog", "observed"} \subseteq DOMAIN r
      /\ r.path \in Paths /\ r.host \in {Host, None}
      /\ r.value \in Values /\ r.catalog \in 0..MaxEdits /\ Seen(r.path)
      /\ r.observed \in {0} \cup DOMAIN log
      /\ r.observed # 0 =>
            log[r.observed].value # r.value \/ log[r.observed].catalog # r.catalog
  BY <1>2 DEF CallOK, Active
<1>4. CASE Again(c, "policy") /\ UNCHANGED log
  BY <1>1, <1>2, <1>4, AgainOK
<1>5. CASE /\ ~Moved(c) /\ Len(log) < MaxLog
           /\ log' = Append(log, [type |-> "policy", path |-> call[c].path,
                                  host |-> call[c].host, value |-> call[c].value,
                                  catalog |-> call[c].catalog,
                                  replaces |-> call[c].observed])
           /\ Goto(c, "command", [version |-> Len(log) + 1])
  <2>1. PICK e : e = [type |-> "policy", path |-> r.path, host |-> r.host,
                      value |-> r.value, catalog |-> r.catalog, replaces |-> r.observed]
    OBVIOUS
  <2>2. r.observed \in 0..MaxLog
    BY <1>3, OfCaller
  <2>3. /\ e \in Event /\ e.type = "policy" /\ e.path = r.path /\ e.host = r.host
        /\ e.value = r.value /\ e.catalog = r.catalog /\ e.replaces = r.observed
    BY <1>3, <2>1, <2>2 DEF Event
  <2>4. log' = Append(log, e) /\ PolicyIn(log, r.path, r.host) = r.observed
    BY <1>1, <1>5, <2>1 DEF Moved
  <2>5. OneRemote'
    BY <1>2, <1>5, <2>3, <2>4, SameRemotes
  <2>6. LogOK'
    BY <1>2, <1>3, <1>5, <2>3, <2>4, <2>5, AppendOK
  <2>7. CallOK(r)'
    BY <1>2, <2>3, <2>4, Kept
  <2>8. PICK v : v = Len(log) + 1
    OBVIOUS
  <2>9. v \in DOMAIN log' /\ log'[v] = e
    BY <2>4, <2>8, OfCaller
  <2>10. Goto(c, "command", [version |-> v])
    BY <1>5, <2>8
  <2>11. CallOK(Grown(r, "command", [version |-> v]))'
    <3>1. PICK g : g = Grown(r, "command", [version |-> v])
      OBVIOUS
    <3>2. /\ g.at = "command" /\ "version" \in DOMAIN g /\ g.version = v
          /\ {"path", "host", "request", "checked", "attempt"} \subseteq DOMAIN g
          /\ g.path = r.path /\ g.host = r.host /\ g.request = r.request
          /\ g.checked = r.checked /\ g.attempt = r.attempt
          /\ "value" \in DOMAIN g /\ g.value = r.value
      BY <1>2, <1>3, <3>1, BaseOK DEF Keys
    <3>3. Ruled(g, v)'
      BY <2>3, <2>9, <3>2 DEF Ruled
    <3>4. CallOK(g)'
      BY <1>2, <1>3, <2>7, <3>2, <3>3 DEF CallOK, Active
    <3> QED BY <3>1, <3>4
  <2> QED BY <1>1, <1>2, <2>3, <2>4, <2>6, <2>10, <2>11, GoRecorded
<1> QED BY <1>4, <1>5 DEF Record

\* A command records the version its step returned, or nothing.
LEMMA CommandOK ==
    ASSUME IInv, NEW c \in Callers, Command(c)
    PROVE  IInv'
<1>1. PICK r : r = call[c]
  OBVIOUS
<1>2. /\ CallOK(r) /\ r.at = "command" /\ r.at \in Active
      /\ LogOK /\ OwnerOK /\ UNCHANGED owner
  BY <1>1, OfCaller DEF Command, Active
<1>3. /\ r.path \in Paths /\ r.host \in {Host, None} /\ r.request \in Requests \cup {None}
      /\ \/ r.version = 0 /\ r.request # None /\ Done(r.request) # {}
         \/ r.value \in Values /\ Ruled(r, r.version)
  BY <1>2 DEF CallOK, Active
<1>4. CASE End(c, "done") /\ UNCHANGED log
  BY <1>1, <1>2, <1>4, EndOn
<1>5. CASE End(c, "late") /\ UNCHANGED log
  BY <1>1, <1>2, <1>5, EndOn
<1>6. CASE /\ call[c].request # None => ~Taken
           /\ Len(log) < MaxLog
           /\ log' = Append(log, [type |-> "done", request |-> call[c].request,
                                  path |-> call[c].path, host |-> call[c].host,
                                  version |-> call[c].version, value |-> call[c].value])
           /\ End(c, "done")
  <2>1. PICK e : e = [type |-> "done", request |-> r.request, path |-> r.path,
                      host |-> r.host, version |-> r.version, value |-> r.value]
    OBVIOUS
  <2>2. r.value \in Values /\ Ruled(r, r.version)
    BY <1>1, <1>3, <1>6 DEF Taken
  <2>3. r.version \in 1..MaxLog
    BY <2>2, OfCaller DEF Ruled
  <2>4. /\ e \in Event /\ e.type = "done" /\ e.path = r.path /\ e.host = r.host
        /\ e.value = r.value /\ e.version = r.version
    BY <1>3, <2>1, <2>2, <2>3 DEF Event
  <2>5. log' = Append(log, e)
    BY <1>1, <1>6, <2>1
  <2>6. OneRemote'
    BY <1>2, <1>6, <2>4, <2>5, SameRemotes
  <2>7. Ruled(e, e.version)
    BY <2>2, <2>4 DEF Ruled
  <2>8. LogOK'
    BY <1>2, <1>6, <2>4, <2>5, <2>6, <2>7, AppendOK
  <2>9. PICK g : g = Ended(r, "done")
    OBVIOUS
  <2>10. CallOK(g) /\ Moves(c, g)
    BY <1>1, <1>2, <1>6, <2>9, EndedOK, EndMoves
  <2>11. CallOK(g)'
    BY <1>2, <2>4, <2>5, <2>10, Kept
  <2>12. CallsOK'
    BY <2>4, <2>5, <2>10, <2>11, CallsMove
  <2>13. OwnerOK'
    BY <1>2 DEF OwnerOK, owner
  <2> QED BY <2>8, <2>12, <2>13 DEF IInv
<1> QED BY <1>4, <1>5, <1>6 DEF Command

\* A failure leaves what was recorded.
LEMMA FailOK ==
    ASSUME IInv, NEW c \in Callers, Fail(c)
    PROVE  IInv'
<1>1. PICK r : r = call[c]
  OBVIOUS
<1>2. CallOK(r) /\ r.at \notin {"idle", "ended"}
  BY <1>1, OfCaller DEF Fail
<1>3. r.at \in Active
  BY <1>2 DEF CallOK
<1> QED BY <1>1, <1>3, EndOn DEF Fail

\* A caller that returns holds nothing.
LEMMA ReturnOK ==
    ASSUME IInv, NEW c \in Callers, Return(c)
    PROVE  IInv'
<1>1. Moves(c, Idle)
  BY OfCaller DEF Return, Moves
<1>2. CallOK(Idle)
  BY DEF CallOK, Idle, Active
<1> QED BY <1>1, <1>2, QuietOK DEF Return
-----------------------------------------------------------------------------
(* The theorems *)

\* The owner's edits reach no event and no call.
LEMMA EditOK ==
    ASSUME IInv, UNCHANGED <<log, call>>, OwnerOK'
    PROVE  IInv'
<1>1. LogOK'
  BY SameLog DEF IInv
<1>2. CallsOK'
  BY DEF IInv, CallsOK, CallOK, Ruled, Seen, Done
<1> QED BY <1>1, <1>2 DEF IInv

\* The owner's edits keep the bounds.
LEMMA Edits ==
    ASSUME IInv,
           \/ \E path \in Paths : \/ \E f \in Facts : EditFacts(path, f)
                                  \/ \E s \in Settings : EditSettings(path, s)
           \/ EditCatalog
    PROVE  IInv'
<1>1. OwnerOK /\ MaxEdits \in Nat
  BY BoundAssumption DEF IInv
<1>2. /\ facts \in [Paths -> Facts] /\ settings \in [Paths -> Settings]
      /\ edits \in Int /\ catalog \in Int /\ 0 <= catalog /\ catalog <= edits
  BY <1>1 DEF OwnerOK
<1>3. ASSUME NEW path \in Paths, NEW f \in Facts, EditFacts(path, f)
      PROVE  OwnerOK'
  BY <1>1, <1>2, <1>3 DEF OwnerOK, EditFacts, Edit
<1>4. ASSUME NEW path \in Paths, NEW s \in Settings, EditSettings(path, s)
      PROVE  OwnerOK'
  BY <1>1, <1>2, <1>4 DEF OwnerOK, EditSettings, Edit
<1>5. ASSUME EditCatalog
      PROVE  OwnerOK'
  <2>1. facts' = facts /\ settings' = settings /\ catalog' = catalog + 1
        /\ edits' = edits + 1 /\ edits < MaxEdits
    BY <1>5 DEF EditCatalog, Edit
  <2> QED BY <1>1, <1>2, <2>1 DEF OwnerOK
<1>6. UNCHANGED <<log, call>>
  BY DEF EditFacts, EditSettings, EditCatalog, Edit
<1>7. OwnerOK'
  BY <1>3, <1>4, <1>5
<1> QED BY <1>6, <1>7, EditOK

\* At first nothing is recorded.
LEMMA InitOK ==
    ASSUME Init
    PROVE  IInv
<1>1. log = <<>> /\ DOMAIN log = {} /\ log \in Seq(Event) /\ Len(log) = 0
  BY DEF Init
<1>2. MaxLog \in Nat /\ MaxEdits \in Nat
  BY BoundAssumption
<1>3. \A path : SeenIn(log, path) = 0
  <2>1. {} \in SUBSET Nat /\ IsFiniteSet({})
    BY FS_EmptySet
  <2>2. Last({}) = 0
    BY <2>1, LastIs
  <2> QED BY <1>1, <2>2 DEF SeenIn
<1>4. LogOK
  BY <1>1, <1>2, <1>3 DEF LogOK, OneRemote, SeenChanges, PolicyChain, PolicySeen,
                          RunsUnderItsPolicy
<1>5. OwnerOK
  BY <1>2 DEF Init, OwnerOK
<1>6. CallOK(Idle)
  BY DEF CallOK, Idle, Active
<1>7. CallsOK
  BY <1>6 DEF Init, CallsOK
<1> QED BY <1>4, <1>5, <1>7 DEF IInv

\* Every step keeps the invariant.
LEMMA NextOK ==
    ASSUME IInv, [Next]_vars
    PROVE  IInv'
<1>1. CASE UNCHANGED vars
  <2>1. OwnerOK'
    BY <1>1 DEF IInv, OwnerOK, vars, owner
  <2> QED BY <1>1, <2>1, EditOK DEF vars
<1>2. ASSUME NEW c \in Callers,
             \/ \E path \in Paths, host \in {Host, None}, r \in Requests \cup {None} :
                  Start(c, path, host, r)
             \/ LookUp(c) \/ Check(c) \/ Relook(c) \/ Gather(c)
             \/ AdmitRead(c) \/ Admit(c)
             \/ StepCatalog(c) \/ PolicyRead(c) \/ Record(c)
             \/ Command(c) \/ Fail(c) \/ Return(c)
      PROVE  IInv'
  BY <1>2, StartOK, LookUpOK, CheckOK, RelookOK, GatherOK, AdmitReadOK, AdmitOK,
     StepCatalogOK, PolicyReadOK, RecordOK, CommandOK, FailOK, ReturnOK
<1> QED BY <1>1, <1>2, Edits DEF Next

\* Everything a preparation relies on holds throughout.
THEOREM Prepared == Spec => []IInv
BY InitOK, NextOK, PTL DEF Spec

\* For any callers, checkouts, facts and settings: two checkouts of one project
\* never hold different remotes, checkout.seen records only changes, and the
\* policy records of a checkout and host form a chain (admit.rs, record.rs).
THEOREM LogKept == Spec => []LogInv
<1>1. IInv => LogInv
  BY DEF IInv, LogOK, OwnerOK, CallsOK, CallOK, LogInv, TypeOK
<1> QED BY <1>1, Prepared, PTL

\* For any callers: every command is recorded under a policy version that its
\* own checkout and host recorded, holding what its own settings gave, after
\* the checkout was admitted (policy_step/record.rs, mcp/prepare.rs).
THEOREM PolicyKept == Spec => []RunsUnderItsPolicy
<1>1. IInv => RunsUnderItsPolicy
  BY DEF IInv, LogOK
<1> QED BY <1>1, Prepared, PTL

\* For any callers and requests: a served write is never refused for what the
\* request itself recorded before the check ran (mcp/prepare.rs).
THEOREM RetryKept == Spec => []RetryReplayed
<1>1. IInv => RetryReplayed
  BY DEF IInv, CallsOK, CallOK, RetryReplayed
<1> QED BY <1>1, Prepared, PTL
=============================================================================

--------------------------- MODULE RebuildProofs ----------------------------
(***************************************************************************)
(* The generations of a project's views, for any processes, versions,      *)
(* keys, batch sizes and log lengths: the live one is always the whole log *)
(* as its version projects it, a verification finds no difference, a       *)
(* rebuild leaves one generation, and readers see an implementation of     *)
(* Views.                                                                  *)
(***************************************************************************)
EXTENDS Rebuild, TLAPS

(* Folding in batches is folding at once.                                  *)

\* One batch that folds nothing is no batch.
LEMMA FoldNothing ==
    ASSUME NEW D \in Docs, NEW l, NEW a \in Nat, NEW v
    PROVE  Fold(D, l, a, a, v) = D
  <1>1. ASSUME NEW k \in Keys, NEW i \in Seqs
        PROVE  Fold(D, l, a, a, v)[k][i] = D[k][i]
    <2>1. D[k][i] \in Seq(Versions) BY DEF Docs
    <2>2. (a + 1)..a = {} OBVIOUS
    <2>3. Fold(D, l, a, a, v)[k][i] = D[k][i] \o << >>
      BY <2>2 DEF Fold
    <2> QED BY <2>1, <2>3
  <1>2. Fold(D, l, a, a, v) = [k \in Keys |-> [i \in Seqs |-> Fold(D, l, a, a, v)[k][i]]]
    BY DEF Fold
  <1>3. D = [k \in Keys |-> [i \in Seqs |-> D[k][i]]] BY DEF Docs
  <1> QED BY <1>1, <1>2, <1>3

\* What folding leaves is documents.
LEMMA FoldTyped ==
    ASSUME NEW D \in Docs, NEW l, NEW a, NEW b, NEW v \in Versions
    PROVE  Fold(D, l, a, b, v) \in Docs
  <1>1. ASSUME NEW k \in Keys, NEW i \in Seqs
        PROVE  Fold(D, l, a, b, v)[k][i] \in Seq(Versions)
    <2>1. D[k][i] \in Seq(Versions) BY DEF Docs
    <2>2. D[k][i] \o << >> \in Seq(Versions) /\ D[k][i] \o <<v>> \in Seq(Versions)
      BY <2>1
    <2>3. << >> \in Seq(Versions) OBVIOUS
    <2> QED BY <2>2, <2>3 DEF Fold
  <1> QED BY <1>1 DEF Fold, Docs

\* Two batches that meet are one.
LEMMA FoldFold ==
    ASSUME NEW D \in Docs, NEW l, NEW v \in Versions,
           NEW a \in Nat, NEW b \in Nat, NEW c \in Nat, a <= b, b <= c
    PROVE  Fold(Fold(D, l, a, b, v), l, b, c, v) = Fold(D, l, a, c, v)
  <1> DEFINE F == Fold(D, l, a, b, v)
             Cut(x, y, k, i) == \E j \in (x + 1)..y : j > i /\ Deletes(l, j, k)
             Add(x, y, k, i) ==
                 IF i \in (x + 1)..y /\ Puts(l, i, k) THEN <<v>> ELSE << >>
  <1>1. ASSUME NEW k \in Keys, NEW i \in Seqs
        PROVE  Fold(F, l, b, c, v)[k][i] = Fold(D, l, a, c, v)[k][i]
    <2>1. D[k][i] \in Seq(Versions) BY DEF Docs
    <2>2. F[k][i] = IF Cut(a, b, k, i) THEN << >> ELSE D[k][i] \o Add(a, b, k, i)
      BY DEF Fold
    <2>3. Fold(F, l, b, c, v)[k][i]
              = IF Cut(b, c, k, i) THEN << >> ELSE F[k][i] \o Add(b, c, k, i)
      BY DEF Fold
    <2>4. Fold(D, l, a, c, v)[k][i]
              = IF Cut(a, c, k, i) THEN << >> ELSE D[k][i] \o Add(a, c, k, i)
      BY DEF Fold
    <2>5. Cut(a, c, k, i) <=> Cut(a, b, k, i) \/ Cut(b, c, k, i)
      <3>1. \A j : j \in (a + 1)..c <=> j \in (a + 1)..b \/ j \in (b + 1)..c
        OBVIOUS
      <3> QED BY <3>1
    <2>6. i \in Nat BY DEF Seqs
    <2>7. Cut(a, b, k, i) => Add(b, c, k, i) = << >> BY <2>6
    <2>8. \/ Add(a, b, k, i) = << >> /\ Add(a, c, k, i) = Add(b, c, k, i)
          \/ Add(b, c, k, i) = << >> /\ Add(a, c, k, i) = Add(a, b, k, i)
      BY <2>6
    <2>9. Add(b, c, k, i) \in Seq(Versions) /\ Add(a, b, k, i) \in Seq(Versions)
      OBVIOUS
    <2> HIDE DEF F, Cut, Add
    <2>10. \A s \in Seq(Versions) : s \o << >> = s /\ << >> \o s = s
      OBVIOUS
    <2>11. D[k][i] \o Add(a, b, k, i) \in Seq(Versions) BY <2>1, <2>9
    <2> QED BY <2>1, <2>2, <2>3, <2>4, <2>5, <2>7, <2>8, <2>9, <2>10, <2>11
  <1> HIDE DEF F
  <1>2. Fold(F, l, b, c, v) = [k \in Keys |-> [i \in Seqs |-> Fold(F, l, b, c, v)[k][i]]]
    BY DEF Fold
  <1>3. Fold(D, l, a, c, v) = [k \in Keys |-> [i \in Seqs |-> Fold(D, l, a, c, v)[k][i]]]
    BY DEF Fold
  <1> QED BY <1>1, <1>2, <1>3 DEF F

\* Events that are not folded do not matter.
LEMMA FoldAppend ==
    ASSUME NEW D, NEW l \in Seq(Events), NEW e \in Events, NEW v,
           NEW a \in Nat, NEW b \in 0..Len(l)
    PROVE  Fold(D, Append(l, e), a, b, v) = Fold(D, l, a, b, v)
  <1>1. \A j \in (a + 1)..b : Append(l, e)[j] = l[j] OBVIOUS
  <1>2. ASSUME NEW k, NEW i
        PROVE  /\ (\E j \in (a + 1)..b : j > i /\ Deletes(Append(l, e), j, k))
                      <=> \E j \in (a + 1)..b : j > i /\ Deletes(l, j, k)
               /\ i \in (a + 1)..b /\ Puts(Append(l, e), i, k)
                      <=> i \in (a + 1)..b /\ Puts(l, i, k)
    BY <1>1 DEF Deletes, Puts
  <1> QED BY <1>2 DEF Fold

LEMMA NoRowsTyped == NoRows \in Docs /\ \A k \in Keys : NoRows[k] = NoRow
  <1>1. << >> \in Seq(Versions) OBVIOUS
  <1> QED BY <1>1 DEF NoRows, NoRow, Docs

\* No event projects to no row.
LEMMA ProjectedNothing ==
    ASSUME NEW l, NEW v
    PROVE  Projected(l, 0, v) = NoRows
  BY NoRowsTyped, FoldNothing DEF Projected

LEMMA ProjectedTyped ==
    ASSUME NEW l, NEW n, NEW v \in Versions
    PROVE  Projected(l, n, v) \in Docs
  BY NoRowsTyped, FoldTyped DEF Projected

\* A further batch projects further.
LEMMA ProjectedMore ==
    ASSUME NEW l, NEW v \in Versions, NEW a \in Nat, NEW b \in Nat, a <= b
    PROVE  Fold(Projected(l, a, v), l, a, b, v) = Projected(l, b, v)
  BY NoRowsTyped, FoldFold DEF Projected

\* An event that is appended changes nothing that was projected before.
LEMMA ProjectedAppend ==
    ASSUME NEW l \in Seq(Events), NEW e \in Events, NEW v, NEW n \in 0..Len(l)
    PROVE  Projected(Append(l, e), n, v) = Projected(l, n, v)
  BY FoldAppend DEF Projected

-----------------------------------------------------------------------------
(* The invariant *)

\* Before the first generation is live nothing is stored.
Fresh ==
    live = NoGen =>
        building = NoGen /\ \A g \in Gens : docs[g] = NoRows /\ stamp[g] = 0

\* A generation is built above the live one.
Above == building # NoGen => live # NoGen /\ building > live

\* Nothing is stored above the live generation but what is being built.
Bounded == \A g \in Stored : g <= LiveOrZero \/ g = building

\* What a session relies on at each of its steps.
Working ==
    /\ session.pc \in {"orphan", "replay", "pin", "remove"} =>
          building = session.gen /\ building # NoGen
    /\ session.pc \in {"presweep", "create", "postsweep"} => building = NoGen
    /\ session.pc \in {"orphan", "presweep"} => session.doing = "rebuild"
    /\ session.pc = "pin" => session.doing = "verify"
    /\ session.pc \in {"create", "replay", "pin"} /\ session.doing = "verify" =>
          live # NoGen /\ stamp[live] = Version[session.proc]

\* What the sweep after a flip has passed is gone.
SweptBelow ==
    session.pc = "postsweep" =>
        live # NoGen /\ \A g \in Stored : g > session.after \/ g = live

Rebuilt == session = Idle("rebuilt") => Stored \subseteq {live}

Local == BuildingIsPrefix /\ Working /\ SweptBelow /\ Rebuilt

IInv ==
    /\ TypeOK /\ Fresh /\ Above /\ Bounded /\ LiveIsProjected
    /\ VerifyFindsNoDifference
    /\ Local

Results == {"none", "forwarded", "rebuilt", "verified", "failed"}

SessionOK ==
    \/ session \in Sessions
    \/ \E result \in Results : session = Idle(result)

\* An idle session is at none of the steps.
LEMMA IdleFields ==
    ASSUME NEW result
    PROVE  /\ Idle(result).pc = "idle" /\ Idle(result).pc \notin Steps
           /\ (Idle(result) = Idle("rebuilt") <=> result = "rebuilt")
  <1>1. Idle(result).want = result /\ Idle("rebuilt").want = "rebuilt"
    BY DEF Idle
  <1> QED BY <1>1 DEF Idle, Steps

LEMMA BusyFields ==
    ASSUME SessionOK, session.pc # "idle"
    PROVE  /\ session \in Sessions /\ session # Idle("rebuilt")
           /\ Version[session.proc] \in Versions /\ Version[session.proc] # 0
           /\ session.pc \in Steps
  <1>1. session \in Sessions BY IdleFields DEF SessionOK
  <1> QED BY <1>1, IdleFields, VersionAssumption, VersionsAssumption DEF Sessions

\* The constants as the invariant uses them.
LEMMA GensFacts ==
    /\ Gens = 0..MaxGen /\ 0 \in Gens /\ NoGen \notin Gens
    /\ \A g \in Gens : g \in Int /\ g >= 0 /\ g # NoGen
    /\ NoGen \in Int /\ \A g \in Gens : g > NoGen
    /\ 0 \notin Versions /\ \A p \in Procs : Version[p] \in Versions
  BY MaxGenAssumption, VersionsAssumption, VersionAssumption DEF Gens, NoGen

LEMMA NoRowIsNoRows ==
    ASSUME NEW D \in Docs
    PROVE  {k \in Keys : D[k] # NoRow} = {} <=> D = NoRows
  <1>1. D = [k \in Keys |-> D[k]] BY DEF Docs
  <1> QED BY <1>1 DEF NoRows

LEMMA StoredFacts ==
    ASSUME TypeOK
    PROVE  /\ Stored \subseteq Gens
           /\ \A g \in Gens : g \in Stored <=> stamp[g] # 0 \/ docs[g] # NoRows
           /\ LiveOrZero \in Gens /\ (live # NoGen => LiveOrZero = live)
           /\ Fresh /\ live = NoGen => Stored = {}
  <1>1. \A g \in Gens : docs[g] \in Docs BY DEF TypeOK
  <1>2. \A g \in Gens : Rows(g) = {} <=> docs[g] = NoRows
    BY <1>1, NoRowIsNoRows DEF Rows
  <1> QED BY <1>2, GensFacts DEF Stored, LiveOrZero, TypeOK, Fresh

-----------------------------------------------------------------------------
(* Steps of a session that leave the views as they are                     *)

LEMMA SessionOnly ==
    ASSUME IInv, UNCHANGED <<log, views, differing>>, SessionOK', Local'
    PROVE  IInv'
  <1>1. TypeOK' BY DEF IInv, TypeOK, SessionOK, Results, views
  <1>2. Stored' = Stored BY DEF views, Stored, Rows
  <1>3. /\ Fresh' /\ Above' /\ LiveIsProjected' /\ VerifyFindsNoDifference'
        /\ LiveOrZero' = LiveOrZero
    BY DEF IInv, Fresh, Above, LiveIsProjected, VerifyFindsNoDifference, views,
           LiveOrZero
  <1>4. Bounded' BY <1>2, <1>3 DEF IInv, Bounded, views
  <1> QED BY <1>1, <1>3, <1>4 DEF IInv

\* Where a session has nothing to rely on.
LEMMA Quiet ==
    ASSUME session'.pc \in {"idle", "ready", "stamp", "start"},
           session' # Idle("rebuilt")
    PROVE  Local'
  BY DEF Local, BuildingIsPrefix, Working, SweptBelow, Rebuilt

\* A session ends otherwise than as a rebuild that succeeded.
LEMMA Ends ==
    ASSUME NEW result \in Results \ {"rebuilt"}, End(result)
    PROVE  SessionOK' /\ Local'
  <1>1. session' = Idle(result) BY DEF End
  <1>2. session'.pc = "idle" /\ session' # Idle("rebuilt") BY <1>1, IdleFields
  <1> QED BY <1>1, <1>2, Quiet DEF SessionOK

\* A session moves on to another step.
LEMMA Goes ==
    ASSUME session \in Sessions, NEW pc \in Steps, GoTo(pc)
    PROVE  /\ session' \in Sessions /\ session'.pc = pc
           /\ session'.proc = session.proc /\ session'.doing = session.doing
           /\ session'.gen = session.gen /\ session'.after = session.after
           /\ session' # Idle("rebuilt")
  <1>1. /\ session' \in Sessions /\ session'.pc = pc
        /\ session'.proc = session.proc /\ session'.doing = session.doing
        /\ session'.gen = session.gen /\ session'.after = session.after
    BY DEF GoTo, Sessions
  <1>2. session'.pc \in Steps BY <1>1
  <1> QED BY <1>1, <1>2, IdleFields

LEMMA GoesQuiet ==
    ASSUME session \in Sessions, NEW pc \in {"ready", "stamp", "start"}, GoTo(pc)
    PROVE  SessionOK' /\ Local'
  <1>1. pc \in Steps BY DEF Steps
  <1> QED BY <1>1, Goes, Quiet DEF SessionOK

LEMMA Forwards ==
    ASSUME session \in Sessions, Forwarded
    PROVE  SessionOK' /\ Local'
  <1>1. CASE session.want = "verify"
    <2>1. /\ session' \in Sessions /\ session'.pc = "start"
      BY <1>1 DEF Forwarded, Sessions, Steps
    <2>2. session' # Idle("rebuilt") BY <2>1, IdleFields
    <2> QED BY <2>1, <2>2, Quiet DEF SessionOK
  <1>2. CASE session.want # "verify"
    <2>1. End("forwarded") BY <1>2 DEF Forwarded
    <2> QED BY <2>1, Ends DEF Results
  <1> QED BY <1>1, <1>2

LEMMA BeginInv ==
    ASSUME IInv, NEW p \in Procs, NEW want \in Wants,
           NEW pc \in {"start", "ready"}, Begin(p, want, pc)
    PROVE  IInv'
  <1>1. session' \in Sessions /\ session'.pc = pc
    BY DEF Begin, Sessions, Steps
  <1>2. session' # Idle("rebuilt") BY <1>1, IdleFields
  <1>3. SessionOK' /\ Local' BY <1>1, <1>2, Quiet DEF SessionOK
  <1> QED BY <1>3, SessionOnly DEF Begin

LEMMA ReadyInv ==
    ASSUME IInv, Ready
    PROVE  IInv'
  <1>1. session \in Sessions
    <2>1. SessionOK /\ session.pc # "idle"
      BY DEF IInv, TypeOK, SessionOK, Results, Ready, At
    <2> QED BY <2>1, BusyFields
  <1>2. \/ Forwarded \/ End("failed") \/ GoTo("stamp") \/ GoTo("start")
    BY DEF Ready, JudgeSet
  <1>3. SessionOK' /\ Local' BY <1>1, <1>2, Forwards, Ends, GoesQuiet DEF Results
  <1> QED BY <1>3, SessionOnly DEF Ready, At

\* The first batch of start finds a marker or none; a verification starts
\* only on current views and without a marker.
LEMMA StartInv ==
    ASSUME IInv, Start
    PROVE  IInv'
  <1>1. session \in Sessions
    <2>1. SessionOK /\ session.pc # "idle"
      BY DEF IInv, TypeOK, SessionOK, Results, Start, At
    <2> QED BY <2>1, BusyFields
  <1>2. UNCHANGED <<log, views, differing>> BY DEF Start, At
  <1>3. CASE End("failed")
    BY <1>2, <1>3, Ends, SessionOnly DEF Results
  <1>4. CASE ~End("failed")
    <2> DEFINE pc == IF session.doing = "verify" THEN "create"
                     ELSE IF building # NoGen THEN "orphan"
                     ELSE "presweep"
    <2>1. session' = [session EXCEPT !.gen = building, !.pc = pc]
      BY <1>4 DEF Start
    <2>2. session.doing = "verify" => JudgeSet(session.proc) = "current"
                                      /\ building = NoGen
      BY <1>4 DEF Start
    <2>3. session.doing = "verify" =>
              live # NoGen /\ stamp[live] = Version[session.proc]
      BY <2>2 DEF JudgeSet
    <2>4. building \in Gens \cup {NoGen} BY DEF IInv, TypeOK
    <2>5. pc \in {"create", "orphan", "presweep"} OBVIOUS
    <2>6. /\ session' \in Sessions /\ session'.pc = pc
          /\ session'.gen = building /\ session'.doing = session.doing
          /\ session'.proc = session.proc
      BY <1>1, <2>1, <2>4, <2>5 DEF Sessions, Steps
    <2>7. session' # Idle("rebuilt") BY <2>6, IdleFields DEF Sessions
    <2>8. session.doing \in {"rebuild", "verify"} BY <1>1 DEF Sessions
    <2>9. Local'
      BY <1>2, <2>2, <2>3, <2>6, <2>7, <2>8
      DEF Local, BuildingIsPrefix, Working, SweptBelow, Rebuilt, views
    <2> QED BY <1>2, <2>6, <2>9, SessionOnly DEF SessionOK
  <1> QED BY <1>3, <1>4

LEMMA SweptInv ==
    ASSUME IInv, Swept
    PROVE  IInv'
  <1>1. session \in Sessions
    <2>1. SessionOK /\ session.pc # "idle"
      BY DEF IInv, TypeOK, SessionOK, Results, Swept
    <2> QED BY <2>1, BusyFields
  <1>2. UNCHANGED <<log, views, differing>> BY DEF Swept
  <1>3. CASE session.pc = "presweep"
    <2>1. GoTo("create") BY <1>3 DEF Swept
    <2>2. /\ session' \in Sessions /\ session'.pc = "create"
          /\ session'.doing = session.doing /\ session' # Idle("rebuilt")
      BY <1>1, <2>1, Goes DEF Steps
    <2>3. building' = NoGen /\ session.doing = "rebuild"
      BY <1>2, <1>3 DEF IInv, Local, Working, views
    <2>4. Local'
      BY <2>2, <2>3 DEF Local, BuildingIsPrefix, Working, SweptBelow, Rebuilt
    <2> QED BY <1>2, <2>2, <2>4, SessionOnly DEF SessionOK
  <1>4. CASE session.pc = "postsweep" /\ session.want = "rebuild"
    <2>1. session' = Idle("rebuilt") BY <1>4 DEF Swept, End
    <2>2. /\ live # NoGen /\ building = NoGen
          /\ \A g \in Stored : g > session.after \/ g = live
      BY <1>4 DEF IInv, Local, Working, SweptBelow
    <2>3. Sweepable = {} BY DEF Swept
    <2>4. LiveOrZero = live BY <2>2 DEF LiveOrZero
    <2>5. ASSUME NEW g \in Stored PROVE g = live
      <3>1. g \in Gens BY DEF Stored
      <3>2. g # building BY <2>2, <3>1, GensFacts
      <3> QED BY <2>2, <2>3, <2>4, <3>2 DEF Sweepable
    <2>6. Stored' = Stored /\ live' = live BY <1>2 DEF views, Stored, Rows
    <2>7. Local'
      BY <2>1, <2>5, <2>6, IdleFields
      DEF Local, BuildingIsPrefix, Working, SweptBelow, Rebuilt
    <2> QED BY <1>2, <2>1, <2>7, SessionOnly DEF SessionOK, Results
  <1>5. CASE session.pc = "postsweep" /\ session.want # "rebuild"
    <2>1. Forwarded BY <1>5 DEF Swept
    <2> QED BY <1>1, <1>2, <2>1, Forwards, SessionOnly
  <1> QED BY <1>3, <1>4, <1>5 DEF Swept

\* A session that dies, fails or gives up leaves what it wrote.
LEMMA StopsInv ==
    ASSUME IInv, CreateFails \/ AbandonReplay \/ ReplayUnreadable \/ Crash
    PROVE  IInv'
  <1>1. session \in Sessions
    <2>1. SessionOK /\ session.pc # "idle"
      BY DEF IInv, TypeOK, SessionOK, Results, CreateFails, AbandonReplay,
             ReplayUnreadable, Crash, At
    <2> QED BY <2>1, BusyFields
  <1>2. UNCHANGED <<log, views, differing>>
    BY DEF CreateFails, AbandonReplay, ReplayUnreadable, Crash, At
  <1>3. CASE End("failed")
    BY <1>2, <1>3, Ends, SessionOnly DEF Results
  <1>4. CASE session.pc \in {"replay", "pin"} /\ GoTo("remove")
    <2>1. /\ session' \in Sessions /\ session'.pc = "remove"
          /\ session'.gen = session.gen /\ session' # Idle("rebuilt")
      BY <1>1, <1>4, Goes DEF Steps
    <2>2. building' = session.gen /\ building' # NoGen
      BY <1>2, <1>4 DEF IInv, Local, Working, views
    <2>3. Local'
      BY <2>1, <2>2 DEF Local, BuildingIsPrefix, Working, SweptBelow, Rebuilt
    <2> QED BY <1>2, <2>1, <2>3, SessionOnly DEF SessionOK
  <1> QED BY <1>3, <1>4 DEF CreateFails, AbandonReplay, ReplayUnreadable, Crash

-----------------------------------------------------------------------------
(* Steps that change the views                                             *)

\* An empty project's generation 0 is stamped: it holds the whole log.
LEMMA StampEmptyInv ==
    ASSUME IInv, NEW p \in Procs, StampEmpty(p), UNCHANGED <<log, differing>>,
           SessionOK',
           session' = session \/ Local'
    PROVE  IInv'
  <1>1. CASE live = NoGen /\ log = << >>
    <2>1. /\ live' = 0 /\ stamp' = [stamp EXCEPT ![0] = Version[p]]
          /\ UNCHANGED <<building, applied, docs>>
      BY <1>1 DEF StampEmpty
    <2>2. /\ building = NoGen
          /\ \A g \in Gens : docs[g] = NoRows /\ stamp[g] = 0
      BY <1>1 DEF IInv, Fresh
    <2>3. TypeOK'
      BY <2>1, GensFacts DEF IInv, TypeOK, SessionOK, Results
    <2>4. live' # NoGen /\ LiveOrZero' = 0
      BY <2>1, GensFacts DEF LiveOrZero
    <2>5. stamp'[0] = Version[p] /\ \A g \in Gens : g # 0 => stamp'[g] = 0
      BY <2>1, <2>2, GensFacts DEF IInv, TypeOK
    <2>6. \A g \in Stored' : g = 0
      <3>1. \A g \in Gens : g \in Stored' <=> stamp'[g] # 0 \/ docs'[g] # NoRows
        <4>1. \A g \in Gens : docs'[g] \in Docs BY <2>3 DEF TypeOK
        <4> QED BY <4>1, NoRowIsNoRows DEF Stored, Rows
      <3>2. Stored' \subseteq Gens BY DEF Stored
      <3> QED BY <2>1, <2>2, <2>5, <3>1, <3>2
    <2>7. Fresh' /\ Above' /\ Bounded' /\ VerifyFindsNoDifference'
      BY <2>1, <2>2, <2>4, <2>6, GensFacts
      DEF Fresh, Above, Bounded, VerifyFindsNoDifference, IInv
    <2>8. LiveIsProjected'
      <3>1. Len(log') = 0 BY <1>1
      <3>2. docs'[0] = NoRows BY <2>1, <2>2, GensFacts
      <3> QED BY <2>1, <3>1, <3>2, ProjectedNothing DEF LiveIsProjected
    <2>9. Local'
      <3>1. CASE session' = session
        <4>1. session.pc \notin {"orphan", "replay", "pin", "remove", "postsweep"}
          BY <1>1, <2>2 DEF IInv, Local, Working, SweptBelow
        <4>2. ~(session.pc = "create" /\ session.doing = "verify")
          BY <1>1 DEF IInv, Local, Working
        <4> QED BY <2>1, <2>2, <2>4, <2>6, <3>1, <4>1, <4>2
                DEF IInv, Local, BuildingIsPrefix, Working, SweptBelow, Rebuilt
      <3> QED BY <3>1
    <2> QED BY <2>3, <2>7, <2>8, <2>9 DEF IInv
  <1>2. CASE ~(live = NoGen /\ log = << >>)
    <2>1. UNCHANGED views BY <1>2 DEF StampEmpty
    <2>2. CASE session' = session
      <3>1. UNCHANGED <<log, views, session, differing>> BY <2>1, <2>2
      <3>2. Stored' = Stored BY <3>1 DEF views, Stored, Rows
      <3>3. Local'
        BY <3>1, <3>2 DEF IInv, Local, BuildingIsPrefix, Working, SweptBelow,
                          Rebuilt, views
      <3> QED BY <2>1, <3>3, SessionOnly
    <2> QED BY <2>1, <2>2, SessionOnly
  <1> QED BY <1>1, <1>2

\* A batch of removal takes rows and stamps of a generation that is not the
\* live one, and the marker only if it names that generation.
LEMMA RemoveRowsFacts ==
    ASSUME IInv, NEW g \in Gens, NEW R \in SUBSET Keys, NEW done \in BOOLEAN,
           NEW marker \in BOOLEAN, RemoveRows(g, R, done, marker)
    PROVE  /\ live' = live /\ g # live
           /\ docs' \in [Gens -> Docs] /\ stamp' \in [Gens -> Versions \cup {0}]
           /\ applied' \in 0..MaxEvents /\ building' \in Gens \cup {NoGen}
           /\ \A h \in Gens : h # g => docs'[h] = docs[h] /\ stamp'[h] = stamp[h]
           /\ stamp[g] = 0 /\ docs[g] = NoRows =>
                  stamp'[g] = 0 /\ docs'[g] = NoRows
           /\ done => stamp'[g] = 0 /\ docs'[g] = NoRows
           /\ \/ building' = building /\ ~(done /\ marker /\ building = g)
              \/ building' = NoGen /\ done /\ marker /\ building = g
  <1>1. /\ docs \in [Gens -> Docs] /\ stamp \in [Gens -> Versions \cup {0}]
        /\ live \in Gens \cup {NoGen}
        /\ applied \in 0..MaxEvents /\ building \in Gens \cup {NoGen}
    BY DEF IInv, TypeOK
  <1>2. live' = live /\ g # live
    BY GensFacts DEF RemoveRows, LiveOrZero
  <1>3. docs' = [docs EXCEPT ![g] =
                    [k \in Keys |-> IF k \in R THEN NoRow ELSE docs[g][k]]]
    BY DEF RemoveRows
  <1>4. [k \in Keys |-> IF k \in R THEN NoRow ELSE docs[g][k]] \in Docs
    BY <1>1, NoRowsTyped DEF Docs, NoRows
  <1>5. docs'[g] = [k \in Keys |-> IF k \in R THEN NoRow ELSE docs[g][k]]
    BY <1>1, <1>3
  <1>6. done => docs'[g] = NoRows
    <2>1. ASSUME done, NEW k \in Keys PROVE docs'[g][k] = NoRow
      <3>1. R = Rows(g) BY <2>1 DEF RemoveRows
      <3> QED BY <1>5, <3>1 DEF Rows
    <2> QED BY <1>5, <2>1 DEF NoRows
  <1>7. docs[g] = NoRows => docs'[g] = NoRows BY <1>5 DEF NoRows
  <1>8. stamp' = IF done THEN [stamp EXCEPT ![g] = 0] ELSE stamp
    BY DEF RemoveRows
  <1>9. /\ \/ building' = building /\ ~(done /\ marker /\ building = g)
           \/ building' = NoGen /\ done /\ marker /\ building = g
        /\ applied' \in {0, applied}
    BY DEF RemoveRows
  <1>10. 0 \in 0..MaxEvents BY MaxEventsAssumption
  <1>11. docs' \in [Gens -> Docs] BY <1>1, <1>3, <1>4
  <1>12. \A h \in Gens : h # g => docs'[h] = docs[h] /\ stamp'[h] = stamp[h]
    BY <1>1, <1>3, <1>8
  <1>13. stamp' \in [Gens -> Versions \cup {0}] /\ (done => stamp'[g] = 0)
         /\ (stamp[g] = 0 => stamp'[g] = 0)
    BY <1>1, <1>8
  <1> QED BY <1>1, <1>2, <1>6, <1>7, <1>9, <1>10, <1>11, <1>12, <1>13

\* A batch of removal keeps what the views are for.
LEMMA RemoveRowsInv ==
    ASSUME IInv, NEW g \in Gens, NEW R \in SUBSET Keys, NEW done \in BOOLEAN,
           NEW marker \in BOOLEAN, RemoveRows(g, R, done, marker),
           UNCHANGED <<log, differing>>, SessionOK',
           Stored' \subseteq Stored /\ (done => g \notin Stored') => Local'
    PROVE  IInv'
  <1>1. /\ live' = live /\ g # live
        /\ docs' \in [Gens -> Docs] /\ stamp' \in [Gens -> Versions \cup {0}]
        /\ applied' \in 0..MaxEvents /\ building' \in Gens \cup {NoGen}
        /\ \A h \in Gens : h # g => docs'[h] = docs[h] /\ stamp'[h] = stamp[h]
        /\ stamp[g] = 0 /\ docs[g] = NoRows =>
               stamp'[g] = 0 /\ docs'[g] = NoRows
        /\ done => stamp'[g] = 0 /\ docs'[g] = NoRows
        /\ \/ building' = building /\ ~(done /\ marker /\ building = g)
           \/ building' = NoGen /\ done /\ marker /\ building = g
    BY RemoveRowsFacts
  <1>2. TypeOK' BY <1>1 DEF IInv, TypeOK, SessionOK, Results
  <1>3. Stored' \subseteq Stored /\ (done => g \notin Stored')
    <2>1. /\ \A h \in Gens : h \in Stored <=> stamp[h] # 0 \/ docs[h] # NoRows
          /\ Stored' \subseteq Gens
          /\ \A h \in Gens : h \in Stored' <=> stamp'[h] # 0 \/ docs'[h] # NoRows
      <3>1. \A h \in Gens : docs[h] \in Docs /\ docs'[h] \in Docs
        BY <1>1 DEF IInv, TypeOK
      <3> QED BY <3>1, NoRowIsNoRows DEF Stored, Rows
    <2>2. Stored \subseteq Gens BY DEF Stored
    <2> QED BY <1>1, <2>1, <2>2
  <1>4. Local' BY <1>3
  <1>5. Fresh' BY <1>1 DEF IInv, Fresh
  <1>6. Above' BY <1>1 DEF IInv, Above
  <1>7. Bounded'
    <2>1. LiveOrZero' = LiveOrZero BY <1>1 DEF LiveOrZero
    <2> QED BY <1>1, <1>3, <2>1 DEF IInv, Bounded
  <1>8. LiveIsProjected'
    <2>1. live # NoGen => live \in Gens BY DEF IInv, TypeOK
    <2> QED BY <1>1, <2>1 DEF IInv, LiveIsProjected
  <1>9. VerifyFindsNoDifference' BY DEF IInv, VerifyFindsNoDifference
  <1> QED BY <1>2, <1>4, <1>5, <1>6, <1>7, <1>8, <1>9 DEF IInv

LEMMA RemovalBusy ==
    ASSUME IInv, session.pc \in Steps
    PROVE  session \in Sessions /\ session # Idle("rebuilt")
  <1>1. SessionOK BY DEF IInv, TypeOK, SessionOK, Results
  <1>2. session.pc # "idle" BY DEF Steps
  <1> QED BY <1>1, <1>2, BusyFields

\* The orphan a crash left goes, and with its last batch the marker.
LEMMA RemoveOrphanInv ==
    ASSUME IInv, NEW R \in SUBSET Keys, NEW done \in BOOLEAN, RemoveOrphan(R, done)
    PROVE  IInv'
  <1>1. session.pc = "orphan" /\ UNCHANGED <<log, differing>>
    BY DEF RemoveOrphan, At
  <1>2. session \in Sessions /\ session # Idle("rebuilt")
    BY <1>1, RemovalBusy DEF Steps
  <1>3. /\ building = session.gen /\ building \in Gens
        /\ session.doing = "rebuild"
    BY <1>1 DEF IInv, TypeOK, Local, Working
  <1>4. RemoveRows(session.gen, R, done, TRUE) BY DEF RemoveOrphan
  <1>5. IF done THEN building' = NoGen ELSE building' = building
    BY <1>3, <1>4, RemoveRowsFacts, ZenonT(60)
  <1>6. CASE done
    <2>1. /\ session' \in Sessions /\ session'.pc = "presweep"
          /\ session'.doing = "rebuild" /\ session' # Idle("rebuilt")
      BY <1>2, <1>3, <1>6, Goes DEF RemoveOrphan, Steps
    <2>2. Local'
      BY <1>5, <1>6, <2>1
      DEF Local, BuildingIsPrefix, Working, SweptBelow, Rebuilt
    <2> QED BY <1>1, <1>3, <1>4, <2>1, <2>2, RemoveRowsInv DEF SessionOK
  <1>7. CASE ~done
    <2>1. session' = session BY <1>7 DEF RemoveOrphan
    <2>2. Local'
      BY <1>1, <1>2, <1>3, <1>5, <1>7, <2>1
      DEF IInv, Local, BuildingIsPrefix, Working, SweptBelow, Rebuilt
    <2> QED BY <1>1, <1>2, <1>3, <1>4, <2>1, <2>2, RemoveRowsInv DEF SessionOK
  <1> QED BY <1>6, <1>7

\* A verification removes its scratch generation.
LEMMA RemoveScratchInv ==
    ASSUME IInv, NEW R \in SUBSET Keys, NEW done \in BOOLEAN, RemoveScratch(R, done)
    PROVE  IInv'
  <1>1. session.pc = "remove" /\ UNCHANGED <<log, differing>>
    BY DEF RemoveScratch, At
  <1>2. session \in Sessions /\ session # Idle("rebuilt")
    BY <1>1, RemovalBusy DEF Steps
  <1>3. building = session.gen /\ building \in Gens
    BY <1>1 DEF IInv, TypeOK, Local, Working
  <1>4. RemoveRows(session.gen, R, done, TRUE) BY DEF RemoveScratch
  <1>5. ~done => building' = building BY <1>3, <1>4, RemoveRowsFacts
  <1>6. CASE done
    <2>1. SessionOK' /\ Local' BY <1>6, Ends DEF RemoveScratch, Results
    <2> QED BY <1>1, <1>3, <1>4, <2>1, RemoveRowsInv
  <1>7. CASE ~done
    <2>1. session' = session BY <1>7 DEF RemoveScratch
    <2>2. Local'
      BY <1>1, <1>2, <1>3, <1>5, <1>7, <2>1
      DEF IInv, Local, BuildingIsPrefix, Working, SweptBelow, Rebuilt
    <2> QED BY <1>1, <1>2, <1>3, <1>4, <2>1, <2>2, RemoveRowsInv DEF SessionOK
  <1> QED BY <1>6, <1>7

\* The cursor of a sweep passes a generation when nothing is left of it.
LEMMA SweepInv ==
    ASSUME IInv, NEW g \in Gens, NEW R \in SUBSET Keys, NEW done \in BOOLEAN,
           Sweep(g, R, done)
    PROVE  IInv'
  <1>1. /\ session.pc \in {"presweep", "postsweep"}
        /\ g \in Sweepable /\ \A h \in Sweepable : g <= h
        /\ RemoveRows(g, R, done, FALSE)
        /\ session' = IF done THEN [session EXCEPT !.after = g] ELSE session
        /\ UNCHANGED <<log, differing>>
    BY DEF Sweep
  <1>2. session \in Sessions /\ session # Idle("rebuilt")
    BY <1>1, RemovalBusy DEF Steps
  <1>3. /\ session' \in Sessions /\ session'.pc = session.pc
        /\ session'.doing = session.doing /\ session'.proc = session.proc
        /\ session'.gen = session.gen
        /\ session'.after = IF done THEN g ELSE session.after
    BY <1>1, <1>2 DEF Sessions
  <1>4. session' # Idle("rebuilt")
    BY <1>1, <1>3, IdleFields
  <1>5. building' = building /\ live' = live BY <1>1, RemoveRowsFacts
  <1>6. ASSUME Stored' \subseteq Stored, done => g \notin Stored',
               session.pc = "postsweep", NEW h \in Stored'
        PROVE  h > session'.after \/ h = live
    <2>1. /\ live # NoGen /\ building = NoGen
          /\ h > session.after \/ h = live
      BY <1>6 DEF IInv, Local, Working, SweptBelow
    <2>2. h \in Stored /\ h \in Gens /\ h # building
      BY <1>6, <2>1, GensFacts DEF Stored
    <2>3. LiveOrZero = live BY <2>1 DEF LiveOrZero
    <2>4. CASE h # live /\ done
      <3>1. h \in Sweepable BY <2>1, <2>2, <2>3, <2>4 DEF Sweepable
      <3>2. g <= h /\ g # h BY <1>1, <1>6, <2>4, <3>1
      <3> QED BY <1>3, <2>2, <2>4, <3>2, GensFacts
    <2> QED BY <2>1, <2>4, <1>3
  <1>7. ASSUME Stored' \subseteq Stored, done => g \notin Stored'
        PROVE  Local'
    <2>1. SweptBelow' BY <1>3, <1>5, <1>6, <1>7 DEF IInv, Local, SweptBelow
    <2>2. BuildingIsPrefix' /\ Working' /\ Rebuilt'
      BY <1>1, <1>3, <1>4, <1>5
      DEF IInv, Local, BuildingIsPrefix, Working, Rebuilt
    <2> QED BY <2>1, <2>2 DEF Local
  <1> QED BY <1>1, <1>3, <1>7, RemoveRowsInv DEF SessionOK

\* The new generation is above everything stored and holds nothing yet.
LEMMA CreateInv ==
    ASSUME IInv, NEW n \in Gens, Create(n)
    PROVE  IInv'
  <1>1. /\ session.pc = "create" /\ UNCHANGED <<log, differing, docs>>
        /\ live' = LiveOrZero /\ building' = n /\ applied' = 0
        /\ stamp' = [stamp EXCEPT ![n] = Version[session.proc]]
        /\ session' = [session EXCEPT !.pc = "replay", !.gen = n]
        /\ \A g \in Stored \cup {LiveOrZero} : g < n
    BY DEF Create, At, IsNextGeneration
  <1>2. session \in Sessions /\ session # Idle("rebuilt")
    BY <1>1, RemovalBusy DEF Steps
  <1>3. /\ Version[session.proc] \in Versions /\ Version[session.proc] # 0
        /\ building = NoGen
        /\ session.doing = "verify" =>
               live # NoGen /\ stamp[live] = Version[session.proc]
    BY <1>1, <1>2, GensFacts DEF Sessions, IInv, Local, Working
  <1>4. /\ session' \in Sessions /\ session'.pc = "replay" /\ session'.gen = n
        /\ session'.proc = session.proc /\ session'.doing = session.doing
    BY <1>1, <1>2 DEF Sessions, Steps
  <1>5. session' # Idle("rebuilt") BY <1>4, IdleFields
  <1>6. /\ LiveOrZero \in Gens /\ LiveOrZero < n /\ n \notin Stored
        /\ (live # NoGen => LiveOrZero = live)
        /\ \A g \in Gens : g \in Stored <=> stamp[g] # 0 \/ docs[g] # NoRows
        /\ live = NoGen => Stored = {}
    BY <1>1, StoredFacts, GensFacts DEF IInv
  <1>7. docs[n] = NoRows BY <1>6
  <1>8. live' # NoGen /\ live' \in Gens /\ live' # n /\ LiveOrZero' = LiveOrZero
    BY <1>1, <1>6, GensFacts DEF LiveOrZero
  <1>9. /\ stamp'[n] = Version[session.proc]
        /\ \A g \in Gens : g # n => stamp'[g] = stamp[g]
    BY <1>1 DEF IInv, TypeOK
  <1>10. TypeOK'
    <2>1. stamp' \in [Gens -> Versions \cup {0}] BY <1>1, <1>3 DEF IInv, TypeOK
    <2>2. 0 \in 0..MaxEvents BY MaxEventsAssumption
    <2> QED BY <1>1, <1>4, <1>8, <2>1, <2>2 DEF IInv, TypeOK
  <1>11. \A g \in Stored' : g \in Stored \/ g = n
    <2>1. \A g \in Gens : docs[g] \in Docs BY DEF IInv, TypeOK
    <2> QED BY <1>1, <1>9, <2>1 DEF Stored, Rows
  <1>12. Fresh' /\ Above' /\ VerifyFindsNoDifference'
    BY <1>1, <1>6, <1>8
    DEF IInv, Fresh, Above, VerifyFindsNoDifference
  <1>13. Bounded'
    BY <1>1, <1>3, <1>8, <1>11, GensFacts DEF IInv, Bounded, Stored
  <1>14. LiveIsProjected'
    <2>1. CASE live = NoGen
      <3>1. stamp[LiveOrZero] = 0 BY <1>6, <2>1
      <3>2. stamp'[live'] = 0 BY <1>1, <1>6, <1>8, <1>9, <3>1
      <3> QED BY <3>2 DEF LiveIsProjected
    <2>2. CASE live # NoGen
      <3>1. live' = live BY <2>2, <1>1, <1>6
      <3>2. stamp'[live] = stamp[live] BY <1>8, <1>9, <3>1
      <3> QED BY <1>1, <2>2, <3>1, <3>2 DEF IInv, LiveIsProjected
    <2> QED BY <2>1, <2>2
  <1>15. Local'
    <2>1. docs'[n] = Projected(log, 0, stamp'[n])
      BY <1>1, <1>7, ProjectedNothing
    <2>2. Len(log) \in Nat BY DEF IInv, TypeOK
    <2>3. BuildingIsPrefix'
      BY <1>1, <1>4, <1>8, <1>9, <2>1, <2>2 DEF BuildingIsPrefix
    <2>4. session.doing = "verify" => stamp'[live'] = Version[session.proc]
      BY <1>1, <1>3, <1>6, <1>8, <1>9
    <2>5. n # NoGen BY GensFacts
    <2>6. Working' BY <1>1, <1>4, <1>8, <2>4, <2>5 DEF Working
    <2>7. SweptBelow' /\ Rebuilt' BY <1>4, <1>5 DEF SweptBelow, Rebuilt
    <2> QED BY <2>3, <2>6, <2>7 DEF Local
  <1> QED BY <1>10, <1>12, <1>13, <1>14, <1>15 DEF IInv

-----------------------------------------------------------------------------
(* Replay, the flip, the comparison, and commands                          *)

\* A batch takes the generation from one prefix of the log to a longer one.
LEMMA ReplayFacts ==
    ASSUME IInv, session.pc \in {"replay", "pin"}, NEW last \in 0..Len(log),
           Replay(last)
    PROVE  /\ session \in Sessions /\ session # Idle("rebuilt")
           /\ Version[session.proc] \in Versions
           /\ building = session.gen /\ building \in Gens /\ building # NoGen
           /\ live \in Gens /\ live # NoGen /\ building > live
           /\ stamp' = stamp /\ stamp[building] = Version[session.proc]
           /\ docs' \in [Gens -> Docs]
           /\ docs'[building] = Projected(log, last, stamp[building])
           /\ \A g \in Gens : g # building => docs'[g] = docs[g]
           /\ last \in 0..MaxEvents
  <1>1. session \in Sessions /\ session # Idle("rebuilt")
    BY RemovalBusy DEF Steps
  <1>2. Version[session.proc] \in Versions BY <1>1, GensFacts DEF Sessions
  <1>3. /\ building = session.gen /\ building # NoGen /\ building \in Gens
        /\ live # NoGen /\ live \in Gens /\ building > live
    BY DEF IInv, TypeOK, Local, Working, Above
  <1>4. /\ stamp[building] = Version[session.proc] /\ applied <= Len(log)
        /\ docs[building] = Projected(log, applied, stamp[building])
    BY DEF IInv, Local, BuildingIsPrefix
  <1>5. /\ applied \in Nat /\ Len(log) \in Nat /\ Len(log) <= MaxEvents
        /\ docs \in [Gens -> Docs] /\ MaxEvents \in Nat
    BY MaxEventsAssumption DEF IInv, TypeOK
  <1>6. /\ applied <= last /\ stamp' = stamp
        /\ docs' = [docs EXCEPT ![building] =
                        Fold(docs[building], log, applied, last,
                             Version[session.proc])]
    BY <1>5 DEF Replay
  <1>7. Fold(docs[building], log, applied, last, Version[session.proc])
            = Projected(log, last, Version[session.proc])
    BY <1>2, <1>4, <1>5, <1>6, ProjectedMore
  <1>8. Projected(log, last, Version[session.proc]) \in Docs
    BY <1>2, ProjectedTyped
  <1> QED BY <1>1, <1>2, <1>3, <1>4, <1>5, <1>6, <1>7, <1>8

\* A batch that neither flips nor compares.
LEMMA ReplayOnInv ==
    ASSUME IInv, session.pc \in {"replay", "pin"}, NEW last \in 0..Len(log),
           Replay(last), applied' = last, UNCHANGED <<log, live, building>>,
           differing' = {}, SessionOK', session' # Idle("rebuilt"),
           session'.pc \in {"replay", "pin", "remove"},
           session'.pc = "pin" => session.doing = "verify",
           session'.gen = session.gen, session'.proc = session.proc,
           session'.doing = session.doing
    PROVE  IInv'
  <1>1. /\ session \in Sessions /\ session # Idle("rebuilt")
        /\ Version[session.proc] \in Versions
        /\ building = session.gen /\ building \in Gens /\ building # NoGen
        /\ live \in Gens /\ live # NoGen /\ building > live
        /\ stamp' = stamp /\ stamp[building] = Version[session.proc]
        /\ docs' \in [Gens -> Docs]
        /\ docs'[building] = Projected(log, last, stamp[building])
        /\ \A g \in Gens : g # building => docs'[g] = docs[g]
        /\ last \in 0..MaxEvents
    BY ReplayFacts
  <1>2. Len(log) \in Nat /\ last <= Len(log) BY DEF IInv, TypeOK
  <1>3. TypeOK' BY <1>1, <1>2 DEF IInv, TypeOK, SessionOK, Results
  <1>4. live # building BY <1>1, GensFacts
  <1>5. LiveIsProjected' BY <1>1, <1>4 DEF IInv, LiveIsProjected
  <1>6. Fresh' /\ Above' /\ VerifyFindsNoDifference'
    BY <1>1 DEF IInv, Fresh, Above, VerifyFindsNoDifference
  <1>7. Bounded'
    <2>1. \A g \in Stored' : g \in Stored \/ g = building
      BY <1>1 DEF Stored, Rows
    <2> QED BY <2>1 DEF IInv, Bounded, LiveOrZero
  <1>8. Local'
    <2>1. BuildingIsPrefix' BY <1>1, <1>2, <1>4 DEF BuildingIsPrefix
    <2>2. Working' BY <1>1 DEF IInv, Local, Working
    <2>3. SweptBelow' /\ Rebuilt' BY DEF SweptBelow, Rebuilt
    <2> QED BY <2>1, <2>2, <2>3 DEF Local
  <1> QED BY <1>3, <1>5, <1>6, <1>7, <1>8 DEF IInv

LEMMA ReplayBatchInv ==
    ASSUME IInv, NEW last \in 0..Len(log), ReplayBatch(last)
    PROVE  IInv'
  <1>1. /\ session.pc = "replay" /\ Replay(last) /\ applied' = last
        /\ UNCHANGED <<log, live, building, session>> /\ differing' = {}
    BY DEF ReplayBatch, At, IInv, VerifyFindsNoDifference
  <1>2. session \in Sessions /\ session # Idle("rebuilt")
    BY <1>1, RemovalBusy DEF Steps
  <1> QED BY <1>1, <1>2, ReplayOnInv DEF SessionOK

LEMMA CaughtUpInv ==
    ASSUME IInv, NEW last \in 0..Len(log), CaughtUp(last)
    PROVE  IInv'
  <1>1. /\ session.pc = "replay" /\ Replay(last) /\ applied' = last
        /\ UNCHANGED <<log, live, building>> /\ differing' = {}
        /\ GoTo("pin") /\ session.doing = "verify"
    BY DEF CaughtUp, At, IInv, VerifyFindsNoDifference
  <1>2. session \in Sessions BY <1>1, RemovalBusy DEF Steps
  <1>3. /\ session' \in Sessions /\ session'.pc = "pin"
        /\ session'.proc = session.proc /\ session'.doing = session.doing
        /\ session'.gen = session.gen /\ session' # Idle("rebuilt")
    BY <1>1, <1>2, Goes DEF Steps
  <1> QED BY <1>1, <1>3, ReplayOnInv DEF SessionOK

\* The comparison is of two projections of one log by one version.
LEMMA PinInv ==
    ASSUME IInv, NEW last \in 0..Len(log), Pin(last)
    PROVE  IInv'
  <1>1. /\ session.pc = "pin" /\ Replay(last) /\ applied' = last
        /\ UNCHANGED <<log, live, building>> /\ session.doing = "verify"
    BY DEF Pin, IInv, Local, Working
  <1>2. session \in Sessions BY <1>1, RemovalBusy DEF Steps
  <1>3. CASE last = Len(log)
    <2>1. differing' = {k \in Keys : docs'[building][k] # docs[live][k]}
          /\ GoTo("remove")
      BY <1>3 DEF Pin
    <2>2. /\ docs'[building] = Projected(log, last, stamp[building])
          /\ stamp[building] = Version[session.proc]
          /\ Version[session.proc] \in Versions /\ live # NoGen
      BY <1>1, ReplayFacts
    <2>3. stamp[live] = Version[session.proc]
      BY <1>1 DEF IInv, Local, Working
    <2>4. docs[live] = Projected(log, Len(log), stamp[live])
      BY <2>2, <2>3, GensFacts DEF IInv, LiveIsProjected
    <2>5. differing' = {} BY <1>3, <2>1, <2>2, <2>3, <2>4
    <2>6. /\ session' \in Sessions /\ session'.pc = "remove"
          /\ session'.proc = session.proc /\ session'.doing = session.doing
          /\ session'.gen = session.gen /\ session' # Idle("rebuilt")
      BY <1>2, <2>1, Goes DEF Steps
    <2> QED BY <1>1, <2>5, <2>6, ReplayOnInv DEF SessionOK
  <1>4. CASE last # Len(log)
    <2>1. UNCHANGED <<differing, session>> BY <1>4 DEF Pin
    <2>2. session # Idle("rebuilt") BY <1>1, RemovalBusy DEF Steps
    <2>3. differing' = {} BY <2>1 DEF IInv, VerifyFindsNoDifference
    <2> QED BY <1>1, <1>2, <2>1, <2>2, <2>3, ReplayOnInv DEF SessionOK
  <1> QED BY <1>3, <1>4

\* The flip: the whole log is in the generation that becomes live.
LEMMA FinishInv ==
    ASSUME IInv, NEW last \in 0..Len(log), Finish(last)
    PROVE  IInv'
  <1>1. /\ session.pc = "replay" /\ Replay(last) /\ last = Len(log)
        /\ live' = building /\ building' = NoGen /\ applied' = 0
        /\ UNCHANGED <<log, differing>>
        /\ session' = [session EXCEPT !.pc = "postsweep", !.after = NoGen]
    BY DEF Finish, At, Postsweep
  <1>2. /\ session \in Sessions /\ session # Idle("rebuilt")
        /\ building \in Gens /\ building # NoGen
        /\ live \in Gens /\ live # NoGen /\ building > live
        /\ stamp' = stamp
        /\ docs' \in [Gens -> Docs]
        /\ docs'[building] = Projected(log, last, stamp[building])
        /\ \A g \in Gens : g # building => docs'[g] = docs[g]
    BY <1>1, ReplayFacts
  <1>3. /\ session' \in Sessions /\ session'.pc = "postsweep"
        /\ session'.after = NoGen
    BY <1>1, <1>2 DEF Sessions, Steps
  <1>4. session' # Idle("rebuilt") BY <1>3, IdleFields
  <1>5. TypeOK'
    <2>1. 0 \in 0..MaxEvents BY MaxEventsAssumption
    <2> QED BY <1>1, <1>2, <1>3, <2>1 DEF IInv, TypeOK
  <1>6. LiveIsProjected' BY <1>1, <1>2 DEF LiveIsProjected
  <1>7. Fresh' /\ Above' /\ VerifyFindsNoDifference'
    BY <1>1, <1>2 DEF IInv, Fresh, Above, VerifyFindsNoDifference
  <1>8. \A g \in Stored' : g \in Gens /\ (g \in Stored \/ g = building)
    BY <1>1, <1>2 DEF Stored, Rows
  <1>9. Bounded'
    <2>1. LiveOrZero = live /\ LiveOrZero' = building
      BY <1>1, <1>2 DEF LiveOrZero
    <2>2. ASSUME NEW g \in Stored' PROVE g <= building
      BY <1>2, <1>8, <2>1, <2>2, GensFacts DEF IInv, Bounded
    <2> QED BY <2>1, <2>2 DEF Bounded
  <1>10. Local'
    <2>1. SweptBelow' BY <1>1, <1>2, <1>3, <1>8, GensFacts DEF SweptBelow
    <2>2. BuildingIsPrefix' /\ Working' /\ Rebuilt'
      BY <1>1, <1>3, <1>4 DEF BuildingIsPrefix, Working, Rebuilt
    <2> QED BY <2>1, <2>2 DEF Local
  <1> QED BY <1>5, <1>6, <1>7, <1>9, <1>10 DEF IInv

\* A command folds its event into the live generation only.
LEMMA CommandInv ==
    ASSUME IInv, NEW p \in Procs, NEW e \in Events, Command(p, e)
    PROVE  IInv'
  <1>1. /\ live # NoGen /\ stamp[live] = Version[p]
        /\ Len(log) < MaxEvents /\ log' = Append(log, e)
        /\ docs' = [docs EXCEPT ![live] =
                        Fold(docs[live], log', Len(log), Len(log'), Version[p])]
        /\ UNCHANGED <<live, building, applied, stamp, session, differing>>
    BY DEF Command, JudgeSet
  <1>2. /\ log \in Seq(Events) /\ Len(log) \in Nat /\ MaxEvents \in Nat
        /\ live \in Gens /\ docs \in [Gens -> Docs]
        /\ Version[p] \in Versions /\ Version[p] # 0
    BY <1>1, GensFacts, MaxEventsAssumption DEF IInv, TypeOK
  <1>3. log' \in Seq(Events) /\ Len(log') = Len(log) + 1 BY <1>1, <1>2
  <1>4. docs[live] = Projected(log, Len(log), Version[p])
    BY <1>1, <1>2 DEF IInv, LiveIsProjected
  <1>5. \A n \in 0..Len(log), v \in Versions :
            Projected(log', n, v) = Projected(log, n, v)
    BY <1>1, <1>2, ProjectedAppend
  <1>6. Fold(docs[live], log', Len(log), Len(log'), Version[p])
            = Projected(log', Len(log'), Version[p])
    BY <1>2, <1>3, <1>4, <1>5, ProjectedMore
  <1>7. /\ docs'[live] = Projected(log', Len(log'), Version[p])
        /\ \A g \in Gens : g # live => docs'[g] = docs[g]
        /\ docs' \in [Gens -> Docs]
    <2>1. Projected(log', Len(log'), Version[p]) \in Docs
      BY <1>2, ProjectedTyped
    <2> QED BY <1>1, <1>2, <1>6, <2>1
  <1>8. TypeOK'
    <2>1. Len(log') <= MaxEvents BY <1>1, <1>2, <1>3
    <2> QED BY <1>1, <1>3, <1>7, <2>1 DEF IInv, TypeOK
  <1>9. Stored' = Stored
    <2>1. live \in Stored BY <1>1, <1>2 DEF Stored
    <2> QED BY <1>1, <1>2, <1>7, <2>1 DEF Stored, Rows
  <1>10. LiveIsProjected' BY <1>1, <1>7 DEF LiveIsProjected
  <1>11. /\ Fresh' /\ Above' /\ VerifyFindsNoDifference' /\ Bounded'
    BY <1>1, <1>9
    DEF IInv, Fresh, Above, VerifyFindsNoDifference, Bounded, LiveOrZero
  <1>12. Working' /\ SweptBelow' /\ Rebuilt'
    BY <1>1, <1>9 DEF IInv, Local, Working, SweptBelow, Rebuilt
  <1>13. BuildingIsPrefix'
    <2> SUFFICES ASSUME session.pc \in {"replay", "pin"}
                 PROVE  BuildingIsPrefix'
      BY <1>1 DEF BuildingIsPrefix
    <2>1. /\ building = session.gen /\ building # live
          /\ stamp[building] = Version[session.proc] /\ applied <= Len(log)
          /\ docs[building] = Projected(log, applied, stamp[building])
          /\ building # NoGen /\ building \in Gens /\ applied \in Nat
      BY DEF IInv, TypeOK, Local, BuildingIsPrefix, Working
    <2>2. stamp[building] \in Versions
      <3>1. session \in Sessions BY RemovalBusy DEF Steps
      <3> QED BY <2>1, <3>1, GensFacts DEF Sessions
    <2>3. Projected(log', applied, stamp[building])
              = Projected(log, applied, stamp[building])
      BY <1>2, <1>5, <2>1, <2>2
    <2>4. docs'[building] = docs[building] BY <1>7, <2>1
    <2> QED BY <1>1, <1>2, <1>3, <2>1, <2>3, <2>4 DEF BuildingIsPrefix
  <1> QED BY <1>8, <1>10, <1>11, <1>12, <1>13 DEF IInv, Local

-----------------------------------------------------------------------------
\* Every step keeps the invariant.
LEMMA NextInv == IInv /\ [Next]_vars => IInv'
  <1> SUFFICES ASSUME IInv, [Next]_vars PROVE IInv'
    OBVIOUS
  <1>1. CASE UNCHANGED vars
    <2>1. UNCHANGED <<log, views, session, differing>>
      BY <1>1 DEF vars, views
    <2>2. Stored' = Stored BY <2>1 DEF views, Stored, Rows
    <2>3. SessionOK' /\ Local'
      BY <2>1, <2>2
      DEF IInv, TypeOK, SessionOK, Results, Local, BuildingIsPrefix, Working,
          SweptBelow, Rebuilt, views
    <2> QED BY <2>1, <2>3, SessionOnly
  <1>2. ASSUME NEW p \in Procs, GuardStamps(p)
        PROVE  IInv'
    <2>1. StampEmpty(p) /\ UNCHANGED <<log, differing, session>>
      BY <1>2 DEF GuardStamps, StampEmpty
    <2>2. SessionOK' BY <2>1 DEF IInv, TypeOK, SessionOK, Results
    <2> QED BY <2>1, <2>2, StampEmptyInv
  <1>3. CASE Stamp
    <2>1. /\ session.pc = "stamp" /\ StampEmpty(session.proc) /\ Forwarded
          /\ UNCHANGED <<log, differing>>
      BY <1>3 DEF Stamp, At
    <2>2. session \in Sessions BY <2>1, RemovalBusy DEF Steps
    <2>3. PICK p \in Procs : p = session.proc BY <2>2 DEF Sessions
    <2>4. StampEmpty(p) BY <2>1, <2>3
    <2>5. SessionOK' /\ Local' BY <2>1, <2>2, Forwards
    <2> QED BY <2>1, <2>4, <2>5, StampEmptyInv
  <1>4. ASSUME NEW p \in Procs,
               BeginRebuild(p) \/ BeginVerify(p) \/ BeginCatchUp(p)
        PROVE  IInv'
    BY <1>4, BeginInv DEF BeginRebuild, BeginVerify, BeginCatchUp, Wants
  <1>5. CASE RemovalStep
    BY <1>5, RemoveOrphanInv, SweepInv, RemoveScratchInv DEF RemovalStep
  <1>6. CASE ReplayStep
    BY <1>6, ReplayBatchInv, FinishInv, CaughtUpInv, PinInv DEF ReplayStep
  <1>7. CASE SessionStep
    BY <1>3, <1>5, <1>6, <1>7, ReadyInv, StartInv, SweptInv, CreateInv, StopsInv
    DEF SessionStep
  <1> QED BY <1>1, <1>2, <1>4, <1>7, CommandInv, StopsInv DEF Next

LEMMA InitInv == Init => IInv
  <1> SUFFICES ASSUME Init PROVE IInv
    OBVIOUS
  <1>1. session = Idle("none") BY DEF Init
  <1>2. session.pc = "idle" /\ session # Idle("rebuilt") BY <1>1, IdleFields
  <1>3. TypeOK
    <2>1. log \in Seq(Events) /\ Len(log) = 0 /\ 0 \in 0..MaxEvents
      BY MaxEventsAssumption DEF Init
    <2> QED BY <1>1, <2>1, NoRowsTyped, MaxEventsAssumption DEF Init, TypeOK
  <1>4. \A g \in Gens : Rows(g) = {} /\ stamp[g] = 0
    BY NoRowsTyped DEF Init, Rows
  <1>5. Stored = {} BY <1>4 DEF Stored
  <1> QED BY <1>2, <1>3, <1>5
          DEF Init, IInv, Fresh, Above, Bounded, LiveIsProjected,
              VerifyFindsNoDifference, Local, BuildingIsPrefix, Working,
              SweptBelow, Rebuilt

\* The invariant holds in every reachable state.
THEOREM SpecInv == Spec => []IInv
  BY InitInv, NextInv, PTL DEF Spec

\* The live generation is the whole log as its version projects it, and the
\* one being built is a prefix of it, through every interleaving of commands
\* with batches, flips, removals and crashes (rebuild.rs).
THEOREM GenerationsKept == Spec => []GenerationsInv
  <1>1. IInv => GenerationsInv BY DEF IInv, Local, GenerationsInv
  <1> QED BY <1>1, SpecInv, PTL

\* verify_views finds no difference in views this code made.
THEOREM NothingDiffers == Spec => []VerifyFindsNoDifference
  <1>1. IInv => VerifyFindsNoDifference BY DEF IInv
  <1> QED BY <1>1, SpecInv, PTL

\* A rebuild that reports success left the live generation alone, and what
\* crashes leave is below it or named by the marker.
THEOREM NothingElseStored == Spec => []OneGenerationLeft
  <1>1. IInv => OneGenerationLeft
    BY DEF IInv, Local, Rebuilt, Bounded, OneGenerationLeft
  <1> QED BY <1>1, SpecInv, PTL

-----------------------------------------------------------------------------
(* What readers see *)

\* The steps that change the live generation, its stamp, its documents or
\* the log.
LEMMA LiveSteps ==
    ASSUME IInv, [Next]_vars
    PROVE  \/ \E p \in Procs, e \in Events : Command(p, e)
           \/ \E p \in Procs : StampEmpty(p) /\ log' = log
           \/ \E n \in Gens : Create(n)
           \/ \E last \in 0..Len(log) : Finish(last)
           \/ /\ UNCHANGED <<log, live>>
              /\ live # NoGen => docs'[live] = docs[live] /\ stamp'[live] = stamp[live]
  <1> DEFINE Same == /\ UNCHANGED <<log, live>>
                     /\ live # NoGen => /\ docs'[live] = docs[live]
                                        /\ stamp'[live] = stamp[live]
  <1>1. UNCHANGED <<log, views>> => Same BY DEF views
  <1>2. CASE UNCHANGED vars BY <1>2 DEF vars
  <1>3. ASSUME NEW p \in Procs, GuardStamps(p)
        PROVE  StampEmpty(p) /\ log' = log
    BY <1>3 DEF GuardStamps, StampEmpty
  <1>4. CASE Stamp
    <2>1. session.pc = "stamp" /\ StampEmpty(session.proc) /\ log' = log
      BY <1>4 DEF Stamp, At
    <2>2. session.proc \in Procs BY <2>1, RemovalBusy DEF Steps, Sessions
    <2> QED BY <2>1, <2>2
  <1>5. ASSUME NEW p \in Procs,
               BeginRebuild(p) \/ BeginVerify(p) \/ BeginCatchUp(p)
        PROVE  Same
    BY <1>1, <1>5 DEF BeginRebuild, BeginVerify, BeginCatchUp, Begin
  <1>6. live # NoGen => live \in Gens BY DEF IInv, TypeOK
  <1>7. ASSUME NEW g \in Gens, NEW R \in SUBSET Keys, NEW done \in BOOLEAN,
               NEW marker \in BOOLEAN, RemoveRows(g, R, done, marker), log' = log
        PROVE  Same
    BY <1>6, <1>7, RemoveRowsFacts
  <1>8. CASE RemovalStep
    <2>1. PICK R \in SUBSET Keys, done \in BOOLEAN :
              \/ RemoveOrphan(R, done)
              \/ \E g \in Gens : Sweep(g, R, done)
              \/ RemoveScratch(R, done)
      BY <1>8 DEF RemovalStep
    <2>2. CASE RemoveOrphan(R, done)
      <3>1. session.pc = "orphan" /\ log' = log
            /\ RemoveRows(session.gen, R, done, TRUE)
        BY <2>2 DEF RemoveOrphan, At
      <3>2. session.gen \in Gens
        BY <3>1 DEF IInv, TypeOK, Local, Working
      <3> QED BY <1>7, <3>1, <3>2
    <2>3. CASE RemoveScratch(R, done)
      <3>1. session.pc = "remove" /\ log' = log
            /\ RemoveRows(session.gen, R, done, TRUE)
        BY <2>3 DEF RemoveScratch, At
      <3>2. session.gen \in Gens
        BY <3>1 DEF IInv, TypeOK, Local, Working
      <3> QED BY <1>7, <3>1, <3>2
    <2>4. CASE \E g \in Gens : Sweep(g, R, done)
      BY <1>7, <2>4 DEF Sweep
    <2> QED BY <2>1, <2>2, <2>3, <2>4
  <1>9. ASSUME NEW last \in 0..Len(log),
               ReplayBatch(last) \/ CaughtUp(last) \/ Pin(last)
        PROVE  Same
    <2>1. /\ session.pc \in {"replay", "pin"} /\ Replay(last)
          /\ UNCHANGED <<log, live>>
      BY <1>9 DEF ReplayBatch, CaughtUp, Pin, At
    <2>2. /\ building > live /\ live \in Gens /\ building \in Gens
          /\ \A g \in Gens : g # building => docs'[g] = docs[g]
          /\ stamp' = stamp
      BY <2>1, ReplayFacts
    <2>3. live # building BY <2>2, GensFacts
    <2> QED BY <2>1, <2>2, <2>3
  <1>10. CASE Ready \/ Start \/ Swept \/ CreateFails \/ ReplayUnreadable
              \/ AbandonReplay \/ Crash
    BY <1>1, <1>10 DEF Ready, Start, Swept, CreateFails, ReplayUnreadable,
                       AbandonReplay, Crash, At
  <1> QED BY <1>2, <1>3, <1>4, <1>5, <1>8, <1>9, <1>10
          DEF Next, SessionStep, ReplayStep, vars

\* A new binary's stamp on an empty project, seen by readers.
LEMMA StampFacts ==
    ASSUME IInv, NEW p \in Procs, StampEmpty(p)
    PROVE  \/ /\ live = NoGen /\ log = << >> /\ live' = 0 /\ 0 \in Gens
              /\ stamp'[0] = Version[p] /\ docs'[0] = NoRows
           \/ UNCHANGED views
  <1>1. CASE live = NoGen /\ log = << >>
    <2>1. docs[0] = NoRows BY <1>1, GensFacts DEF IInv, Fresh
    <2> QED BY <1>1, <2>1, GensFacts DEF StampEmpty, IInv, TypeOK
  <1> QED BY <1>1 DEF StampEmpty

\* What Create makes of the live generation: its row, if there was none.
LEMMA CreateFacts ==
    ASSUME IInv, NEW n \in Gens, Create(n)
    PROVE  /\ log' = log /\ docs' = docs
           /\ \/ live # NoGen /\ live' = live /\ stamp'[live] = stamp[live]
              \/ live = NoGen /\ live' = 0 /\ stamp'[0] = 0 /\ docs[0] = NoRows
  <1>1. /\ log' = log /\ docs' = docs /\ live' = LiveOrZero
        /\ stamp' = [stamp EXCEPT ![n] = Version[session.proc]]
        /\ LiveOrZero < n
    BY DEF Create, At, IsNextGeneration
  <1>2. LiveOrZero \in Gens /\ LiveOrZero # n /\ stamp \in [Gens -> Versions \cup {0}]
    BY <1>1, StoredFacts, GensFacts DEF IInv, TypeOK
  <1>3. stamp'[LiveOrZero] = stamp[LiveOrZero] BY <1>1, <1>2
  <1>4. live = NoGen => stamp[0] = 0 /\ docs[0] = NoRows
    BY GensFacts DEF IInv, Fresh
  <1> QED BY <1>1, <1>3, <1>4 DEF LiveOrZero

\* The live generation's number never comes back: a flip moves it up
\* (start's next_generation, finish).
THEOREM LiveOnlyGrows == Spec => LiveGenerationGrows
  <1>1. IInv /\ [Next]_vars => [live' >= live]_live
    <2> SUFFICES ASSUME IInv, [Next]_vars PROVE live' >= live \/ live' = live
      OBVIOUS
    <2>1. live \in Gens \cup {NoGen} BY DEF IInv, TypeOK
    <2>2. ASSUME NEW p \in Procs, StampEmpty(p)
          PROVE  live' >= live \/ live' = live
      BY <2>2, StampFacts, GensFacts DEF views
    <2>3. ASSUME NEW n \in Gens, Create(n)
          PROVE  live' >= live \/ live' = live
      BY <2>3, CreateFacts, GensFacts
    <2>4. ASSUME NEW last \in 0..Len(log), Finish(last)
          PROVE  live' >= live
      <3>1. session.pc = "replay" /\ Replay(last) /\ live' = building
        BY <2>4 DEF Finish, At
      <3>2. building \in Gens /\ live \in Gens /\ building > live
        BY <3>1, ReplayFacts
      <3> QED BY <3>1, <3>2, GensFacts
    <2>5. ASSUME NEW p \in Procs, NEW e \in Events, Command(p, e)
          PROVE  live' = live
      BY <2>5 DEF Command
    <2> QED BY <2>2, <2>3, <2>4, <2>5, LiveSteps
  <1> QED BY <1>1, SpecInv, PTL DEF Spec, LiveGenerationGrows

\* Views projects as this module does.
LEMMA OneProjection ==
    /\ Promise!NoRows = NoRows /\ Promise!Events = Events
    /\ \A l, n, v : Promise!Projected(l, n, v) = Projected(l, n, v)
  <1>1. Promise!NoRows = NoRows
    BY DEF Promise!NoRows, Promise!NoRow, Promise!Seqs, NoRows, NoRow, Seqs
  <1>2. Promise!Events = Events BY DEF Promise!Events, Events
  <1>3. ASSUME NEW l, NEW n, NEW v
        PROVE  Promise!Projected(l, n, v) = Projected(l, n, v)
    BY <1>1 DEF Promise!Projected, Promise!Fold, Promise!Puts, Promise!Deletes,
                Promise!Seqs, Projected, Fold, Puts, Deletes, Seqs
  <1> QED BY <1>1, <1>2, <1>3

\* Readers of the views see Views: commands record, a flip or a first stamp
\* changes version and documents at once, and nothing else is seen.
LEMMA StepRefines ==
    IInv /\ [Next]_vars => [Promise!Next]_<<log, ReadersVersion, ReadersView>>
  <1> SUFFICES ASSUME IInv, [Next]_vars
               PROVE  \/ Promise!Next
                      \/ UNCHANGED <<log, ReadersVersion, ReadersView>>
    OBVIOUS
  <1>1. live # NoGen => live \in Gens BY DEF IInv, TypeOK
  <1>2. ASSUME NEW p \in Procs, NEW e \in Events, Command(p, e)
        PROVE  Promise!Record(e)
    <2>1. /\ live # NoGen /\ stamp[live] = Version[p]
          /\ Len(log) < MaxEvents /\ log' = Append(log, e)
          /\ UNCHANGED <<live, stamp>>
      BY <1>2 DEF Command, JudgeSet
    <2>2. Version[p] \in Versions /\ Version[p] # 0 BY GensFacts
    <2>3. docs'[live] = Projected(log', Len(log'), stamp[live])
      <3>1. IInv' BY <1>2, CommandInv
      <3> QED BY <2>1, <2>2, <3>1 DEF IInv, LiveIsProjected
    <2>4. /\ ReadersVersion = stamp[live] /\ ReadersVersion' = stamp[live]
          /\ ReadersView' = docs'[live]
      BY <2>1 DEF ReadersVersion, ReadersView
    <2> QED BY <2>1, <2>2, <2>3, <2>4, OneProjection DEF Promise!Record
  <1>3. ASSUME NEW p \in Procs, StampEmpty(p), log' = log
        PROVE  \/ Promise!Adopt(Version[p])
               \/ UNCHANGED <<log, ReadersVersion, ReadersView>>
    <2>1. CASE UNCHANGED views
      BY <1>3, <2>1 DEF views, ReadersVersion, ReadersView
    <2>2. CASE /\ live = NoGen /\ log = << >> /\ live' = 0 /\ 0 \in Gens
               /\ stamp'[0] = Version[p] /\ docs'[0] = NoRows
      <3>1. ReadersVersion' = Version[p] /\ ReadersView' = NoRows
        BY <2>2, GensFacts DEF ReadersVersion, ReadersView
      <3>2. Len(log) = 0 BY <2>2
      <3>3. Projected(log, Len(log), Version[p]) = NoRows
        BY <3>2, ProjectedNothing
      <3> QED BY <1>3, <3>1, <3>3, OneProjection DEF Promise!Adopt
    <2> QED BY <1>3, <2>1, <2>2, StampFacts
  <1>4. ASSUME NEW n \in Gens, Create(n)
        PROVE  UNCHANGED <<log, ReadersVersion, ReadersView>>
    <2>1. /\ log' = log /\ docs' = docs
          /\ \/ live # NoGen /\ live' = live /\ stamp'[live] = stamp[live]
             \/ live = NoGen /\ live' = 0 /\ stamp'[0] = 0 /\ docs[0] = NoRows
      BY <1>4, CreateFacts
    <2> QED BY <2>1, GensFacts DEF ReadersVersion, ReadersView
  <1>5. ASSUME NEW last \in 0..Len(log), Finish(last)
        PROVE  \E v \in Versions : Promise!Adopt(v)
    <2>1. /\ session.pc = "replay" /\ Replay(last) /\ live' = building
          /\ last = Len(log) /\ log' = log
      BY <1>5 DEF Finish, At
    <2>2. /\ building \in Gens /\ building # NoGen /\ stamp' = stamp
          /\ stamp[building] = Version[session.proc]
          /\ Version[session.proc] \in Versions
          /\ docs'[building] = Projected(log, last, stamp[building])
      BY <2>1, ReplayFacts
    <2>3. /\ ReadersVersion' = stamp[building]
          /\ ReadersView' = docs'[building]
      BY <2>1, <2>2 DEF ReadersVersion, ReadersView
    <2>4. Promise!Adopt(stamp[building])
      BY <2>1, <2>2, <2>3, OneProjection DEF Promise!Adopt
    <2> QED BY <2>2, <2>4
  <1>6. ASSUME UNCHANGED <<log, live>>,
               live # NoGen => docs'[live] = docs[live] /\ stamp'[live] = stamp[live]
        PROVE  UNCHANGED <<log, ReadersVersion, ReadersView>>
    BY <1>6 DEF ReadersVersion, ReadersView
  <1>7. \A p \in Procs : Version[p] \in Versions BY GensFacts
  <1> QED BY <1>2, <1>3, <1>4, <1>5, <1>6, <1>7, LiveSteps, OneProjection
          DEF Promise!Next

\* The generations implement Views: readers cannot tell a rebuild, a crash or
\* a cleanup from one set of documents that follows the log.
THEOREM ViewsImplemented == Spec => RefinesViews
  <1>1. Init => Promise!Init
    BY OneProjection DEF Init, Promise!Init, ReadersVersion, ReadersView
  <1>2. IInv /\ [Next]_vars => [Promise!Next]_(Promise!vars)
    BY StepRefines DEF Promise!vars
  <1> QED BY <1>1, <1>2, SpecInv, PTL DEF Spec, RefinesViews, Promise!Spec
=============================================================================

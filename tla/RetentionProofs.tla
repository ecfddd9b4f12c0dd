-------------------------- MODULE RetentionProofs --------------------------
(***************************************************************************)
(* Bodies follow their references, for any projects, bodies, exports and   *)
(* readers.  Whether a body is required can only be told from all          *)
(* references together, so the invariant carries both directions of the    *)
(* equivalence; the purge needs in addition that a reduced body's excerpt  *)
(* is there, since that is how it finds the original of an excerpt.        *)
(***************************************************************************)
EXTENDS Retention, TLAPS

States == {"none", "present", "reduced", "purged"}

Refs == [project : Projects, seq : Nat, hash : Bodies,
         class : {"record", "output", "material"}, released : Nat]

Events ==
    [type : {"attached"}, hash : Bodies]
    \cup [type : {"reduced"}, seq : Nat, original : Outputs, excerpt : Shorts]
    \cup [type : {"purged"}, requested : SUBSET Bodies,
          released : SUBSET (Nat \X Bodies), removed : SUBSET Bodies,
          shared : SUBSET Bodies]

Typed ==
    /\ body \in [Bodies -> States]
    /\ refs \subseteq Refs
    /\ log \in [Projects -> Seq(Events)]

IInv == Typed /\ BodyFollowsReferences /\ ReducedKeepsExcerpt

-----------------------------------------------------------------------------
\* A released reference is not live, and every live reference of the result
\* of a release was there before and was not among those released.
LEMMA ReleaseLive ==
    ASSUME NEW R \in SUBSET Refs, NEW S \in SUBSET R, NEW n \in Nat \ {0},
           NEW h
    PROVE  Required(Release(R, S, n), h)
               <=> \E r \in R \ S : r.hash = h /\ Live(r)
  <1>1. \A r \in S : [r EXCEPT !.released = n].released = n
    BY DEF Refs
  <1> QED BY <1>1 DEF Required, Release, Live

\* Releasing keeps the references well formed.
LEMMA ReleaseTyped ==
    ASSUME NEW R \in SUBSET Refs, NEW S \in SUBSET R, NEW n \in Nat
    PROVE  Release(R, S, n) \subseteq Refs
  <1>1. ASSUME NEW r \in S PROVE [r EXCEPT !.released = n] \in Refs
    BY DEF Refs
  <1> QED BY <1>1 DEF Release

\* The next event's sequence is a positive number.
LEMMA NextSeqPositive ==
    ASSUME Typed, NEW p \in Projects
    PROVE  NextSeq(p) \in Nat \ {0}
  <1>1. log[p] \in Seq(Events) BY DEF Typed
  <1>2. Len(log[p]) \in Nat BY <1>1
  <1> QED BY <1>2 DEF NextSeq

\* Recording a well formed event keeps the logs well formed.
LEMMA RecordTyped ==
    ASSUME Typed, NEW p \in Projects, NEW e \in Events, Record(p, e)
    PROVE  log' \in [Projects -> Seq(Events)]
  <1>1. log[p] \in Seq(Events) BY DEF Typed
  <1>2. Append(log[p], e) \in Seq(Events) BY <1>1
  <1> QED BY <1>2 DEF Typed, Record

-----------------------------------------------------------------------------
\* An attached body is stored whole and its new reference requires it.
LEMMA AttachInv ==
    ASSUME IInv, NEW p \in Projects, NEW h \in Bodies, NEW class \in Classes,
           Attach(p, h, class)
    PROVE  IInv'
  <1> DEFINE n == NextSeq(p)
             new == Ref(p, n, h, class)
  <1>1. n \in Nat \ {0} BY NextSeqPositive DEF IInv
  <1>2. new \in Refs /\ new.hash = h /\ Live(new)
    BY <1>1, BodiesAssumption DEF Ref, Refs, Live
  <1>3. /\ body[h] \in {"none", "present"}
        /\ body' = [body EXCEPT ![h] = "present"]
    BY DEF Attach, Put
  <1>4. refs' = refs \cup {new} BY DEF Attach
  <1>5. Attached(h) \in Events BY DEF Attached, Events
  <1>6. Typed'
    <2>1. log' \in [Projects -> Seq(Events)]
      BY <1>5, RecordTyped DEF Attach, IInv
    <2>2. body' \in [Bodies -> States] BY <1>3 DEF IInv, Typed, States
    <2>3. refs' \subseteq Refs BY <1>2, <1>4 DEF IInv, Typed
    <2> QED BY <2>1, <2>2, <2>3 DEF Typed
  <1> HIDE DEF new
  <1>7. BodyFollowsReferences'
    BY <1>2, <1>3, <1>4
    DEF IInv, Typed, BodyFollowsReferences, Required
  <1>8. ReducedKeepsExcerpt'
    BY <1>3, BodiesAssumption DEF IInv, Typed, ReducedKeepsExcerpt, Bodies
  <1> QED BY <1>6, <1>7, <1>8 DEF IInv

\* A reduction stores the excerpt it references, and gives up the original
\* exactly when no reference is left that needs it.
LEMMA ReduceInv ==
    ASSUME IInv, NEW p \in Projects, NEW r \in refs, Reduce(p, r)
    PROVE  IInv'
  <1> DEFINE n == NextSeq(p)
             h == r.hash
             x == Excerpt[h]
             new == Ref(p, n, x, "record")
             R == Release(refs \cup {new}, {r}, n)
  <1>1. n \in Nat \ {0} BY NextSeqPositive DEF IInv
  <1>2. /\ h \in Outputs /\ x \in Shorts /\ h # x
        /\ h \in Bodies /\ x \in Bodies
        /\ body[h] = "present"
        /\ r.seq \in Nat
    BY BodiesAssumption DEF Reduce, Bodies, IInv, Typed, Refs
  <1>3. new \in Refs /\ new.hash = x /\ Live(new)
    BY <1>1, <1>2 DEF Ref, Refs, Live
  <1>4. refs \cup {new} \subseteq Refs BY <1>3 DEF IInv, Typed
  <1>5. refs' = R BY DEF Reduce
  <1>6. PICK b \in Put(x) :
            body' = IF LastReference(p, R, h)
                    THEN [b EXCEPT ![h] = "reduced"] ELSE b
    BY DEF Reduce
  <1>7. /\ body[x] \in {"none", "present"}
        /\ b = [body EXCEPT ![x] = "present"]
    BY <1>6 DEF Put
  <1>8. Reduced(r.seq, h) \in Events BY <1>2 DEF Reduced, Events
  <1>9. Typed'
    <2>1. log' \in [Projects -> Seq(Events)]
      BY <1>8, RecordTyped DEF Reduce, IInv
    <2>2. body' \in [Bodies -> States]
      BY <1>6, <1>7 DEF IInv, Typed, States
    <2>3. refs' \subseteq Refs BY <1>1, <1>4, <1>5, ReleaseTyped
    <2> QED BY <2>1, <2>2, <2>3 DEF Typed
  <1>10. ASSUME NEW g \in Bodies
         PROVE  Required(R, g)
                    <=> \E s \in (refs \cup {new}) \ {r} : s.hash = g /\ Live(s)
    <2>1. PICK A \in SUBSET Refs : A = refs \cup {new} BY <1>4
    <2>2. PICK k \in Nat \ {0} : k = n BY <1>1
    <2>3. PICK S \in SUBSET A : S = {r} BY <2>1
    <2> HIDE DEF n, new, R
    <2>4. Required(Release(A, S, k), g)
              <=> \E s \in A \ S : s.hash = g /\ Live(s)
      BY ReleaseLive
    <2> QED BY <2>1, <2>2, <2>3, <2>4 DEF R
  <1>11. ASSUME NEW g \in Bodies
         PROVE  /\ g = x => Required(R, g)
                /\ g \notin {h, x} => (Required(R, g) <=> Required(refs, g))
    <2> HIDE DEF new, R
    <2>1. CASE g = x
      <3>1. new \in (refs \cup {new}) \ {r} BY <1>2, <1>3
      <3> QED BY <2>1, <3>1, <1>3, <1>10
    <2>2. CASE g \notin {h, x}
      BY <2>2, <1>3, <1>10 DEF Required
    <2> QED BY <2>1, <2>2
  <1>12. BodyFollowsReferences'
    <2> SUFFICES ASSUME NEW g \in Bodies
                 PROVE  body'[g] = "present" <=> Required(R, g)
      BY <1>5 DEF BodyFollowsReferences
    <2>1. CASE g = h
      BY <2>1, <1>2, <1>6, <1>7 DEF LastReference, IInv, Typed
    <2>2. CASE g = x
      BY <2>2, <1>2, <1>6, <1>7, <1>11 DEF IInv, Typed
    <2>3. CASE g \notin {h, x}
      BY <2>3, <1>6, <1>7, <1>11 DEF IInv, Typed, BodyFollowsReferences
    <2> QED BY <2>1, <2>2, <2>3
  <1>13. ReducedKeepsExcerpt'
    <2> SUFFICES ASSUME NEW g \in Outputs, body'[g] = "reduced"
                 PROVE  body'[Excerpt[g]] = "present"
      BY DEF ReducedKeepsExcerpt
    <2>1. /\ g \in Bodies /\ Excerpt[g] \in Bodies
          /\ Excerpt[g] # h /\ g # x
      BY <1>2, BodiesAssumption DEF Bodies
    <2>2. CASE g = h
      BY <2>2, <1>2, <1>6, <1>7 DEF IInv, Typed
    <2>3. CASE g # h
      <3>1. body[g] = "reduced"
        BY <2>1, <2>3, <1>6, <1>7 DEF IInv, Typed
      <3>2. body[Excerpt[g]] = "present"
        BY <3>1 DEF IInv, ReducedKeepsExcerpt
      <3> QED BY <3>2, <2>1, <1>6, <1>7 DEF IInv, Typed
    <2> QED BY <2>2, <2>3
  <1> QED BY <1>9, <1>12, <1>13 DEF IInv

-----------------------------------------------------------------------------
\* A purge removes exactly the bodies its releases left unrequired, and with
\* an excerpt every original that was reduced to it.
LEMMA PurgeInv ==
    ASSUME IInv, NEW p \in Projects, NEW requested \in SUBSET Bodies,
           Purge(p, requested)
    PROVE  IInv'
  <1> DEFINE n == NextSeq(p)
             own == UNION {Own(p, h) : h \in requested}
             hashes == {r.hash : r \in own}
             R == Release(refs, own, n)
             gone == {h \in hashes : body[h] = "present" /\ ~Required(R, h)}
             removed == Removed(R, hashes)
             event == PurgedEvent(requested, own, removed)
  <1>1. n \in Nat \ {0} BY NextSeqPositive DEF IInv
  <1>2. own \subseteq refs /\ refs \subseteq Refs
    BY DEF Own, IInv, Typed
  <1>3. hashes \subseteq Bodies BY <1>2 DEF Refs
  <1>4. /\ refs' = R
        /\ body' = [h \in Bodies |-> IF h \in removed THEN "purged" ELSE body[h]]
        /\ Record(p, event)
    BY DEF Purge
  <1>5. removed = gone \cup {h \in Outputs : /\ body[h] = "reduced"
                                             /\ Excerpt[h] \in gone
                                             /\ ~Required(R, h)}
    BY DEF Removed
  <1>6. removed \subseteq Bodies BY <1>3, <1>5 DEF Bodies
  <1>7. event \in Events
    <2>1. \A r \in own : <<r.seq, r.hash>> \in Nat \X Bodies
      BY <1>2 DEF Refs
    <2>2. {<<r.seq, r.hash>> : r \in own} \in SUBSET (Nat \X Bodies)
      BY <2>1
    <2> HIDE DEF own, removed
    <2>3. (hashes \ removed)
              \cup {h \in requested \ removed : body[h] = "reduced"}
            \in SUBSET Bodies
      BY <1>3
    <2> HIDE DEF hashes
    <2> QED BY <1>6, <2>2, <2>3 DEF PurgedEvent, Events, hashes
  <1> HIDE DEF n, own, event, removed
  <1>8. Typed'
    <2>1. log' \in [Projects -> Seq(Events)]
      <3>1. PICK e \in Events : e = event BY <1>7
      <3> QED BY <1>4, <3>1, RecordTyped DEF IInv
    <2>2. body' \in [Bodies -> States] BY <1>4 DEF IInv, Typed, States
    <2>3. refs' \subseteq Refs
      <3>1. PICK A \in SUBSET Refs : A = refs BY <1>2
      <3>2. PICK S \in SUBSET A : S = own BY <1>2, <3>1
      <3>3. PICK k \in Nat : k = n BY <1>1
      <3>4. Release(A, S, k) \subseteq Refs BY ReleaseTyped
      <3> QED BY <1>4, <3>1, <3>2, <3>3, <3>4
    <2> QED BY <2>1, <2>2, <2>3 DEF Typed
  <1>9. ASSUME NEW g
        PROVE  Required(R, g) <=> \E s \in refs \ own : s.hash = g /\ Live(s)
    <2>1. PICK A \in SUBSET Refs : A = refs BY <1>2
    <2>2. PICK S \in SUBSET A : S = own BY <1>2, <2>1
    <2>3. PICK k \in Nat \ {0} : k = n BY <1>1
    <2> HIDE DEF R
    <2>4. Required(Release(A, S, k), g)
              <=> \E s \in A \ S : s.hash = g /\ Live(s)
      BY ReleaseLive
    <2> QED BY <2>1, <2>2, <2>3, <2>4 DEF R
  <1>10. ASSUME NEW g
         PROVE  /\ Required(R, g) => Required(refs, g)
                /\ g \notin hashes => (Required(R, g) <=> Required(refs, g))
    BY <1>2, <1>9 DEF Required
  <1> HIDE DEF R, hashes
  <1>11. BodyFollowsReferences'
    <2> SUFFICES ASSUME NEW g \in Bodies
                 PROVE  body'[g] = "present" <=> Required(R, g)
      BY <1>4 DEF BodyFollowsReferences
    <2>1. body[g] = "present" <=> Required(refs, g)
      BY DEF IInv, BodyFollowsReferences
    <2>2. CASE body[g] = "present"
      BY <1>4, <1>5, <1>10, <2>1, <2>2
    <2>3. CASE body[g] # "present"
      BY <1>4, <1>10, <2>1, <2>3
    <2> QED BY <2>2, <2>3
  <1>12. ReducedKeepsExcerpt'
    <2> SUFFICES ASSUME NEW g \in Outputs, body'[g] = "reduced"
                 PROVE  body'[Excerpt[g]] = "present"
      BY DEF ReducedKeepsExcerpt
    <2>1. /\ g \in Bodies /\ Excerpt[g] \in Bodies /\ Excerpt[g] \notin Outputs
      BY BodiesAssumption DEF Bodies
    <2>2. g \notin removed /\ body[g] = "reduced" BY <1>4, <2>1
    <2>3. body[Excerpt[g]] = "present"
      BY <2>2 DEF IInv, ReducedKeepsExcerpt
    <2>4. ~Required(R, g)
      BY <1>10, <2>1, <2>2 DEF IInv, BodyFollowsReferences
    <2>5. Excerpt[g] \notin gone BY <1>5, <2>2, <2>4
    <2>6. Excerpt[g] \notin removed BY <1>5, <2>1, <2>5
    <2> QED BY <1>4, <2>1, <2>3, <2>6
  <1> QED BY <1>8, <1>11, <1>12 DEF IInv

\* The invariant is about the body table, the references and the logs only.
LEMMA StutterInv ==
    ASSUME IInv, UNCHANGED <<body, refs, log>>
    PROVE  IInv'
  BY DEF IInv, Typed, BodyFollowsReferences, ReducedKeepsExcerpt, Required, Live

\* The steps that can change the body table, the references or the logs.
LEMMA StepsSplit ==
    ASSUME [Next]_vars
    PROVE  \/ \E p \in Projects, h \in Bodies, class \in Classes :
                  Attach(p, h, class)
           \/ \E p \in Projects, r \in refs : Reduce(p, r)
           \/ \E p \in Projects, H \in SUBSET Bodies : Purge(p, H)
           \/ UNCHANGED <<body, refs, log>>
  <1>1. CASE UNCHANGED vars BY <1>1 DEF vars, store
  <1>2. CASE Scrub BY <1>2 DEF Scrub, ScrubDone, ScrubIncomplete, store
  <1>3. CASE \E i \in Readers : Reader(i) BY <1>3 DEF Reader, store
  <1>4. ASSUME NEW p \in Projects,
               \/ \E n \in DOMAIN log[p] : ReplayPurge(p, n)
               \/ PurgeScrub(p)
               \/ PurgeEnds(p)
        PROVE  UNCHANGED <<body, refs, log>>
    BY <1>4 DEF ReplayPurge, PurgeScrub, ScrubDone, ScrubIncomplete, PurgeEnds,
                store
  <1>5. ASSUME NEW e \in Exports,
               \/ \E p \in Projects, t \in Targets : ExportBegin(e, p, t)
               \/ ExportCopy(e) \/ ExportTaken(e) \/ ExportSettle(e)
               \/ ExportFails(e) \/ ExportForget(e) \/ ExportDies(e)
        PROVE  UNCHANGED <<body, refs, log>>
    BY <1>5 DEF ExportBegin, ExportCopy, ExportTaken, ExportSettle,
                ExportFails, ExportForget, ExportDies, store
  <1> QED BY <1>1, <1>2, <1>3, <1>4, <1>5 DEF Next

\* Every step keeps the invariant.
LEMMA NextInv == IInv /\ [Next]_vars => IInv'
  <1> SUFFICES ASSUME IInv, [Next]_vars PROVE IInv'
    OBVIOUS
  <1> QED BY StepsSplit, AttachInv, ReduceInv, PurgeInv, StutterInv

\* The empty store satisfies it.
LEMMA InitInv == Init => IInv
  <1> SUFFICES ASSUME Init PROVE IInv
    OBVIOUS
  <1>1. Typed BY DEF Init, Typed, States
  <1>2. BodyFollowsReferences BY DEF Init, BodyFollowsReferences, Required
  <1>3. ReducedKeepsExcerpt BY DEF Init, ReducedKeepsExcerpt, Bodies
  <1> QED BY <1>1, <1>2, <1>3 DEF IInv

\* The invariant holds in every reachable state.
THEOREM SpecInv == Spec => []IInv
  BY InitInv, NextInv, PTL DEF Spec

\* A body is stored whole exactly while a reference of some project requires
\* it, through every reduction, purge and re-attachment (retention.rs).
THEOREM BodiesFollow == Spec => []BodyFollowsReferences
  <1>1. IInv => BodyFollowsReferences BY DEF IInv
  <1> QED BY <1>1, SpecInv, PTL

\* A reduced body's excerpt is stored: nothing reduce or purge does leaves a
\* reduced tombstone that names a missing excerpt.
THEOREM ExcerptsStay == Spec => []ReducedKeepsExcerpt
  <1>1. IInv => ReducedKeepsExcerpt BY DEF IInv
  <1> QED BY <1>1, SpecInv, PTL

\* The tombstones after a step are those before it, or more.
Stay ==
    \A h \in Bodies :
        /\ body[h] = "purged" => body'[h] = "purged"
        /\ body[h] = "reduced" => body'[h] \in {"reduced", "purged"}

LEMMA TombstoneStep == IInv /\ [Next]_vars => [Stay]_body
  <1> SUFFICES ASSUME IInv, [Next]_vars PROVE Stay \/ UNCHANGED body
    OBVIOUS
  <1>1. ASSUME NEW p \in Projects, NEW h \in Bodies, NEW class \in Classes,
               Attach(p, h, class)
        PROVE  Stay
    BY <1>1 DEF Stay, Attach, Put, IInv, Typed
  <1>2. ASSUME NEW p \in Projects, NEW r \in refs, Reduce(p, r)
        PROVE  Stay
    <2>1. PICK b \in Put(Excerpt[r.hash]) :
              \/ body' = [b EXCEPT ![r.hash] = "reduced"]
              \/ body' = b
      BY <1>2 DEF Reduce
    <2>2. body[r.hash] = "present" BY <1>2 DEF Reduce
    <2> QED BY <2>1, <2>2 DEF Stay, Put, IInv, Typed
  <1>3. ASSUME NEW p \in Projects, NEW H \in SUBSET Bodies, Purge(p, H)
        PROVE  Stay
    BY <1>3 DEF Stay, Purge
  <1> QED BY <1>1, <1>2, <1>3, StepsSplit

\* No step takes a tombstone back (put_payload, reduce, logical_purge).
THEOREM NoWayBack == Spec => TombstonesStay
  <1>1. [Stay]_body => [\A h \in Bodies :
            /\ body[h] = "purged" => body'[h] = "purged"
            /\ body[h] = "reduced" => body'[h] \in {"reduced", "purged"}]_body
    BY DEF Stay
  <1> QED BY <1>1, TombstoneStep, SpecInv, PTL DEF Spec, TombstonesStay

-----------------------------------------------------------------------------
(* What the events say of the references.                                  *)
(*                                                                         *)
(* Each of the three commands records one event e of a project, which may  *)
(* bring a reference of its own and releases exactly the references it     *)
(* names.  That alone keeps the account, so it is proved once.             *)

\* The references are those of recorded events, and at most one per event.
Sequenced ==
    \A r \in refs :
        /\ r.seq \in 1..Len(log[r.project])
        /\ r.released = 0 \/ r.released \in (r.seq + 1)..Len(log[r.project])

OneEach == \A r, s \in refs : r.project = s.project /\ r.seq = s.seq => r = s

\* What event e names, wherever it is.
Releases(e, seq, hash) ==
    \/ e.type = "reduced" /\ e.seq = seq /\ e.original = hash
    \/ e.type = "purged" /\ <<seq, hash>> \in e.released

NamesEarlier ==
    \A p \in Projects : \A n \in 1..Len(log[p]), seq \in Nat, hash \in Bodies :
        Releases(log[p][n], seq, hash) => seq < n

Account ==
    \A r \in refs : \A n \in 1..Len(log[r.project]) :
        Releases(log[r.project][n], r.seq, r.hash) <=> n = r.released

AccountInv == IInv /\ Sequenced /\ OneEach /\ NamesEarlier /\ Account

\* p records e, which brings the references N and releases those in S.
Recorded(p, e, N, S) ==
    /\ p \in Projects /\ e \in Events /\ N \subseteq Refs /\ S \subseteq refs
    /\ log' = [log EXCEPT ![p] = Append(@, e)]
    /\ \A r \in N : r.project = p /\ r.seq = NextSeq(p) /\ r.released = 0
    /\ \A r, s \in N : r = s
    /\ \A r \in S : r.project = p /\ Live(r)
    /\ \A seq \in Nat, hash \in Bodies :
          Releases(e, seq, hash) <=> \E r \in S : r.seq = seq /\ r.hash = hash
    /\ refs' = Release(refs \cup N, S, NextSeq(p))

\* A reference there is after a command was there before, is one it released
\* or is the one it brought; and those it left alone are still there.
LEMMA RecordedRefs ==
    ASSUME AccountInv, NEW p, NEW e, NEW N, NEW S, Recorded(p, e, N, S)
    PROVE  /\ \A r \in refs' :
                 \/ r \in refs \ S
                 \/ r \in N
                 \/ \E s \in S : r = [s EXCEPT !.released = NextSeq(p)]
           /\ \A r \in refs \ S : r \in refs'
           /\ \A r \in N : r \in refs'
           /\ \A s \in S : [s EXCEPT !.released = NextSeq(p)] \in refs'
           /\ N \cap refs = {}
  <1>1. /\ log[p] \in Seq(Events) /\ Len(log[p]) \in Nat
        /\ NextSeq(p) = Len(log[p]) + 1
    BY DEF Recorded, AccountInv, IInv, Typed, NextSeq
  <1>2. N \cap refs = {}
    BY <1>1 DEF Recorded, AccountInv, Sequenced
  <1>3. refs' = ((refs \cup N) \ S)
                    \cup {[r EXCEPT !.released = NextSeq(p)] : r \in S}
    BY DEF Recorded, Release
  <1>4. S \subseteq refs BY DEF Recorded
  <1> QED BY <1>2, <1>3, <1>4

\* The logs after a command.
LEMMA RecordedLog ==
    ASSUME AccountInv, NEW p, NEW e, NEW N, NEW S, Recorded(p, e, N, S)
    PROVE  /\ p \in Projects
           /\ Len(log[p]) \in Nat /\ NextSeq(p) = Len(log[p]) + 1
           /\ Len(log'[p]) = NextSeq(p) /\ log'[p][NextSeq(p)] = e
           /\ \A n \in 1..Len(log[p]) : log'[p][n] = log[p][n]
           /\ \A q \in Projects : q # p => log'[q] = log[q]
           /\ \A q \in Projects : Len(log[q]) \in Nat /\ Len(log'[q]) \in Nat
           /\ \A q \in Projects : Len(log[q]) <= Len(log'[q])
  <1>1. p \in Projects /\ e \in Events /\ log \in [Projects -> Seq(Events)]
    BY DEF Recorded, AccountInv, IInv, Typed
  <1>2. log[p] \in Seq(Events) BY <1>1
  <1>3. log'[p] = Append(log[p], e) BY <1>1 DEF Recorded
  <1>4. \A q \in Projects : q # p => log'[q] = log[q] BY <1>1 DEF Recorded
  <1>5. \A q \in Projects : Len(log[q]) \in Nat BY <1>1
  <1>6. /\ Len(log'[p]) = Len(log[p]) + 1 /\ log'[p][Len(log[p]) + 1] = e
        /\ \A n \in 1..Len(log[p]) : log'[p][n] = log[p][n]
    BY <1>1, <1>2, <1>3
  <1>7. \A q \in Projects : Len(log'[q]) \in Nat /\ Len(log[q]) <= Len(log'[q])
    BY <1>1, <1>4, <1>5, <1>6
  <1> QED BY <1>1, <1>4, <1>5, <1>6, <1>7 DEF NextSeq

\* A recorded command keeps the account.
LEMMA RecordedInv ==
    ASSUME AccountInv, NEW p, NEW e, NEW N, NEW S, Recorded(p, e, N, S), IInv'
    PROVE  AccountInv'
  <1> DEFINE n == NextSeq(p)
             Moved(s) == [s EXCEPT !.released = n]
  <1>1. /\ p \in Projects /\ N \subseteq Refs /\ S \subseteq refs
        /\ refs \subseteq Refs /\ refs' \subseteq Refs
        /\ \A r \in N : r.project = p /\ r.seq = n /\ r.released = 0
        /\ \A r, s \in N : r = s
        /\ \A r \in S : r.project = p /\ r.released = 0
    BY DEF Recorded, AccountInv, IInv, Typed, Live
  <1>2. /\ Len(log[p]) \in Nat /\ n = Len(log[p]) + 1
        /\ Len(log'[p]) = n /\ log'[p][n] = e
        /\ \A m \in 1..Len(log[p]) : log'[p][m] = log[p][m]
        /\ \A q \in Projects : q # p => log'[q] = log[q]
        /\ \A q \in Projects : Len(log[q]) \in Nat /\ Len(log'[q]) \in Nat
        /\ \A q \in Projects : Len(log[q]) <= Len(log'[q])
    BY RecordedLog
  <1>3. /\ \A r \in refs' : r \in refs \ S \/ r \in N \/ \E s \in S : r = Moved(s)
        /\ N \cap refs = {}
    BY RecordedRefs
  <1>4. ASSUME NEW s \in S
        PROVE  /\ Moved(s).project = p /\ Moved(s).seq = s.seq
               /\ Moved(s).hash = s.hash /\ Moved(s).released = n
               /\ s.seq \in 1..Len(log[p]) /\ s.released = 0
    <2>1. s \in Refs BY <1>1
    <2> QED BY <2>1, <1>1 DEF Refs, AccountInv, Sequenced
  <1>5. \A r \in refs : /\ r.project \in Projects /\ r.hash \in Bodies
                        /\ r.seq \in 1..Len(log[r.project])
                        /\ \/ r.released = 0
                           \/ r.released \in (r.seq + 1)..Len(log[r.project])
    BY <1>1 DEF Refs, AccountInv, Sequenced
  <1>6. \A seq \in Nat, hash \in Bodies :
            Releases(e, seq, hash) <=> \E r \in S : r.seq = seq /\ r.hash = hash
    BY DEF Recorded
  <1>7. OneEach BY DEF AccountInv
  <1> HIDE DEF n, Moved
  <1>8. Sequenced'
    <2> SUFFICES ASSUME NEW r \in refs'
                 PROVE  /\ r.seq \in 1..Len(log'[r.project])
                        /\ \/ r.released = 0
                           \/ r.released \in (r.seq + 1)..Len(log'[r.project])
      BY DEF Sequenced
    <2>1. CASE r \in refs \ S BY <2>1, <1>2, <1>5
    <2>2. CASE r \in N BY <2>2, <1>1, <1>2
    <2>3. CASE \E s \in S : r = Moved(s)
      <3>1. PICK s \in S : r = Moved(s) BY <2>3
      <3>2. r.project = p /\ r.seq = s.seq /\ r.released = n /\ s.seq \in 1..Len(log[p])
        BY <3>1, <1>4
      <3> QED BY <3>2, <1>2
    <2> QED BY <2>1, <2>2, <2>3, <1>3
  <1>9. OneEach'
    <2> SUFFICES ASSUME NEW r \in refs', NEW s \in refs',
                        r.project = s.project, r.seq = s.seq
                 PROVE  r = s
      BY DEF OneEach
    <2>1. CASE r \in N \/ s \in N
      <3>1. \A t \in refs : t.project = p => t.seq < n BY <1>2, <1>5
      <3>2. \A t \in S : Moved(t).project = p /\ Moved(t).seq < n
        BY <1>2, <1>4
      <3>3. \A t \in N : t.project = p /\ t.seq = n /\ ~(t.seq < n)
        BY <1>1, <1>2
      <3>4. r \in N /\ s \in N BY <2>1, <3>1, <3>2, <3>3, <1>3
      <3> QED BY <3>4, <1>1
    <2>2. CASE r \in refs \ S /\ s \in refs \ S BY <2>2, <1>7 DEF OneEach
    <2>3. CASE \E t \in S : r = Moved(t)
      <3>1. PICK t \in S : r = Moved(t) BY <2>3
      <3>2. t \in refs /\ t.project = p BY <1>1
      <3>3. CASE s \in refs \ S
        BY <3>1, <3>2, <3>3, <1>4, <1>7 DEF OneEach
      <3>4. CASE \E u \in S : s = Moved(u)
        <4>1. PICK u \in S : s = Moved(u) BY <3>4
        <4>2. u \in refs /\ u.project = p BY <1>1
        <4> QED BY <3>1, <3>2, <4>1, <4>2, <1>4, <1>7 DEF OneEach
      <3> QED BY <3>1, <3>3, <3>4, <2>1, <1>3
    <2>4. CASE r \in refs \ S /\ \E t \in S : s = Moved(t)
      <3>1. PICK t \in S : s = Moved(t) BY <2>4
      <3>2. t \in refs /\ t.project = p BY <1>1
      <3> QED BY <2>4, <3>1, <3>2, <1>4, <1>7 DEF OneEach
    <2> QED BY <2>1, <2>2, <2>3, <2>4, <1>3
  <1>10. NamesEarlier'
    <2> SUFFICES ASSUME NEW q \in Projects, NEW m \in 1..Len(log'[q]),
                        NEW seq \in Nat, NEW hash \in Bodies,
                        Releases(log'[q][m], seq, hash)
                 PROVE  seq < m
      BY DEF NamesEarlier, Releases
    <2>1. CASE q = p /\ m = n
      BY <2>1, <1>2, <1>4, <1>6
    <2>2. CASE ~(q = p /\ m = n)
      <3>1. m \in 1..Len(log[q]) /\ log'[q][m] = log[q][m]
        BY <2>2, <1>1, <1>2, SMTT(30)
      <3> QED BY <3>1 DEF AccountInv, NamesEarlier
    <2> QED BY <2>1, <2>2
  <1>11. Account'
    <2> SUFFICES ASSUME NEW r \in refs', NEW m \in 1..Len(log'[r.project])
                 PROVE  Releases(log'[r.project][m], r.seq, r.hash)
                            <=> m = r.released
      BY DEF Account, Releases
    <2>1. r \in Refs /\ r.seq \in Nat /\ r.hash \in Bodies /\ r.project \in Projects
      BY <1>1 DEF Refs
    <2>2. CASE r \in N
      <3>1. r.project = p /\ r.seq = n /\ r.released = 0 BY <2>2, <1>1
      <3>2. ~Releases(log'[p][m], n, r.hash)
        <4>1. CASE m = n BY <4>1, <1>2, <1>4, <1>6, <2>1
        <4>2. CASE m # n
          <5>1. m \in 1..Len(log[p]) /\ log'[p][m] = log[p][m]
            BY <4>2, <3>1, <1>2
          <5>2. n \in Nat BY <1>2
          <5>3. m < n BY <5>1, <1>2
          <5> QED BY <5>1, <5>2, <5>3, <1>1, <2>1 DEF AccountInv, NamesEarlier
        <4> QED BY <4>1, <4>2
      <3> QED BY <3>1, <3>2
    <2>3. CASE r \in refs \ S
      <3>1. r.released \in 0..Len(log[r.project]) BY <2>3, <2>1, <1>2, <1>5
      <3>2. CASE r.project = p /\ m = n
        <4>1. \A s \in S : ~(s.seq = r.seq)
          BY <2>3, <3>2, <1>1, <1>7 DEF OneEach
        <4>2. ~Releases(e, r.seq, r.hash) BY <4>1, <1>6, <2>1
        <4> QED BY <3>1, <3>2, <4>2, <1>2
      <3>3. CASE ~(r.project = p /\ m = n)
        <4>1. /\ m \in 1..Len(log[r.project])
              /\ log'[r.project][m] = log[r.project][m]
          BY <3>3, <2>1, <1>2
        <4> QED BY <2>3, <4>1 DEF AccountInv, Account
      <3> QED BY <3>2, <3>3
    <2>4. CASE \E s \in S : r = Moved(s)
      <3>1. PICK s \in S : r = Moved(s) BY <2>4
      <3>2. /\ r.project = p /\ r.seq = s.seq /\ r.hash = s.hash
            /\ r.released = n /\ s.released = 0 /\ s \in refs /\ s.project = p
        BY <3>1, <1>1, <1>4
      <3>3. CASE m = n BY <3>2, <3>3, <1>2, <1>6, <2>1
      <3>4. CASE m # n
        <4>1. m \in 1..Len(log[p]) /\ log'[p][m] = log[p][m]
          BY <3>2, <3>4, <1>2
        <4>2. ~Releases(log[p][m], s.seq, s.hash)
          BY <3>2, <4>1 DEF AccountInv, Account
        <4> QED BY <3>2, <3>4, <4>1, <4>2
      <3> QED BY <3>3, <3>4
    <2> QED BY <2>2, <2>3, <2>4, <1>3
  <1> QED BY <1>8, <1>9, <1>10, <1>11 DEF AccountInv

-----------------------------------------------------------------------------
\* Each command is one recorded event.
LEMMA AttachRecords ==
    ASSUME AccountInv, NEW p \in Projects, NEW h \in Bodies,
           NEW class \in Classes, Attach(p, h, class)
    PROVE  Recorded(p, Attached(h), {Ref(p, NextSeq(p), h, class)}, {})
  <1> DEFINE new == Ref(p, NextSeq(p), h, class)
  <1>1. NextSeq(p) \in Nat \ {0} BY NextSeqPositive DEF AccountInv, IInv
  <1>2. new \in Refs BY <1>1, BodiesAssumption DEF Ref, Refs
  <1>3. new.project = p /\ new.seq = NextSeq(p) /\ new.released = 0 BY DEF Ref
  <1> HIDE DEF new
  <1>4. Attached(h) \in Events /\ Attached(h).type = "attached"
    BY DEF Attached, Events
  <1>5. refs' = Release(refs \cup {new}, {}, NextSeq(p))
    BY DEF Attach, Release, new
  <1>6. log' = [log EXCEPT ![p] = Append(@, Attached(h))]
    BY DEF Attach, Record
  <1> QED BY <1>2, <1>3, <1>4, <1>5, <1>6 DEF Recorded, Releases, new

LEMMA ReduceRecords ==
    ASSUME AccountInv, NEW p \in Projects, NEW r \in refs, Reduce(p, r)
    PROVE  Recorded(p, Reduced(r.seq, r.hash),
                    {Ref(p, NextSeq(p), Excerpt[r.hash], "record")}, {r})
  <1> DEFINE new == Ref(p, NextSeq(p), Excerpt[r.hash], "record")
             e == Reduced(r.seq, r.hash)
  <1>1. NextSeq(p) \in Nat \ {0} BY NextSeqPositive DEF AccountInv, IInv
  <1>2. /\ r.hash \in Outputs /\ Excerpt[r.hash] \in Shorts
        /\ r.project = p /\ Live(r) /\ r.seq \in Nat
    BY BodiesAssumption DEF Reduce, AccountInv, IInv, Typed, Refs
  <1>3. new \in Refs BY <1>1, <1>2 DEF Ref, Refs, Bodies
  <1>4. new.project = p /\ new.seq = NextSeq(p) /\ new.released = 0 BY DEF Ref
  <1>5. e \in Events BY <1>2 DEF Reduced, Events
  <1>6. e.type = "reduced" /\ e.seq = r.seq /\ e.original = r.hash
    BY DEF Reduced
  <1>7. log' = [log EXCEPT ![p] = Append(@, e)]
    BY DEF Reduce, Record
  <1>8. refs' = Release(refs \cup {new}, {r}, NextSeq(p)) BY DEF Reduce
  <1> HIDE DEF new, e
  <1>9. \A seq \in Nat, hash \in Bodies :
            Releases(e, seq, hash)
                <=> \E s \in {r} : s.seq = seq /\ s.hash = hash
    BY <1>6 DEF Releases
  <1> QED BY <1>2, <1>3, <1>4, <1>5, <1>7, <1>8, <1>9 DEF Recorded, new, e

LEMMA PurgeRecords ==
    ASSUME AccountInv, NEW p \in Projects, NEW requested \in SUBSET Bodies,
           Purge(p, requested)
    PROVE  \E own \in SUBSET refs, removed \in SUBSET Bodies :
               /\ Recorded(p, PurgedEvent(requested, own, removed), {}, own)
               /\ \A h \in removed : body[h] \in {"present", "reduced"}
               /\ body' = [h \in Bodies |->
                              IF h \in removed THEN "purged" ELSE body[h]]
               /\ residue' = residue \cup removed
               /\ report' = [report EXCEPT ![p] =
                      Report(PurgedEvent(requested, own, removed), NextSeq(p),
                             refs', body')]
  <1> DEFINE own == UNION {Own(p, h) : h \in requested}
             hashes == {r.hash : r \in own}
             R == Release(refs, own, NextSeq(p))
             removed == Removed(R, hashes)
             event == PurgedEvent(requested, own, removed)
  <1>1. own \subseteq refs /\ \A r \in own : r.project = p /\ Live(r)
    BY DEF Own
  <1>2. refs \subseteq Refs BY DEF AccountInv, IInv, Typed
  <1>3. hashes \subseteq Bodies BY <1>1, <1>2 DEF Refs
  <1>4. /\ refs' = R
        /\ body' = [h \in Bodies |-> IF h \in removed THEN "purged" ELSE body[h]]
        /\ log' = [log EXCEPT ![p] = Append(@, event)]
        /\ residue' = residue \cup removed
        /\ report' = [report EXCEPT ![p] =
               Report(event, NextSeq(p), refs', body')]
    BY DEF Purge, Record
  <1>5. /\ removed \subseteq Bodies
        /\ \A h \in removed : body[h] \in {"present", "reduced"}
    BY <1>3 DEF Removed, Bodies
  <1>6. \A r \in own : <<r.seq, r.hash>> \in Nat \X Bodies
    BY <1>1, <1>2 DEF Refs
  <1>7. event \in Events
    <2>1. {<<r.seq, r.hash>> : r \in own} \in SUBSET (Nat \X Bodies)
      BY <1>6
    <2> HIDE DEF own, removed
    <2>2. (hashes \ removed)
              \cup {h \in requested \ removed : body[h] = "reduced"}
            \in SUBSET Bodies
      BY <1>3
    <2> HIDE DEF hashes
    <2> QED BY <1>5, <2>1, <2>2 DEF PurgedEvent, Events, hashes
  <1>8. event.type = "purged" /\ event.released = {<<r.seq, r.hash>> : r \in own}
    BY DEF PurgedEvent
  <1> HIDE DEF own, R, removed, event
  <1>9. \A seq \in Nat, hash \in Bodies :
            Releases(event, seq, hash)
                <=> \E r \in own : r.seq = seq /\ r.hash = hash
    BY <1>8 DEF Releases
  <1>10. R = Release(refs \cup {}, own, NextSeq(p)) BY DEF R
  <1>11. Recorded(p, event, {}, own)
    BY <1>1, <1>4, <1>7, <1>9, <1>10 DEF Recorded
  <1> QED BY <1>1, <1>4, <1>5, <1>11 DEF event

\* Nothing else is about the log and the references.
LEMMA StutterAccount ==
    ASSUME AccountInv, UNCHANGED <<refs, log>>, IInv'
    PROVE  AccountInv'
  BY DEF AccountInv, Sequenced, OneEach, NamesEarlier, Account, Releases

\* Every step keeps the account.
LEMMA NextAccount == AccountInv /\ [Next]_vars => AccountInv'
  <1> SUFFICES ASSUME AccountInv, [Next]_vars PROVE AccountInv'
    OBVIOUS
  <1>1. IInv' BY NextInv DEF AccountInv
  <1>2. ASSUME NEW p \in Projects, NEW h \in Bodies, NEW class \in Classes,
               Attach(p, h, class)
        PROVE  AccountInv'
    BY <1>1, <1>2, AttachRecords, RecordedInv
  <1>3. ASSUME NEW p \in Projects, NEW r \in refs, Reduce(p, r)
        PROVE  AccountInv'
    BY <1>1, <1>3, ReduceRecords, RecordedInv
  <1>4. ASSUME NEW p \in Projects, NEW H \in SUBSET Bodies, Purge(p, H)
        PROVE  AccountInv'
    BY <1>1, <1>4, PurgeRecords, RecordedInv
  <1> QED BY <1>1, <1>2, <1>3, <1>4, StepsSplit, StutterAccount

LEMMA InitAccount == Init => AccountInv
  <1> SUFFICES ASSUME Init PROVE AccountInv
    OBVIOUS
  <1>1. refs = {} /\ \A p \in Projects : log[p] = << >> BY DEF Init
  <1>2. ASSUME NEW p \in Projects PROVE Len(log[p]) = 0
    <2>1. log[p] = << >> BY <1>1
    <2> QED BY <2>1
  <1> QED BY <1>1, <1>2, InitInv
          DEF AccountInv, Sequenced, OneEach, NamesEarlier, Account

\* payload_ref's released_seq is what the events say (retention.rs, the
\* release in reduce and in logical_purge).
LEMMA AccountFromLog == AccountInv => ReleasesFromLog
  <1> SUFFICES ASSUME AccountInv, NEW r \in refs,
                      NEW n \in DOMAIN log[r.project]
               PROVE  Names(r.project, n, r.seq, r.hash) <=> n = r.released
    BY DEF ReleasesFromLog
  <1>1. r.project \in Projects BY DEF AccountInv, IInv, Typed, Refs
  <1>2. log[r.project] \in Seq(Events) BY <1>1 DEF AccountInv, IInv, Typed
  <1>3. n \in 1..Len(log[r.project]) BY <1>2
  <1> QED BY <1>3 DEF AccountInv, Account, Names, Releases

-----------------------------------------------------------------------------
(* What the export rows and directories say.                               *)

Rows == [pc : {"idle", "copy", "settle", "forget", "done"},
         project : Projects \cup {None}, target : Targets \cup {None},
         row : {"none", "pending", "kept"}, head : Nat]

\* The bodies project q references when its log has k events.
CopyAt(q, k) ==
    {r.hash : r \in {r \in refs :
        /\ r.project = q
        /\ r.seq <= k
        /\ r.released = 0 \/ r.released > k}}

\* The directory of export e is its own work.
Holds(e) == export[e].pc = "settle" \/ export[e].row = "kept"

\* Export e, finished or not, may have left what target t holds.
Explains(e, t) ==
    /\ export[e].pc \in {"settle", "done"}
    /\ export[e].row \in {"pending", "kept"}
    /\ export[e].target = t
    /\ \A h \in disk[t] :
          \E r \in refs : r.project = export[e].project /\ r.hash = h

\* A row as far as its run has come.
RowOK(w) ==
    /\ w.pc # "idle" => w.project \in Projects /\ w.target \in Targets
    /\ w.pc \in {"copy", "settle", "forget"} => w.row = "pending"
    /\ w.pc = "idle" => w.row = "none"

ExportsTyped ==
    /\ export \in [Exports -> Rows]
    /\ disk \in [Targets -> {None} \cup SUBSET Bodies]
    /\ \A e \in Exports : RowOK(export[e])

CopiesHeld ==
    \A e \in Exports : Holds(e) =>
        /\ export[e].head <= Len(log[export[e].project])
        /\ disk[export[e].target] = CopyAt(export[e].project, export[e].head)

OneHolder ==
    \A e, f \in Exports :
        Holds(e) /\ Holds(f) /\ export[e].target = export[f].target => e = f

Explained == \A t \in Targets : disk[t] # None => \E e \in Exports : Explains(e, t)

CopyInv == AccountInv /\ ExportsTyped /\ CopiesHeld /\ OneHolder /\ Explained

\* A row that was begun, of a run that holds its directory.
LEMMA HolderTyped ==
    ASSUME ExportsTyped, NEW e \in Exports, Holds(e)
    PROVE  /\ export[e].project \in Projects /\ export[e].target \in Targets
           /\ export[e].head \in Nat
  BY DEF ExportsTyped, Holds, RowOK, Rows

\* What a copy holds is a set of bodies, so the directory is there.
LEMMA HeldIsThere ==
    ASSUME CopyInv, NEW e \in Exports, Holds(e)
    PROVE  disk[export[e].target] # None
  <1>1. disk[export[e].target] = CopyAt(export[e].project, export[e].head)
    BY DEF CopyInv, CopiesHeld
  <1>2. \A r \in refs : r.hash \in Bodies
    BY DEF CopyInv, AccountInv, IInv, Typed, Refs
  <1>3. CopyAt(export[e].project, export[e].head) \in SUBSET Bodies
    BY <1>2 DEF CopyAt
  <1> QED BY <1>1, <1>3, NoneAssumption

\* A later event of a project changes no earlier state of its references.
LEMMA CopyKept ==
    ASSUME AccountInv, AccountInv',
           NEW p, NEW e, NEW N, NEW S, Recorded(p, e, N, S),
           NEW q \in Projects, NEW k \in Nat, k <= Len(log[q])
    PROVE  CopyAt(q, k)' = CopyAt(q, k)
  <1> DEFINE n == NextSeq(p)
             Moved(s) == [s EXCEPT !.released = n]
             At(r) == /\ r.project = q /\ r.seq <= k
                      /\ r.released = 0 \/ r.released > k
  <1>1. /\ \A r \in refs' : r \in refs \ S \/ r \in N \/ \E s \in S : r = Moved(s)
        /\ \A r \in refs \ S : r \in refs'
        /\ \A s \in S : Moved(s) \in refs'
    BY RecordedRefs
  <1>2. Len(log[p]) \in Nat /\ n = Len(log[p]) + 1
    BY RecordedLog
  <1>3. ASSUME NEW s \in S
        PROVE  /\ s \in refs /\ s.project = p /\ s.released = 0
               /\ Moved(s).project = p /\ Moved(s).seq = s.seq
               /\ Moved(s).hash = s.hash /\ Moved(s).released = n
    <2>1. s \in refs /\ s.project = p /\ s.released = 0 BY DEF Recorded, Live
    <2>2. s \in Refs BY <2>1 DEF AccountInv, IInv, Typed
    <2> QED BY <2>1, <2>2 DEF Refs
  <1>4. \A r \in N : r.project = p /\ r.seq = n BY DEF Recorded
  <1> HIDE DEF n, Moved
  <1>5. \A s \in S : At(s) <=> At(Moved(s)) BY <1>2, <1>3
  <1>6. \A r \in N : ~At(r) BY <1>2, <1>4
  <1>7. CopyAt(q, k) = {r.hash : r \in {r \in refs : At(r)}} BY DEF CopyAt
  <1>8. CopyAt(q, k)' = {r.hash : r \in {r \in refs' : At(r)}} BY DEF CopyAt
  <1> HIDE DEF At
  <1>9. ASSUME NEW r \in refs, At(r)
        PROVE  \E s \in refs' : At(s) /\ s.hash = r.hash
    <2>1. CASE r \in S BY <2>1, <1>1, <1>3, <1>5, <1>9
    <2>2. CASE r \notin S BY <2>2, <1>1, <1>9
    <2> QED BY <2>1, <2>2
  <1>10. ASSUME NEW r \in refs', At(r)
         PROVE  \E s \in refs : At(s) /\ s.hash = r.hash
    BY <1>1, <1>3, <1>5, <1>6, <1>10
  <1> QED BY <1>7, <1>8, <1>9, <1>10

\* A command leaves every copy and every explanation true.
LEMMA RecordedCopies ==
    ASSUME CopyInv, AccountInv', UNCHANGED outside,
           NEW p, NEW e, NEW N, NEW S, Recorded(p, e, N, S)
    PROVE  CopyInv'
  <1>1. export' = export /\ disk' = disk BY DEF outside
  <1>2. ExportsTyped' BY <1>1 DEF CopyInv, ExportsTyped, RowOK
  <1>3. CopiesHeld'
    <2> SUFFICES ASSUME NEW x \in Exports, Holds(x)
                 PROVE  /\ export[x].head <= Len(log'[export[x].project])
                        /\ disk[export[x].target]
                               = CopyAt(export[x].project, export[x].head)'
      BY <1>1 DEF CopiesHeld, Holds
    <2>1. PICK q \in Projects, k \in Nat :
              q = export[x].project /\ k = export[x].head
      BY HolderTyped DEF CopyInv
    <2>2. k <= Len(log[q]) /\ disk[export[x].target] = CopyAt(q, k)
      BY <2>1 DEF CopyInv, CopiesHeld
    <2>3. CopyAt(q, k)' = CopyAt(q, k) BY <2>2, CopyKept DEF CopyInv
    <2>4. k <= Len(log'[q])
      <3>1. /\ Len(log[q]) \in Nat /\ Len(log'[q]) \in Nat
            /\ Len(log[q]) <= Len(log'[q])
        BY RecordedLog DEF CopyInv
      <3> QED BY <3>1, <2>2
    <2>5. CopyAt(export[x].project, export[x].head)' = CopyAt(q, k)'
      BY <1>1, <2>1 DEF CopyAt
    <2> QED BY <2>1, <2>2, <2>3, <2>4, <2>5
  <1>4. OneHolder' BY <1>1 DEF CopyInv, OneHolder, Holds
  <1>5. \A r \in refs : \E s \in refs' : s.project = r.project /\ s.hash = r.hash
    <2>1. /\ \A r \in refs \ S : r \in refs'
          /\ \A r \in S : [r EXCEPT !.released = NextSeq(p)] \in refs'
      BY RecordedRefs DEF CopyInv
    <2>2. \A r \in refs : r \in Refs BY DEF CopyInv, AccountInv, IInv, Typed
    <2>3. ASSUME NEW r \in refs
          PROVE  /\ [r EXCEPT !.released = NextSeq(p)].project = r.project
                 /\ [r EXCEPT !.released = NextSeq(p)].hash = r.hash
      BY <2>2 DEF Refs
    <2> QED BY <2>1, <2>3
  <1>6. Explained'
    <2> SUFFICES ASSUME NEW t \in Targets, disk[t] # None
                 PROVE  \E x \in Exports : Explains(x, t)'
      BY <1>1 DEF Explained
    <2>1. PICK x \in Exports : Explains(x, t) BY DEF CopyInv, Explained
    <2>2. \A h \in disk[t] :
              \E r \in refs' : r.project = export[x].project /\ r.hash = h
      BY <2>1, <1>5 DEF Explains
    <2> QED BY <2>1, <2>2, <1>1 DEF Explains
  <1> QED BY <1>2, <1>3, <1>4, <1>6 DEF CopyInv

\* A run that only advances its row: it holds nothing it did not hold, and a
\* directory it may have left stays explained by it.
LEMMA RowStep ==
    ASSUME CopyInv, AccountInv', UNCHANGED <<refs, log, disk>>,
           NEW e \in Exports, NEW w \in Rows, RowOK(w),
           export' = [export EXCEPT ![e] = w],
           w.pc = "settle" \/ w.row = "kept" =>
               /\ Holds(e) /\ w.target = export[e].target
               /\ w.project = export[e].project /\ w.head = export[e].head,
           export[e].pc \in {"settle", "done"} =>
               /\ w.pc \in {"settle", "done"} /\ w.row \in {"pending", "kept"}
               /\ w.target = export[e].target /\ w.project = export[e].project
    PROVE  CopyInv'
  <1>1. export \in [Exports -> Rows] BY DEF CopyInv, ExportsTyped
  <1>2. export'[e] = w /\ \A f \in Exports : f # e => export'[f] = export[f]
    BY <1>1
  <1>3. ExportsTyped'
    <2>1. export' \in [Exports -> Rows] BY <1>1
    <2>2. \A f \in Exports : RowOK(export'[f])
      BY <1>2 DEF CopyInv, ExportsTyped
    <2> QED BY <2>1, <2>2 DEF CopyInv, ExportsTyped, RowOK
  <1>4. \A f \in Exports : Holds(f)' =>
            /\ Holds(f) /\ export'[f].target = export[f].target
            /\ export'[f].project = export[f].project
            /\ export'[f].head = export[f].head
    BY <1>2 DEF Holds
  <1>5. CopiesHeld' BY <1>4 DEF CopyInv, CopiesHeld, CopyAt
  <1>6. OneHolder' BY <1>4 DEF CopyInv, OneHolder
  <1>7. Explained'
    <2> SUFFICES ASSUME NEW t \in Targets, disk[t] # None
                 PROVE  \E x \in Exports : Explains(x, t)'
      BY DEF Explained
    <2>1. PICK x \in Exports : Explains(x, t) BY DEF CopyInv, Explained
    <2>2. Explains(x, t)' BY <2>1, <1>2 DEF Explains
    <2> QED BY <2>2
  <1> QED BY <1>3, <1>5, <1>6, <1>7 DEF CopyInv

\* The copy is what the project references at the head it is given.
LEMMA CopyStep ==
    ASSUME CopyInv, AccountInv', NEW e \in Exports, ExportCopy(e)
    PROVE  CopyInv'
  <1> DEFINE p == export[e].project
             t == export[e].target
             k == Len(log[p])
             w == [export[e] EXCEPT !.pc = "settle", !.head = k]
  <1>1. /\ export \in [Exports -> Rows] /\ export[e].pc = "copy"
        /\ disk \in [Targets -> {None} \cup SUBSET Bodies]
        /\ p \in Projects /\ t \in Targets /\ disk[t] = None
        /\ export[e].row = "pending"
    BY DEF ExportCopy, CopyInv, ExportsTyped, RowOK
  <1>2. k \in Nat
    <2>1. log[p] \in Seq(Events) BY <1>1 DEF CopyInv, AccountInv, IInv, Typed
    <2> QED BY <2>1
  <1>3. UNCHANGED <<refs, log>> BY DEF ExportCopy, store
  <1>4. /\ w \in Rows /\ w.pc = "settle" /\ w.head = k /\ w.row = "pending"
        /\ w.project = p /\ w.target = t
    BY <1>1, <1>2 DEF Rows
  <1>5. export' = [export EXCEPT ![e] = w] BY DEF ExportCopy
  <1>6. disk' = [disk EXCEPT ![t] =
            {r.hash : r \in {r \in refs : r.project = p /\ Live(r)}}]
    BY DEF ExportCopy
  <1>7. \A r \in refs : /\ r \in Refs /\ r.hash \in Bodies
                        /\ r.project = p =>
                              /\ r.seq <= k
                              /\ r.released = 0 \/ r.released <= k
                        /\ r.released \in Nat
    BY <1>2 DEF CopyInv, AccountInv, IInv, Typed, Refs, Sequenced
  <1> HIDE DEF w
  <1>8. /\ export'[e] = w /\ \A f \in Exports : f # e => export'[f] = export[f]
        /\ \A s \in Targets : s # t => disk'[s] = disk[s]
    BY <1>1, <1>5, <1>6
  <1>9. disk'[t] = CopyAt(p, k) /\ disk'[t] \in SUBSET Bodies
    <2>1. disk'[t] = {r.hash : r \in {r \in refs : r.project = p /\ Live(r)}}
      BY <1>1, <1>6
    <2>2. \A r \in refs : r.project = p =>
              (Live(r) <=> r.seq <= k /\ (r.released = 0 \/ r.released > k))
      BY <1>2, <1>7 DEF Live
    <2>3. {r \in refs : r.project = p /\ Live(r)}
              = {r \in refs : /\ r.project = p
                              /\ r.seq <= k
                              /\ r.released = 0 \/ r.released > k}
      BY <2>2
    <2> HIDE DEF k, p
    <2> QED BY <1>7, <2>1, <2>3 DEF CopyAt
  <1>10. ExportsTyped'
    <2>1. export' \in [Exports -> Rows] BY <1>1, <1>4, <1>5
    <2>2. disk' \in [Targets -> {None} \cup SUBSET Bodies]
      BY <1>1, <1>6, <1>8, <1>9
    <2>3. RowOK(w) BY <1>1, <1>4 DEF RowOK
    <2>4. \A f \in Exports : RowOK(export'[f])
      BY <1>8, <2>3 DEF CopyInv, ExportsTyped
    <2> QED BY <2>1, <2>2, <2>4 DEF ExportsTyped, RowOK
  <1>11. \A f \in Exports : Holds(f)' => \/ f = e
                                         \/ /\ f # e /\ Holds(f)
                                            /\ export[f].target # t
    <2> SUFFICES ASSUME NEW f \in Exports, Holds(f)', f # e
                 PROVE  Holds(f) /\ export[f].target # t
      OBVIOUS
    <2>1. Holds(f) BY <1>8 DEF Holds
    <2>2. disk[export[f].target] # None BY <2>1, HeldIsThere
    <2> QED BY <1>1, <2>1, <2>2
  <1>12. CopiesHeld'
    <2> SUFFICES ASSUME NEW f \in Exports, Holds(f)'
                 PROVE  /\ export'[f].head <= Len(log[export'[f].project])
                        /\ disk'[export'[f].target]
                               = CopyAt(export'[f].project, export'[f].head)
      BY <1>3 DEF CopiesHeld, CopyAt
    <2>1. CASE f = e BY <2>1, <1>2, <1>4, <1>8, <1>9
    <2>2. CASE f # e
      <3>1. Holds(f) /\ export[f].target # t BY <2>2, <1>11
      <3>2. export[f].target \in Targets BY <3>1, HolderTyped DEF CopyInv
      <3> QED BY <2>2, <3>1, <3>2, <1>8 DEF CopyInv, CopiesHeld
    <2> QED BY <2>1, <2>2
  <1>13. OneHolder'
    BY <1>4, <1>8, <1>11 DEF CopyInv, OneHolder
  <1>14. Explained'
    <2> SUFFICES ASSUME NEW s \in Targets, disk'[s] # None
                 PROVE  \E x \in Exports : Explains(x, s)'
      BY DEF Explained
    <2>1. CASE s = t
      <3>1. \A h \in disk'[t] : \E r \in refs : r.project = p /\ r.hash = h
        BY <1>9 DEF CopyAt
      <3>2. Explains(e, s)'
        BY <2>1, <3>1, <1>3, <1>4, <1>8 DEF Explains
      <3> QED BY <3>2
    <2>2. CASE s # t
      <3>1. disk'[s] = disk[s] BY <2>2, <1>8
      <3>2. PICK x \in Exports : Explains(x, s)
        BY <3>1 DEF CopyInv, Explained
      <3>3. x # e BY <3>2, <1>1 DEF Explains
      <3> QED BY <3>1, <3>2, <3>3, <1>3, <1>8 DEF Explains
    <2> QED BY <2>1, <2>2
  <1> QED BY <1>10, <1>12, <1>13, <1>14 DEF CopyInv

\* A failed copy that could be removed is held and explained by nobody.
LEMMA RemovedStep ==
    ASSUME CopyInv, AccountInv', NEW e \in Exports, export[e].pc = "settle",
           UNCHANGED <<refs, log>>,
           disk' = [disk EXCEPT ![export[e].target] = None],
           export' = [export EXCEPT ![e].pc = "forget"]
    PROVE  CopyInv'
  <1> DEFINE w == [export[e] EXCEPT !.pc = "forget"]
  <1>1. PICK t \in Targets : t = export[e].target
    BY DEF CopyInv, ExportsTyped, RowOK
  <1>2. /\ export \in [Exports -> Rows] /\ export[e].row = "pending"
        /\ disk \in [Targets -> {None} \cup SUBSET Bodies]
        /\ RowOK(export[e]) /\ Holds(e)
    BY DEF CopyInv, ExportsTyped, RowOK, Holds
  <1>3. /\ w \in Rows /\ w.pc = "forget" /\ w.row = "pending"
        /\ w.project = export[e].project /\ w.target = export[e].target
    BY <1>2 DEF Rows
  <1>4. export' = [export EXCEPT ![e] = w] OBVIOUS
  <1> HIDE DEF w
  <1>5. /\ export'[e] = w /\ \A f \in Exports : f # e => export'[f] = export[f]
        /\ disk'[t] = None /\ \A s \in Targets : s # t => disk'[s] = disk[s]
    BY <1>1, <1>2, <1>4
  <1>6. ExportsTyped'
    <2>1. export' \in [Exports -> Rows] BY <1>2, <1>3, <1>4
    <2>2. disk' \in [Targets -> {None} \cup SUBSET Bodies] BY <1>1, <1>2
    <2>3. \A f \in Exports : RowOK(export'[f])
      BY <1>2, <1>3, <1>5 DEF CopyInv, ExportsTyped, RowOK
    <2> QED BY <2>1, <2>2, <2>3 DEF ExportsTyped, RowOK
  <1>7. \A f \in Exports : Holds(f)' =>
            f # e /\ Holds(f) /\ export[f].target # t
    BY <1>1, <1>2, <1>3, <1>5 DEF CopyInv, OneHolder, Holds
  <1>8. CopiesHeld'
    <2> SUFFICES ASSUME NEW f \in Exports, Holds(f)'
                 PROVE  /\ export'[f].head <= Len(log[export'[f].project])
                        /\ disk'[export'[f].target]
                               = CopyAt(export'[f].project, export'[f].head)
      BY DEF CopiesHeld, CopyAt
    <2>1. f # e /\ Holds(f) /\ export[f].target # t BY <1>7
    <2>2. export[f].target \in Targets BY <2>1, HolderTyped DEF CopyInv
    <2> QED BY <2>1, <2>2, <1>5 DEF CopyInv, CopiesHeld
  <1>9. OneHolder' BY <1>5, <1>7 DEF CopyInv, OneHolder
  <1>10. Explained'
    <2> SUFFICES ASSUME NEW s \in Targets, disk'[s] # None
                 PROVE  \E x \in Exports : Explains(x, s)'
      BY DEF Explained
    <2>1. s # t /\ disk'[s] = disk[s] BY <1>5
    <2>2. PICK x \in Exports : Explains(x, s) BY <2>1 DEF CopyInv, Explained
    <2>3. x # e BY <2>1, <2>2, <1>1 DEF Explains
    <2>4. Explains(x, s)' BY <2>1, <2>2, <2>3, <1>5 DEF Explains
    <2> QED BY <2>4
  <1> QED BY <1>6, <1>8, <1>9, <1>10 DEF CopyInv

\* Every step of an export run keeps the copies.
LEMMA ExportStep ==
    ASSUME CopyInv, AccountInv', NEW e \in Exports,
           \/ \E p \in Projects, t \in Targets : ExportBegin(e, p, t)
           \/ ExportCopy(e) \/ ExportTaken(e) \/ ExportSettle(e)
           \/ ExportFails(e) \/ ExportForget(e) \/ ExportDies(e)
    PROVE  CopyInv'
  <1>1. export[e] \in Rows /\ RowOK(export[e]) BY DEF CopyInv, ExportsTyped
  <1>2. ASSUME NEW p \in Projects, NEW t \in Targets, ExportBegin(e, p, t)
        PROVE  CopyInv'
    <2> DEFINE w == [pc |-> "copy", project |-> p, target |-> t,
                     row |-> "pending", head |-> 0]
    <2>1. w \in Rows /\ RowOK(w) /\ w.pc = "copy" /\ w.row = "pending"
      BY DEF Rows, RowOK
    <2>2. /\ export' = [export EXCEPT ![e] = w] /\ export[e].pc = "idle"
          /\ UNCHANGED <<refs, log, disk>>
      BY <1>2 DEF ExportBegin, store
    <2> HIDE DEF w
    <2> QED BY <2>1, <2>2, RowStep
  <1>3. CASE ExportCopy(e) BY <1>3, CopyStep
  <1>4. CASE ExportTaken(e)
    <2> DEFINE w == [export[e] EXCEPT !.pc = "forget"]
    <2>1. export[e].pc = "copy" /\ export[e].row = "pending"
      BY <1>1, <1>4 DEF ExportTaken, RowOK
    <2>2. w \in Rows /\ RowOK(w) /\ w.pc = "forget" /\ w.row = "pending"
      BY <1>1, <2>1 DEF Rows, RowOK
    <2>3. export' = [export EXCEPT ![e] = w] /\ UNCHANGED <<refs, log, disk>>
      BY <1>4 DEF ExportTaken, store
    <2> HIDE DEF w
    <2> QED BY <2>1, <2>2, <2>3, RowStep
  <1>5. CASE ExportSettle(e)
    <2> DEFINE w == [export[e] EXCEPT !.pc = "done", !.row = "kept"]
    <2>1. export[e].pc = "settle" BY <1>5 DEF ExportSettle
    <2>2. /\ w \in Rows /\ RowOK(w) /\ w.pc = "done" /\ w.row = "kept"
          /\ w.project = export[e].project /\ w.target = export[e].target
          /\ w.head = export[e].head
      BY <1>1, <2>1 DEF Rows, RowOK
    <2>3. export' = [export EXCEPT ![e] = w] /\ UNCHANGED <<refs, log, disk>>
      BY <1>5 DEF ExportSettle, store
    <2>4. Holds(e) BY <2>1 DEF Holds
    <2> HIDE DEF w
    <2> QED BY <2>1, <2>2, <2>3, <2>4, RowStep
  <1>6. ASSUME export[e].pc \in {"copy", "settle", "forget"},
               export' = [export EXCEPT ![e].pc = "done"],
               UNCHANGED <<refs, log, disk>>
        PROVE  CopyInv'
    <2> DEFINE w == [export[e] EXCEPT !.pc = "done"]
    <2>1. export[e].row = "pending" BY <1>1, <1>6 DEF RowOK
    <2>2. /\ w \in Rows /\ RowOK(w) /\ w.pc = "done" /\ w.row = "pending"
          /\ w.project = export[e].project /\ w.target = export[e].target
      BY <1>1, <1>6, <2>1 DEF Rows, RowOK
    <2>3. export' = [export EXCEPT ![e] = w] BY <1>6
    <2> HIDE DEF w
    <2> QED BY <1>6, <2>2, <2>3, RowStep
  <1>7. CASE ExportDies(e) BY <1>6, <1>7 DEF ExportDies, store
  <1>8. CASE ExportFails(e)
    BY <1>6, <1>8, RemovedStep DEF ExportFails, store
  <1>9. CASE ExportForget(e)
    <2> DEFINE w == [export[e] EXCEPT !.pc = "done", !.row = "none"]
    <2>1. export[e].pc = "forget" BY <1>9 DEF ExportForget
    <2>2. w \in Rows /\ RowOK(w) /\ w.pc = "done" /\ w.row = "none"
      BY <1>1, <2>1 DEF Rows, RowOK
    <2>3. export' = [export EXCEPT ![e] = w] /\ UNCHANGED <<refs, log, disk>>
      BY <1>9 DEF ExportForget, store
    <2> HIDE DEF w
    <2> QED BY <2>1, <2>2, <2>3, RowStep
  <1> QED BY <1>2, <1>3, <1>4, <1>5, <1>7, <1>8, <1>9

\* The steps, by what they can change of the references, logs, exports and
\* directories.
LEMMA CopySplit ==
    ASSUME [Next]_vars
    PROVE  \/ /\ UNCHANGED outside
              /\ \/ \E p \in Projects, h \in Bodies, class \in Classes :
                        Attach(p, h, class)
                 \/ \E p \in Projects, r \in refs : Reduce(p, r)
                 \/ \E p \in Projects, H \in SUBSET Bodies : Purge(p, H)
           \/ \E e \in Exports :
                 \/ \E p \in Projects, t \in Targets : ExportBegin(e, p, t)
                 \/ ExportCopy(e) \/ ExportTaken(e) \/ ExportSettle(e)
                 \/ ExportFails(e) \/ ExportForget(e) \/ ExportDies(e)
           \/ UNCHANGED <<refs, log, outside>>
  <1>1. CASE UNCHANGED vars BY <1>1 DEF vars, store
  <1>2. CASE Scrub BY <1>2 DEF Scrub, ScrubDone, ScrubIncomplete, store
  <1>3. CASE \E i \in Readers : Reader(i) BY <1>3 DEF Reader, store
  <1>4. ASSUME NEW p \in Projects,
               \/ \E n \in DOMAIN log[p] : ReplayPurge(p, n)
               \/ PurgeScrub(p)
               \/ PurgeEnds(p)
        PROVE  UNCHANGED <<refs, log, outside>>
    BY <1>4 DEF ReplayPurge, PurgeScrub, ScrubDone, ScrubIncomplete, PurgeEnds,
                store
  <1>5. ASSUME NEW p \in Projects,
               \/ \E h \in Bodies, class \in Classes : Attach(p, h, class)
               \/ \E r \in refs : Reduce(p, r)
               \/ \E H \in SUBSET Bodies : Purge(p, H)
        PROVE  UNCHANGED outside
    BY <1>5 DEF Attach, Reduce, Purge
  <1> QED BY <1>1, <1>2, <1>3, <1>4, <1>5 DEF Next

\* Every step keeps the copies.
LEMMA NextCopies == CopyInv /\ [Next]_vars => CopyInv'
  <1> SUFFICES ASSUME CopyInv, [Next]_vars PROVE CopyInv'
    OBVIOUS
  <1>1. AccountInv /\ AccountInv' BY NextAccount DEF CopyInv
  <1>2. ASSUME UNCHANGED outside, NEW p \in Projects,
               \/ \E h \in Bodies, class \in Classes : Attach(p, h, class)
               \/ \E r \in refs : Reduce(p, r)
               \/ \E H \in SUBSET Bodies : Purge(p, H)
        PROVE  CopyInv'
    BY <1>1, <1>2, AttachRecords, ReduceRecords, PurgeRecords, RecordedCopies
  <1>3. CASE UNCHANGED <<refs, log, outside>>
    BY <1>1, <1>3 DEF outside, CopyInv, ExportsTyped, RowOK, CopiesHeld, Holds,
                      CopyAt, OneHolder, Explained, Explains
  <1> QED BY <1>1, <1>2, <1>3, CopySplit, ExportStep

LEMMA InitCopies == Init => CopyInv
  <1> SUFFICES ASSUME Init PROVE CopyInv
    OBVIOUS
  <1>1. \A e \in Exports : export[e] = NoExport BY DEF Init
  <1>2. NoExport \in Rows /\ RowOK(NoExport) /\ NoExport.pc = "idle"
        /\ NoExport.row = "none"
    BY DEF NoExport, Rows, RowOK
  <1>3. ExportsTyped BY <1>2 DEF Init, ExportsTyped
  <1>4. \A e \in Exports : ~Holds(e) BY <1>1, <1>2 DEF Holds
  <1>5. Explained BY DEF Init, Explained
  <1> QED BY <1>3, <1>4, <1>5, InitAccount
          DEF CopyInv, CopiesHeld, OneHolder

\* The copies and rows agree in every reachable state.
THEOREM SpecCopies == Spec => []CopyInv
  BY InitCopies, NextCopies, PTL DEF Spec

\* A finished export's row and its directory agree: whatever other runs are
\* given its directory, and whatever is reduced or purged later
\* (export_with, make_export).
THEOREM RowsTell == Spec => []RowTellsCopy
  <1>1. CopyInv => RowTellsCopy
    BY DEF CopyInv, CopiesHeld, Holds, RowTellsCopy, CopyAt
  <1> QED BY <1>1, SpecCopies, PTL

-----------------------------------------------------------------------------
(* What a purge reports, and the scrub.                                    *)

Reports == [pc : {"scrub", "done"}, seq : Nat, purged : SUBSET Bodies,
            shared : SUBSET Bodies, unreachable : SUBSET Targets,
            scrubbed : BOOLEAN]

Gone(H) == \A h \in H : body[h] = "purged"

\* What a purge removed, as its event and its report name it, is a tombstone
\* for good, so a later purge never adds to the residue of an earlier one.
RemovedGone ==
    \A p \in Projects : \A n \in 1..Len(log[p]) :
        log[p][n].type = "purged" => Gone(log[p][n].removed)

ReportsTyped ==
    /\ report \in [Projects -> {None} \cup Reports]
    /\ \A p \in Projects : report[p] # None => Gone(report[p].purged)

ScrubTyped == marker \in BOOLEAN /\ residue \subseteq Bodies

ReportInv ==
    CopyInv /\ RemovedGone /\ ReportsTyped /\ ScrubTyped /\ ScrubAccounted

\* Only rows of exports that were begun put a directory on a report.
LEMMA UnreachableTyped ==
    ASSUME ExportsTyped, NEW R, NEW b, NEW H
    PROVE  Unreachable(R, b, H) \in SUBSET Targets
  <1>1. ASSUME NEW e \in Exports, NEW h \in H, Received(R, b, e, h)
        PROVE  export[e].target \in Targets
    BY <1>1 DEF ExportsTyped, RowOK, Rows, Received
  <1> QED BY <1>1 DEF Unreachable

LEMMA ReportTyped ==
    ASSUME ExportsTyped, NEW e \in Events, e.type = "purged", NEW n \in Nat,
           NEW R, NEW b
    PROVE  /\ Report(e, n, R, b) \in Reports
           /\ Report(e, n, R, b).purged = e.removed
           /\ Report(e, n, R, b).scrubbed = FALSE
  <1>1. e.removed \in SUBSET Bodies /\ e.shared \in SUBSET Bodies
    BY DEF Events
  <1>2. Unreachable(R, b, e.removed \cup e.shared) \in SUBSET Targets
    BY UnreachableTyped
  <1> QED BY <1>1, <1>2 DEF Report, Reports

\* A command that is not a purge removes nothing from under a report.
LEMMA QuietReports ==
    ASSUME ReportInv, CopyInv', [Stay]_body, UNCHANGED <<marker, residue, report>>,
           NEW p, NEW e, NEW N, NEW S, Recorded(p, e, N, S), e.type # "purged"
    PROVE  ReportInv'
  <1>1. \A h \in Bodies : body[h] = "purged" => body'[h] = "purged"
    BY DEF Stay
  <1>2. /\ p \in Projects
        /\ Len(log[p]) \in Nat /\ NextSeq(p) = Len(log[p]) + 1
        /\ Len(log'[p]) = NextSeq(p) /\ log'[p][NextSeq(p)] = e
        /\ \A m \in 1..Len(log[p]) : log'[p][m] = log[p][m]
        /\ \A q \in Projects : q # p => log'[q] = log[q]
    BY RecordedLog DEF ReportInv, CopyInv
  <1>3. RemovedGone'
    <2> SUFFICES ASSUME NEW q \in Projects, NEW m \in 1..Len(log'[q]),
                        log'[q][m].type = "purged",
                        NEW h \in log'[q][m].removed
                 PROVE  body'[h] = "purged"
      BY DEF RemovedGone, Gone
    <2>1. m \in 1..Len(log[q]) /\ log'[q][m] = log[q][m]
      BY <1>2, SMTT(30)
    <2>2. body[h] = "purged" BY <2>1 DEF ReportInv, RemovedGone, Gone
    <2>3. log[q] \in Seq(Events)
      BY DEF ReportInv, CopyInv, AccountInv, IInv, Typed
    <2>4. log[q][m] \in Events BY <2>1, <2>3
    <2>5. h \in Bodies BY <2>1, <2>4 DEF Events
    <2> QED BY <2>2, <2>5, <1>1
  <1>4. ReportsTyped'
    <2>1. ASSUME NEW q \in Projects, report[q] # None
          PROVE  \A h \in report[q].purged : body'[h] = "purged"
      <3>1. report[q].purged \subseteq Bodies /\ Gone(report[q].purged)
        BY <2>1 DEF ReportInv, ReportsTyped, Reports
      <3> QED BY <3>1, <1>1 DEF Gone
    <2> QED BY <2>1 DEF ReportInv, ReportsTyped, Gone
  <1>5. ScrubTyped' /\ ScrubAccounted'
    BY DEF ReportInv, ScrubTyped, ScrubAccounted
  <1> QED BY <1>3, <1>4, <1>5 DEF ReportInv

\* A purge adds to the residue only what no earlier report removed.
LEMMA PurgeReports ==
    ASSUME ReportInv, CopyInv', NEW p \in Projects,
           NEW requested \in SUBSET Bodies, Purge(p, requested)
    PROVE  ReportInv'
  <1>1. PICK own \in SUBSET refs, removed \in SUBSET Bodies :
            /\ Recorded(p, PurgedEvent(requested, own, removed), {}, own)
            /\ \A h \in removed : body[h] \in {"present", "reduced"}
            /\ body' = [h \in Bodies |->
                           IF h \in removed THEN "purged" ELSE body[h]]
            /\ residue' = residue \cup removed
            /\ report' = [report EXCEPT ![p] =
                   Report(PurgedEvent(requested, own, removed), NextSeq(p),
                          refs', body')]
    BY PurgeRecords DEF ReportInv, CopyInv
  <1> DEFINE e == PurgedEvent(requested, own, removed)
             new == Report(e, NextSeq(p), refs', body')
  <1>2. e \in Events /\ e.type = "purged" /\ e.removed = removed
    BY <1>1 DEF Recorded, PurgedEvent
  <1>3. /\ Len(log[p]) \in Nat /\ NextSeq(p) = Len(log[p]) + 1
        /\ Len(log'[p]) = NextSeq(p) /\ log'[p][NextSeq(p)] = e
        /\ \A m \in 1..Len(log[p]) : log'[p][m] = log[p][m]
        /\ \A q \in Projects : q # p => log'[q] = log[q]
    BY <1>1, RecordedLog DEF ReportInv, CopyInv
  <1>4. marker' = TRUE /\ UNCHANGED outside BY DEF Purge
  <1> HIDE DEF e
  <1>5. new \in Reports /\ new.purged = removed /\ new.scrubbed = FALSE
    <2>1. ExportsTyped /\ NextSeq(p) \in Nat BY <1>3 DEF ReportInv, CopyInv
    <2> QED BY <1>2, <2>1, ReportTyped
  <1>6. report' = [report EXCEPT ![p] = new] BY <1>1 DEF e
  <1> HIDE DEF new
  <1>7. /\ \A h \in removed : body'[h] = "purged"
        /\ \A h \in Bodies : body[h] = "purged" => body'[h] = "purged"
    BY <1>1
  <1>8. RemovedGone'
    <2> SUFFICES ASSUME NEW q \in Projects, NEW m \in 1..Len(log'[q]),
                        log'[q][m].type = "purged",
                        NEW h \in log'[q][m].removed
                 PROVE  body'[h] = "purged"
      BY DEF RemovedGone, Gone
    <2>1. CASE q = p /\ m = NextSeq(p) BY <2>1, <1>2, <1>3, <1>7
    <2>2. CASE ~(q = p /\ m = NextSeq(p))
      <3>1. m \in 1..Len(log[q]) /\ log'[q][m] = log[q][m]
        BY <2>2, <1>3
      <3>2. body[h] = "purged" BY <3>1 DEF ReportInv, RemovedGone, Gone
      <3>3. log[q] \in Seq(Events)
        BY DEF ReportInv, CopyInv, AccountInv, IInv, Typed
      <3>4. log[q][m] \in Events BY <3>1, <3>3
      <3>5. h \in Bodies BY <3>1, <3>4 DEF Events
      <3> QED BY <3>2, <3>5, <1>7
    <2> QED BY <2>1, <2>2
  <1>9. ASSUME NEW q \in Projects, q # p, report'[q] # None
        PROVE  /\ report'[q] = report[q]
               /\ report[q].purged \subseteq Bodies /\ Gone(report[q].purged)
    BY <1>6, <1>9 DEF ReportInv, ReportsTyped, Reports
  <1>10. report'[p] = new BY <1>6 DEF ReportInv, ReportsTyped
  <1>11. ReportsTyped'
    <2>1. report' \in [Projects -> {None} \cup Reports]
      BY <1>5, <1>6 DEF ReportInv, ReportsTyped
    <2> QED BY <2>1, <1>5, <1>7, <1>9, <1>10 DEF ReportsTyped, Gone
  <1>12. ScrubAccounted'
    <2>1. ASSUME NEW q \in Projects, report'[q] # None, report'[q].scrubbed
          PROVE  report'[q].purged \cap residue' = {}
      <3>1. q # p BY <2>1, <1>5, <1>10
      <3>2. report[q].purged \cap removed = {}
        BY <2>1, <3>1, <1>1, <1>9 DEF Gone
      <3>3. report[q].purged \cap residue = {}
        BY <2>1, <3>1, <1>9 DEF ReportInv, ScrubAccounted
      <3> QED BY <2>1, <3>1, <3>2, <3>3, <1>1, <1>9
    <2> QED BY <2>1, <1>4 DEF ScrubAccounted
  <1>13. ScrubTyped' BY <1>1, <1>4 DEF ReportInv, ScrubTyped
  <1> QED BY <1>8, <1>11, <1>12, <1>13 DEF ReportInv

\* A replay reports what its event removed, a tombstone by now.
LEMMA ReplayReports ==
    ASSUME ReportInv, CopyInv', NEW p \in Projects, NEW n \in DOMAIN log[p],
           ReplayPurge(p, n)
    PROVE  ReportInv'
  <1> DEFINE e == log[p][n]
             new == Report(e, n, refs, body)
  <1>1. log[p] \in Seq(Events)
    BY DEF ReportInv, CopyInv, AccountInv, IInv, Typed
  <1>2. n \in 1..Len(log[p]) /\ n \in Nat /\ e \in Events BY <1>1
  <1>3. /\ e.type = "purged" /\ report' = [report EXCEPT ![p] = new]
        /\ UNCHANGED <<body, log, marker, residue>>
    BY DEF ReplayPurge, store
  <1>4. new \in Reports /\ new.purged = e.removed /\ new.scrubbed = FALSE
    <2>1. ExportsTyped BY DEF ReportInv, CopyInv
    <2> HIDE DEF e
    <2> QED BY <1>2, <1>3, <2>1, ReportTyped
  <1>5. Gone(e.removed) BY <1>2, <1>3 DEF ReportInv, RemovedGone
  <1> HIDE DEF e, new
  <1>6. /\ report'[p] = new
        /\ \A q \in Projects : q # p => report'[q] = report[q]
    BY <1>3 DEF ReportInv, ReportsTyped
  <1>7. ReportsTyped'
    <2>1. report' \in [Projects -> {None} \cup Reports]
      BY <1>3, <1>4 DEF ReportInv, ReportsTyped
    <2> QED BY <2>1, <1>3, <1>4, <1>5, <1>6
            DEF ReportInv, ReportsTyped, Gone
  <1>8. ScrubAccounted' BY <1>3, <1>4, <1>6 DEF ReportInv, ScrubAccounted
  <1> QED BY <1>3, <1>7, <1>8
          DEF ReportInv, RemovedGone, Gone, ScrubTyped

\* A scrub that completes leaves no residue for anyone's report.
LEMMA ScrubReports ==
    ASSUME ReportInv, CopyInv', ScrubDone \/ ScrubIncomplete,
           \/ report' = report
           \/ \E p \in Projects :
                 /\ report[p] # None
                 /\ \/ /\ ScrubDone
                       /\ report' = [report EXCEPT ![p].pc = "done",
                                                   ![p].scrubbed = TRUE]
                    \/ report' = [report EXCEPT ![p].pc = "done"]
    PROVE  ReportInv'
  <1>1. /\ UNCHANGED <<body, log>>
        /\ \/ residue' = {} /\ marker' = FALSE
           \/ residue' = residue /\ marker' = marker /\ ~ScrubDone
           \/ residue' = residue /\ marker' = marker /\ residue = {}
    <2>1. CASE ScrubDone BY <2>1 DEF ScrubDone
    <2>2. CASE ~ScrubDone BY <2>2 DEF ScrubIncomplete, store
    <2> QED BY <2>1, <2>2
  <1>2. /\ report \in [Projects -> {None} \cup Reports]
        /\ \A q \in Projects : report[q] # None => Gone(report[q].purged)
    BY DEF ReportInv, ReportsTyped
  <1>3. /\ report' \in [Projects -> {None} \cup Reports]
        /\ \A q \in Projects : report'[q] # None =>
              /\ report[q] # None
              /\ report'[q].purged = report[q].purged
              /\ report'[q].scrubbed => report[q].scrubbed \/ ScrubDone
    <2>1. CASE report' = report BY <2>1, <1>2
    <2>2. ASSUME NEW p \in Projects, report[p] # None, ScrubDone,
                 report' = [report EXCEPT ![p].pc = "done",
                                          ![p].scrubbed = TRUE]
          PROVE  <1>3!:
      <3> DEFINE w == [report[p] EXCEPT !.pc = "done", !.scrubbed = TRUE]
      <3>1. report[p] \in Reports BY <2>2, <1>2
      <3>2. w \in Reports /\ w.purged = report[p].purged
        BY <3>1 DEF Reports
      <3>3. report' = [report EXCEPT ![p] = w] BY <2>2
      <3> HIDE DEF w
      <3> QED BY <2>2, <3>2, <3>3, <1>2
    <2>3. ASSUME NEW p \in Projects, report[p] # None,
                 report' = [report EXCEPT ![p].pc = "done"]
          PROVE  <1>3!:
      <3> DEFINE w == [report[p] EXCEPT !.pc = "done"]
      <3>1. report[p] \in Reports BY <2>3, <1>2
      <3>2. /\ w \in Reports /\ w.purged = report[p].purged
            /\ w.scrubbed = report[p].scrubbed
        BY <3>1 DEF Reports
      <3>3. report' = [report EXCEPT ![p] = w] BY <2>3
      <3> HIDE DEF w
      <3> QED BY <2>3, <3>2, <3>3, <1>2
    <2> QED BY <2>1, <2>2, <2>3
  <1>4. RemovedGone' BY <1>1 DEF ReportInv, RemovedGone, Gone
  <1>5. ReportsTyped' BY <1>1, <1>2, <1>3 DEF ReportsTyped, Gone
  <1>6. ScrubTyped' BY <1>1 DEF ReportInv, ScrubTyped
  <1>7. ScrubAccounted'
    <2>1. \A q \in Projects : report[q] # None /\ report[q].scrubbed =>
              report[q].purged \cap residue = {}
      BY DEF ReportInv, ScrubAccounted
    <2>2. residue # {} => marker BY DEF ReportInv, ScrubAccounted
    <2> QED BY <1>1, <1>3, <2>1, <2>2 DEF ScrubAccounted
  <1> QED BY <1>4, <1>5, <1>6, <1>7 DEF ReportInv

\* Every step keeps the reports.
LEMMA NextReports == ReportInv /\ [Next]_vars => ReportInv'
  <1> SUFFICES ASSUME ReportInv, [Next]_vars PROVE ReportInv'
    OBVIOUS
  <1>1. CopyInv /\ CopyInv' BY NextCopies DEF ReportInv
  <1>2. AccountInv /\ [Stay]_body
    BY <1>1, TombstoneStep DEF CopyInv, AccountInv
  <1>3. ASSUME UNCHANGED <<body, log, marker, residue, report>>
        PROVE  ReportInv'
    BY <1>1, <1>3
    DEF ReportInv, RemovedGone, Gone, ReportsTyped, ScrubTyped, ScrubAccounted
  <1>4. CASE UNCHANGED vars BY <1>3, <1>4 DEF vars, store
  <1>5. CASE Scrub BY <1>1, <1>5, ScrubReports DEF Scrub
  <1>6. CASE \E i \in Readers : Reader(i) BY <1>3, <1>6 DEF Reader, store
  <1>7. ASSUME NEW p \in Projects, NEW h \in Bodies, NEW class \in Classes,
               Attach(p, h, class)
        PROVE  ReportInv'
    <2>1. Attached(h).type # "purged" BY DEF Attached
    <2>2. UNCHANGED <<marker, residue, report>> BY <1>7 DEF Attach
    <2> QED BY <1>1, <1>2, <1>7, <2>1, <2>2, AttachRecords, QuietReports
  <1>8. ASSUME NEW p \in Projects, NEW r \in refs, Reduce(p, r)
        PROVE  ReportInv'
    <2>1. Reduced(r.seq, r.hash).type # "purged" BY DEF Reduced
    <2>2. UNCHANGED <<marker, residue, report>> BY <1>8 DEF Reduce
    <2> QED BY <1>1, <1>2, <1>8, <2>1, <2>2, ReduceRecords, QuietReports
  <1>9. ASSUME NEW p \in Projects, NEW H \in SUBSET Bodies, Purge(p, H)
        PROVE  ReportInv'
    BY <1>1, <1>9, PurgeReports
  <1>10. ASSUME NEW p \in Projects, NEW n \in DOMAIN log[p], ReplayPurge(p, n)
         PROVE  ReportInv'
    BY <1>1, <1>10, ReplayReports
  <1>11. ASSUME NEW p \in Projects, PurgeScrub(p)
         PROVE  ReportInv'
    BY <1>1, <1>11, ScrubReports DEF PurgeScrub
  <1>12. ASSUME NEW p \in Projects, PurgeEnds(p)
         PROVE  ReportInv'
    <2>1. /\ report' = [report EXCEPT ![p] = None]
          /\ UNCHANGED <<body, log, marker, residue>>
      BY <1>12 DEF PurgeEnds, store
    <2>2. report \in [Projects -> {None} \cup Reports]
      BY DEF ReportInv, ReportsTyped
    <2>3. \A q \in Projects : report'[q] # None => report'[q] = report[q]
      BY <2>1, <2>2
    <2>4. ReportsTyped'
      BY <2>1, <2>2, <2>3 DEF ReportInv, ReportsTyped, Gone
    <2> QED BY <1>1, <2>1, <2>3, <2>4
            DEF ReportInv, RemovedGone, Gone, ScrubTyped, ScrubAccounted
  <1>13. ASSUME NEW e \in Exports,
                \/ \E p \in Projects, t \in Targets : ExportBegin(e, p, t)
                \/ ExportCopy(e) \/ ExportTaken(e) \/ ExportSettle(e)
                \/ ExportFails(e) \/ ExportForget(e) \/ ExportDies(e)
         PROVE  ReportInv'
    BY <1>3, <1>13
    DEF ExportBegin, ExportCopy, ExportTaken, ExportSettle, ExportFails,
        ExportForget, ExportDies, store
  <1> QED BY <1>4, <1>5, <1>6, <1>7, <1>8, <1>9, <1>10, <1>11, <1>12, <1>13
          DEF Next

LEMMA InitReports == Init => ReportInv
  <1> SUFFICES ASSUME Init PROVE ReportInv
    OBVIOUS
  <1>1. ASSUME NEW p \in Projects PROVE Len(log[p]) = 0
    <2>1. log[p] = << >> BY DEF Init
    <2> QED BY <2>1
  <1>2. RemovedGone BY <1>1 DEF RemovedGone
  <1>3. ReportsTyped /\ ScrubTyped /\ ScrubAccounted
    BY DEF Init, ReportsTyped, ScrubTyped, ScrubAccounted
  <1> QED BY <1>2, <1>3, InitCopies DEF ReportInv

\* Reports, marker and residue agree in every reachable state.
THEOREM SpecReports == Spec => []ReportInv
  BY InitReports, NextReports, PTL DEF Spec

\* The references name their events and the events their releases, and until
\* the bytes of every purged body are out of the file the marker says so, to
\* which every report of a complete scrub is true (retention.rs).
THEOREM AccountsKept == Spec => []RetentionInv
  <1>1. ReportInv => TypeOK
    <2> SUFFICES ASSUME ReportInv PROVE TypeOK
      OBVIOUS
    <2>1. \A r \in refs : /\ r.project \in Projects /\ r.hash \in Bodies
                          /\ r.class \in {"record", "output", "material"}
      BY DEF ReportInv, CopyInv, AccountInv, IInv, Typed, Refs
    <2>2. \A p \in Projects : DOMAIN log[p] = 1..Len(log[p])
      BY DEF ReportInv, CopyInv, AccountInv, IInv, Typed
    <2>3. \A r \in refs :
              /\ r.seq \in DOMAIN log[r.project]
              /\ r.released = 0 \/ r.released \in (r.seq + 1)..Len(log[r.project])
      BY <2>1, <2>2 DEF ReportInv, CopyInv, AccountInv, Sequenced
    <2>4. \A t \in Targets : disk[t] = None \/ disk[t] \subseteq Bodies
      BY DEF ReportInv, CopyInv, ExportsTyped
    <2>5. body \in [Bodies -> {"none", "present", "reduced", "purged"}]
      BY DEF ReportInv, CopyInv, AccountInv, IInv, Typed, States
    <2> QED BY <2>1, <2>3, <2>4, <2>5 DEF ReportInv, ScrubTyped, TypeOK
  <1>2. ReportInv => ReleasesFromLog BY AccountFromLog DEF ReportInv, CopyInv
  <1>3. ReportInv => RetentionInv
    BY <1>1, <1>2 DEF ReportInv, RetentionInv
  <1> QED BY <1>3, SpecReports, PTL

-----------------------------------------------------------------------------
\* An export that may have left the directory t and has reference to h, at
\* its head once it is final, puts t on every report about h.
LEMMA Listed ==
    ASSUME NEW R, NEW b, NEW H, NEW h \in H, NEW e \in Exports,
           \/ /\ export[e].row = "pending"
              /\ \E r \in R : r.project = export[e].project /\ r.hash = h
           \/ /\ export[e].row = "kept"
              /\ h \in {r.hash : r \in {r \in R :
                    /\ r.project = export[e].project
                    /\ r.seq <= export[e].head
                    /\ r.released = 0 \/ r.released > export[e].head}}
    PROVE  export[e].target \in Unreachable(R, b, H)
  <1>1. Received(R, b, e, h) BY DEF Received
  <1> QED BY <1>1 DEF Unreachable

\* A purge's report, when it is made, lists every directory that holds one of
\* the bodies it is about.
LEMMA ReportLists ==
    ASSUME ReportInv, [Next]_vars, NEW p \in Projects, NEW t \in Targets,
           report[p] = None, report'[p] # None, disk[t] # None,
           NEW h \in disk[t], h \in report'[p].purged \cup report'[p].shared
    PROVE  t \in report'[p].unreachable
  <1>1. CopyInv /\ CopyInv' BY NextCopies DEF ReportInv
  <1>2. report \in [Projects -> {None} \cup Reports]
    BY DEF ReportInv, ReportsTyped
  <1>3. ASSUME NEW event, NEW n, NEW R, NEW b,
               report' = [report EXCEPT ![p] = Report(event, n, R, b)],
               NEW e \in Exports, export[e].target = t,
               \/ /\ export[e].row = "pending"
                  /\ \E r \in R : r.project = export[e].project /\ r.hash = h
               \/ /\ export[e].row = "kept"
                  /\ h \in {r.hash : r \in {r \in R :
                        /\ r.project = export[e].project
                        /\ r.seq <= export[e].head
                        /\ r.released = 0 \/ r.released > export[e].head}}
        PROVE  t \in report'[p].unreachable
    <2>1. report'[p] = Report(event, n, R, b) BY <1>2, <1>3
    <2>2. h \in event.removed \cup event.shared BY <2>1 DEF Report
    <2>3. t \in Unreachable(R, b, event.removed \cup event.shared)
      BY <1>3, <2>2, Listed
    <2> QED BY <2>1, <2>3 DEF Report
  <1>4. PICK e \in Exports : Explains(e, t) BY <1>1 DEF CopyInv, Explained
  <1>5. ASSUME NEW H \in SUBSET Bodies, Purge(p, H)
        PROVE  t \in report'[p].unreachable
    <2>1. export' = export /\ disk' = disk BY <1>5 DEF Purge, outside
    <2>2. PICK f \in Exports : Explains(f, t)'
      BY <1>1, <2>1 DEF CopyInv, Explained
    <2>3. export[f].row = "kept" =>
              disk[t] = CopyAt(export[f].project, export[f].head)'
      BY <1>1, <2>1, <2>2 DEF CopyInv, CopiesHeld, Holds, Explains, CopyAt
    <2>4. \E event \in Events, n \in Nat :
              report' = [report EXCEPT ![p] = Report(event, n, refs', body')]
      <3>1. PICK own \in SUBSET refs, removed \in SUBSET Bodies :
                /\ Recorded(p, PurgedEvent(H, own, removed), {}, own)
                /\ report' = [report EXCEPT ![p] =
                       Report(PurgedEvent(H, own, removed), NextSeq(p),
                              refs', body')]
        BY <1>1, <1>5, PurgeRecords DEF CopyInv
      <3>2. PurgedEvent(H, own, removed) \in Events BY <3>1 DEF Recorded
      <3>3. NextSeq(p) \in Nat
        BY <1>1, NextSeqPositive DEF CopyInv, AccountInv, IInv
      <3> QED BY <3>1, <3>2, <3>3
    <2>5. PICK event \in Events, n \in Nat :
              report' = [report EXCEPT ![p] = Report(event, n, refs', body')]
      BY <2>4
    <2>6. export[f].target = t /\ export[f].row \in {"pending", "kept"}
      BY <2>1, <2>2 DEF Explains
    <2>7. CASE export[f].row = "pending"
      <3>1. \E r \in refs' : r.project = export[f].project /\ r.hash = h
        BY <2>1, <2>2 DEF Explains
      <3> QED BY <1>3, <2>5, <2>6, <2>7, <3>1
    <2>8. CASE export[f].row = "kept"
      <3>1. h \in {r.hash : r \in {r \in refs' :
                  /\ r.project = export[f].project
                  /\ r.seq <= export[f].head
                  /\ r.released = 0 \/ r.released > export[f].head}}
        BY <2>1, <2>3, <2>8 DEF CopyAt
      <3> QED BY <1>3, <2>5, <2>6, <2>8, <3>1
    <2> QED BY <2>6, <2>7, <2>8
  <1>6. ASSUME NEW n \in DOMAIN log[p], ReplayPurge(p, n)
        PROVE  t \in report'[p].unreachable
    <2>1. report' = [report EXCEPT ![p] = Report(log[p][n], n, refs, body)]
      BY <1>6 DEF ReplayPurge
    <2>2. export[e].target = t /\ export[e].row \in {"pending", "kept"}
      BY <1>4 DEF Explains
    <2>3. CASE export[e].row = "pending"
      <3>1. \E r \in refs : r.project = export[e].project /\ r.hash = h
        BY <1>4 DEF Explains
      <3> QED BY <1>3, <2>1, <2>2, <2>3, <3>1
    <2>4. CASE export[e].row = "kept"
      <3>1. disk[t] = CopyAt(export[e].project, export[e].head)
        BY <1>1, <2>2, <2>4 DEF CopyInv, CopiesHeld, Holds
      <3>2. h \in {r.hash : r \in {r \in refs :
                  /\ r.project = export[e].project
                  /\ r.seq <= export[e].head
                  /\ r.released = 0 \/ r.released > export[e].head}}
        BY <3>1 DEF CopyAt
      <3> QED BY <1>3, <2>1, <2>2, <2>4, <3>2
    <2> QED BY <2>2, <2>3, <2>4
  <1>7. \/ \E H \in SUBSET Bodies : Purge(p, H)
        \/ \E n \in DOMAIN log[p] : ReplayPurge(p, n)
    <2>1. report'[p] # report[p] OBVIOUS
    <2>2. ASSUME NEW q \in Projects,
                 \/ \E H \in SUBSET Bodies : Purge(q, H)
                 \/ \E n \in DOMAIN log[q] : ReplayPurge(q, n)
                 \/ PurgeScrub(q)
                 \/ PurgeEnds(q)
          PROVE  q = p
      <3>1. \E w : report' = [report EXCEPT ![q] = w]
        BY <2>2 DEF Purge, ReplayPurge, PurgeScrub, PurgeEnds
      <3> QED BY <3>1, <2>1, <1>2
    <2>3. ~PurgeScrub(p) /\ ~PurgeEnds(p) BY DEF PurgeScrub, PurgeEnds
    <2>4. ~UNCHANGED report BY <2>1
    <2>5. \/ \E q \in Projects :
                \/ \E H \in SUBSET Bodies : Purge(q, H)
                \/ \E n \in DOMAIN log[q] : ReplayPurge(q, n)
                \/ PurgeScrub(q)
                \/ PurgeEnds(q)
          \/ UNCHANGED report
      BY DEF Next, vars, Scrub, Reader, Attach, Reduce, ExportBegin, ExportCopy,
             ExportTaken, ExportSettle, ExportFails, ExportForget, ExportDies
    <2> QED BY <2>2, <2>3, <2>4, <2>5
  <1> QED BY <1>5, <1>6, <1>7

\* A purge report names every directory that holds one of its bodies, for
\* whatever exports are under way, finished, failed or dead
\* (export_targets).
THEOREM CopiesNamed == Spec => CopiesListed
  <1> DEFINE Lists == \A p \in Projects :
                 report[p] = None /\ report'[p] # None =>
                     \A t \in Targets :
                         /\ disk[t] # None
                         /\ disk[t] \cap (report'[p].purged \cup report'[p].shared) # {}
                         => t \in report'[p].unreachable
  <1>1. ReportInv /\ [Next]_vars => [Lists]_report
    <2> SUFFICES ASSUME ReportInv, [Next]_vars,
                        NEW p \in Projects, NEW t \in Targets,
                        report[p] = None, report'[p] # None, disk[t] # None,
                        disk[t] \cap (report'[p].purged \cup report'[p].shared) # {}
                 PROVE  t \in report'[p].unreachable
      OBVIOUS
    <2>1. PICK h \in disk[t] : h \in report'[p].purged \cup report'[p].shared
      OBVIOUS
    <2> QED BY <2>1, ReportLists
  <1> QED BY <1>1, SpecReports, PTL DEF Spec, CopiesListed
=============================================================================

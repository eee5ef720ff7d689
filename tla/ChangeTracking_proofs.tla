------------------------ MODULE ChangeTracking_proofs ------------------------
(***************************************************************************)
(* What every step does to the versions of the rows, to the writes still   *)
(* due and to the change log.  From it: a changed() query loses no write,  *)
(* however the entity moves between archetypes with and without version    *)
(* tracking and whether or not the empty ones are compacted away; and the  *)
(* change log stays sorted, halved or not.                                 *)
(*                                                                         *)
(* Then what take() of a ChangeView reports: in the steady state exactly   *)
(* the entities written since the last take(), otherwise every one of them *)
(* unless a removal has downgraded a maximum, and never another that has   *)
(* not moved.  For the view compact() is called while no view is in use.   *)
(*                                                                         *)
(* For every set of entities and components and every cap of the log.      *)
(***************************************************************************)
EXTENDS ChangeTracking, SequenceTheorems, FiniteSetTheorems, TLAPS

(***************************************************************************)
(* Picking the elements of a sequence at some places.                      *)
(***************************************************************************)

\* The elements of a finite set of numbers have the ranks 1, 2, ... : ranks are
\* distinct and there are as many as elements.
LEMMA Ranks ==
  ASSUME NEW n \in Nat, NEW I \in SUBSET (1..n)
  PROVE  /\ IsFiniteSet(I) /\ Cardinality(I) \in Nat
         /\ \A i \in I : Cardinality({j \in I : j <= i}) \in 1..Cardinality(I)
         /\ \A i, k \in I : Cardinality({j \in I : j <= i}) = Cardinality({j \in I : j <= k}) => i = k
         /\ \A r \in 1..Cardinality(I) : \E i \in I : Cardinality({j \in I : j <= i}) = r
<1> DEFINE upTo(i) == {j \in I : j <= i}
           m == Cardinality(I)
           f == [i \in I |-> Cardinality(upTo(i))]
<1>1. IsFiniteSet(I) /\ m \in Nat
  <2>1. 1 \in Int /\ n \in Int
    OBVIOUS
  <2>2. IsFiniteSet(1..n)
    BY <2>1, FS_Interval
  <2> QED BY <2>2, FS_Subset, FS_CardinalityType
<1>2. ASSUME NEW i \in I PROVE IsFiniteSet(upTo(i)) /\ Cardinality(upTo(i)) \in 1..m
  <2>1. upTo(i) \in SUBSET I /\ i \in upTo(i)
    OBVIOUS
  <2> HIDE DEF upTo
  <2>2. IsFiniteSet(upTo(i)) /\ Cardinality(upTo(i)) <= m
    BY <1>1, <2>1, FS_Subset
  <2>3. Cardinality(upTo(i)) \in Nat /\ Cardinality(upTo(i)) # 0
    BY <2>1, <2>2, FS_CardinalityType, FS_EmptySet
  <2> QED BY <1>1, <2>2, <2>3
<1>3. ASSUME NEW i \in I, NEW k \in I, i < k PROVE Cardinality(upTo(i)) # Cardinality(upTo(k))
  <2>1. upTo(i) \in SUBSET upTo(k) /\ k \in upTo(k) /\ k \notin upTo(i)
    <3>1. i \in Nat /\ k \in Nat /\ \A j \in I : j \in Nat
      OBVIOUS
    <3>2. \A j \in I : j <= i => j <= k
      BY <1>3, <3>1
    <3>3. k <= k /\ ~(k <= i)
      BY <1>3, <3>1
    <3> QED BY <3>2, <3>3
  <2>2. IsFiniteSet(upTo(k))
    BY <1>2
  <2> HIDE DEF upTo
  <2> QED BY <2>1, <2>2, FS_Subset
<1>4. \A i, k \in I : f[i] = f[k] => i = k
  <2>1. \A i, k \in I : i < k \/ k < i \/ i = k
    OBVIOUS
  <2>2. \A i \in I : f[i] = Cardinality(upTo(i))
    OBVIOUS
  <2> HIDE DEF f, upTo
  <2> QED BY <1>3, <2>1, <2>2
<1>5. f \in Injection(I, 1..m)
  <2>1. f \in [I -> 1..m]
    <3> HIDE DEF upTo, m
    <3> QED BY <1>2
  <2> HIDE DEF f
  <2> QED BY <1>4, <2>1 DEF Injection, IsInjective
<1>6. IsFiniteSet(1..m) /\ Cardinality(1..m) = m
  <2>1. 1 \in Int /\ m \in Int /\ (1 > m => m = 0)
    BY <1>1
  <2> HIDE DEF m
  <2>2. IsFiniteSet(1..m) /\ Cardinality(1..m) = IF 1 > m THEN 0 ELSE m - 1 + 1
    BY <2>1, FS_Interval
  <2> QED BY <2>1, <2>2
<1>7. f \in Surjection(I, 1..m)
  <2> HIDE DEF f, m
  <2>1. Cardinality(I) = Cardinality(1..m)
    BY <1>6 DEF m
  <2> QED BY <1>5, <1>6, <2>1, FS_Injection
<1>8. \A r \in 1..m : \E i \in I : f[i] = r
  <2> HIDE DEF f, m
  <2> QED BY <1>7 DEF Surjection
<1> QED BY <1>1, <1>2, <1>4, <1>8

\* What is picked depends on the places picked alone.
LEMMA PickedSame ==
  ASSUME NEW n \in Nat, NEW I \in SUBSET (1..n), NEW s, NEW z, \A i \in I : s[i] = z[i]
  PROVE  Picked(s, I) = Picked(z, I)
<1> DEFINE at(r) == CHOOSE i \in I : Cardinality({j \in I : j <= i}) = r
<1>1. \A r \in 1..Cardinality(I) : \E i \in I : Cardinality({j \in I : j <= i}) = r
  BY Ranks
<1>4. \A r \in 1..Cardinality(I) : at(r) \in I
  BY <1>1
<1>2. Picked(s, I) = [r \in 1..Cardinality(I) |-> s[at(r)]]
  BY DEF Picked
<1>3. Picked(z, I) = [r \in 1..Cardinality(I) |-> z[at(r)]]
  BY DEF Picked
<1> HIDE DEF at
<1> QED BY <1>2, <1>3, <1>4

\* Picked() has an element for each place and nothing else.
LEMMA PickedProperties ==
  ASSUME NEW S, NEW s \in Seq(S), NEW I \in SUBSET DOMAIN s
  PROVE  /\ Picked(s, I) \in Seq(S)
         /\ Len(Picked(s, I)) = Cardinality(I)
         /\ IsFiniteSet(I) /\ Cardinality(I) \in Nat
         /\ \A r \in DOMAIN Picked(s, I) : \E i \in I : Picked(s, I)[r] = s[i]
         /\ \A i \in I : \E r \in DOMAIN Picked(s, I) : Picked(s, I)[r] = s[i]
<1> DEFINE rank(i) == Cardinality({j \in I : j <= i})
           at(r) == CHOOSE i \in I : rank(i) = r
           m == Cardinality(I)
<1>1. Len(s) \in Nat /\ DOMAIN s = 1..Len(s) /\ I \in SUBSET (1..Len(s))
  BY LenProperties
<1>2. /\ IsFiniteSet(I) /\ m \in Nat
      /\ \A i \in I : rank(i) \in 1..m
      /\ \A i, k \in I : rank(i) = rank(k) => i = k
      /\ \A r \in 1..m : \E i \in I : rank(i) = r
  BY <1>1, Ranks
<1> HIDE DEF rank
<1>3. \A r \in 1..m : at(r) \in I /\ rank(at(r)) = r
  BY <1>2
<1>4. Picked(s, I) = [r \in 1..m |-> s[at(r)]]
  BY DEF Picked, rank
<1> HIDE DEF at, m
<1>5. \A i \in I : s[i] \in S
  BY <1>1, ElementOfSeq
<1>6. Picked(s, I) \in Seq(S) /\ Len(Picked(s, I)) = m /\ DOMAIN Picked(s, I) = 1..m
  <2>1. Picked(s, I) \in [1..m -> S]
    BY <1>3, <1>4, <1>5
  <2>2. Picked(s, I) \in Seq(S)
    BY <1>2, <2>1, SeqDef
  <2> QED BY <1>2, <1>4, <2>2, LenProperties
<1>7. \A i \in I : rank(i) \in 1..m /\ at(rank(i)) = i
  BY <1>2, <1>3
<1> QED BY <1>2, <1>3, <1>4, <1>6, <1>7 DEF m

(***************************************************************************)
(* The inductive invariant.                                                *)
(***************************************************************************)

\* No version is from the future.
ColumnsOK ==
  /\ Alive \subseteq Entity /\ place \in [Alive -> Archetypes]
  /\ {} \in Archetypes /\ Archetypes \subseteq SUBSET Comp
  /\ tracking \in [Archetypes -> SUBSET Comp]
  /\ \A A \in Archetypes : tracking[A] \subseteq A
  /\ tick \in 1..MaxTick
  /\ version \in [Alive -> [Comp -> 0..tick]]
  /\ maxVersion \in [Archetypes -> [Comp -> 0..tick]]

ListOK ==
  /\ archList \in Seq((SUBSET Comp) \X Addr)
  /\ {archList[i][1] : i \in DOMAIN archList} = Archetypes

BasesOK ==
  /\ queryBase \in 0..tick
  /\ view \in [made : BOOLEAN, base : 0..tick, pos : Nat, gen : Nat, warm : BOOLEAN,
               last : Seq(Addr)]
  /\ view.gen <= logGen
  /\ view.warm => view.made
  /\ viewMayAdd \subseteq Entity

Entry == [ent : Entity, comp : Comp, tick : 1..MaxTick]

LogOK == log \in Seq(Entry) /\ LogSorted /\ logGen \in Nat

\* What a reader with the baseline b has not seen of component t of e: it is
\* newer, by the version of the row where the column is tracked, and where it is
\* not by the clock, with which the next scan will stamp the row.
Newer(b, e, t) ==
  /\ e \in Alive /\ t \in place[e] /\ b < tick
  /\ t \in tracking[place[e]] => b < version[e][t]

Owed(D, b, T) == \A d \in D : d \in Entity \X T /\ Newer(b, d[1], d[2])

DueInv == Owed(queryDue, queryBase, QueryChanged) /\ Owed(viewDue, view.base, Watched)

ChangeInv == ColumnsOK /\ ListOK /\ BasesOK /\ LogOK /\ DueInv

(***************************************************************************)
(* What a step does, in which the entities M move and <<entity, component>> *)
(* of w are written.                                                       *)
(***************************************************************************)

\* A row that moves takes its version along where both columns have history,
\* and gets the clock where only the new one has.
Rows(M, w) ==
  /\ tick <= tick' /\ (w # {} => tick < tick')
  /\ M \subseteq Alive \cap Alive'
  /\ \A A \in Archetypes \cap Archetypes' : tracking[A] \subseteq tracking'[A]
  /\ \A x \in Alive' \ M : IF x \in Alive THEN place'[x] = place[x] ELSE place'[x] = {}
  /\ \A x \in Alive \cap Alive' : \A u \in tracking'[place'[x]] :
       version'[x][u] = IF <<x, u>> \in w THEN tick'
                        ELSE IF u \in tracking[place[x]] THEN version[x][u]
                        ELSE tick
  /\ \A x \in M : \A u \in place'[x] : u \in place[x] \/ <<x, u>> \in w
  /\ \A d \in w : d \in Entity \X Comp /\ d[1] \in Alive \cap Alive' /\ d[2] \in place'[d[1]]

\* What of D is due after the step.
StillDue(D, T, w) ==
  {d \in D : d[1] \in Alive' /\ d[2] \in place'[d[1]]} \cup {d \in w : d[2] \in T}

\* The log is kept and what is written appended, unless its generation says that
\* the older half of it, or all, was dropped.
LogStep(w) ==
  /\ logGen' \in {logGen, logGen + 1}
  /\ \A i \in DOMAIN log' :
       \/ \E j \in DOMAIN log : log'[i] = log[j]
       \/ \E d \in w : log'[i] = [ent |-> d[1], comp |-> d[2], tick |-> tick']
  /\ logGen' = logGen =>
       /\ Len(log) <= Len(log')
       /\ \A i \in 1..Len(log) : log'[i] = log[i]
       /\ \A d \in w : d[2] \in tracking'[place'[d[1]]] =>
            \E i \in Len(log) + 1..Len(log') :
              log'[i] = [ent |-> d[1], comp |-> d[2], tick |-> tick']

ViewStep(M, w) ==
  /\ Rows(M, w) /\ LogStep(w)
  /\ viewDue' = StillDue(viewDue, Watched, w)
  /\ viewMayAdd' = viewMayAdd \cup M
  /\ UNCHANGED view

StepDoes(M, w) ==
  /\ ViewStep(M, w)
  /\ queryDue' = StillDue(queryDue, QueryChanged, w)
  /\ queryBase' \in Nat /\ queryBase' <= queryBase

\* Archetypes are appended to the list, one at a time.
Arrives(A, a) ==
  /\ A \in SUBSET Comp /\ A \notin Archetypes /\ a \in Addr
  /\ archList' = Append(archList, <<A, a>>)
  /\ Archetypes' = Archetypes \cup {A}

ListStep ==
  \/ archList' = archList /\ Archetypes' = Archetypes
  \/ \E A, a : Arrives(A, a)

\* What is newer stays newer as long as it is there, and what is written is
\* newer than every baseline.
LEMMA NewerStays ==
  ASSUME ColumnsOK, ColumnsOK', NEW M, NEW w, Rows(M, w), NEW b \in Nat, NEW x, NEW u,
         \/ Newer(b, x, u) /\ x \in Alive' /\ u \in place'[x]
         \/ <<x, u>> \in w /\ b <= tick
  PROVE  Newer(b, x, u)'
<1>1. x \in Alive /\ x \in Alive' /\ u \in place'[x]
  BY DEF Rows, Newer
<1>2. tick \in Nat /\ tick' \in Nat /\ tick <= tick' /\ b < tick'
  BY DEF ColumnsOK, Rows, Newer
<1>3. ASSUME u \in tracking'[place'[x]] PROVE b < version'[x][u]
  <2>1. version'[x][u] = IF <<x, u>> \in w THEN tick'
                         ELSE IF u \in tracking[place[x]] THEN version[x][u] ELSE tick
    BY <1>1, <1>3 DEF Rows
  <2> QED BY <1>2, <2>1 DEF Newer
<1> QED BY <1>1, <1>2, <1>3 DEF Newer

\* What a view is owed is still visible to it after the rows have moved.
LEMMA ViewDueStays ==
  ASSUME ChangeInv, ColumnsOK', NEW M, NEW w, Rows(M, w),
         viewDue' = StillDue(viewDue, Watched, w), UNCHANGED view
  PROVE  Owed(viewDue, view.base, Watched)'
<1>1. PICK b \in Nat : b = view.base /\ b <= tick
  BY DEF ChangeInv, BasesOK, ColumnsOK
<1>2. ASSUME NEW d \in viewDue' PROVE d \in Entity \X Watched /\ Newer(b, d[1], d[2])'
  <2>1. \/ d \in viewDue /\ d[1] \in Alive' /\ d[2] \in place'[d[1]]
        \/ d \in w /\ d[2] \in Watched
    BY <1>2 DEF StillDue
  <2>2. d \in Entity \X Watched /\ d = <<d[1], d[2]>>
    BY <2>1 DEF ChangeInv, DueInv, Owed, Rows
  <2>3. \/ Newer(b, d[1], d[2]) /\ d[1] \in Alive' /\ d[2] \in place'[d[1]]
        \/ <<d[1], d[2]>> \in w /\ b <= tick
    BY <1>1, <2>1, <2>2 DEF ChangeInv, DueInv, Owed
  <2> QED BY <2>2, <2>3, NewerStays DEF ChangeInv
<1> QED BY <1>1, <1>2 DEF Owed, Newer

\* So is what a query is owed.
LEMMA QueryDueStays ==
  ASSUME ChangeInv, ColumnsOK', NEW M, NEW w, Rows(M, w),
         queryDue' = StillDue(queryDue, QueryChanged, w),
         queryBase' \in Nat, queryBase' <= queryBase
  PROVE  Owed(queryDue, queryBase, QueryChanged)'
<1>1. PICK b \in Nat : b = queryBase'
  OBVIOUS
<1>2. b <= queryBase /\ b <= tick /\ queryBase \in Nat /\ tick \in Nat
  BY <1>1 DEF ChangeInv, BasesOK, ColumnsOK
<1>3. ASSUME NEW d \in queryDue' PROVE d \in Entity \X QueryChanged /\ Newer(b, d[1], d[2])'
  <2>1. \/ d \in queryDue /\ d[1] \in Alive' /\ d[2] \in place'[d[1]]
        \/ d \in w /\ d[2] \in QueryChanged
    BY <1>3 DEF StillDue
  <2>2. d \in Entity \X QueryChanged /\ d = <<d[1], d[2]>>
    BY <2>1 DEF ChangeInv, DueInv, Owed, Rows
  <2>3. ASSUME d \in queryDue PROVE Newer(b, d[1], d[2])
    <3>1. Newer(queryBase, d[1], d[2])
      BY <2>3 DEF ChangeInv, DueInv, Owed
    <3>2. d[1] \in Alive /\ d[2] \in Comp /\ version[d[1]][d[2]] \in Nat
      BY <2>2, <3>1, ChangeTrackingAssumption DEF Newer, ChangeInv, ColumnsOK
    <3> QED BY <1>2, <3>1, <3>2 DEF Newer
  <2>4. \/ Newer(b, d[1], d[2]) /\ d[1] \in Alive' /\ d[2] \in place'[d[1]]
        \/ <<d[1], d[2]>> \in w /\ b <= tick
    BY <1>2, <2>1, <2>2, <2>3
  <2> QED BY <2>2, <2>4, NewerStays DEF ChangeInv
<1> QED BY <1>1, <1>3 DEF Owed, Newer

(***************************************************************************)
(* Rows: one lemma per way a row gets its version.                         *)
(***************************************************************************)

\* Turning tracking on stamps the rows that had no version with the clock.
LEMMA TrackingRows ==
  ASSUME ColumnsOK, NEW As, NEW T \in SUBSET Comp,
         tracking' = TrackingOn(As, T), version' = VersionsOn(As, T),
         maxVersion' = MaximaOn(As, T), UNCHANGED <<place, tick>>
  PROVE  ColumnsOK' /\ Rows({}, {})
<1>1. /\ Alive' = Alive /\ Archetypes' = Archetypes /\ tick \in 0..tick
      /\ \A A \in Archetypes : tracking'[A] =
           IF A \in As THEN tracking[A] \cup (T \cap A) ELSE tracking[A]
  BY DEF TrackingOn, Alive, Archetypes, ColumnsOK
<1>2. \A x \in Alive, u \in Comp :
        version'[x][u] = IF place[x] \in As /\ u \in Stamped(place[x], T) THEN tick
                         ELSE version[x][u]
  BY DEF VersionsOn
<1>3. version' \in [Alive -> [Comp -> 0..tick]]
  BY <1>1 DEF VersionsOn, ColumnsOK
<1>4. maxVersion' \in [Archetypes -> [Comp -> 0..tick]]
  BY <1>1 DEF MaximaOn, ColumnsOK
<1>5. tracking' \in [Archetypes -> SUBSET Comp] /\ \A A \in Archetypes : tracking'[A] \subseteq A
  BY <1>1 DEF TrackingOn, ColumnsOK
<1>6. ColumnsOK'
  BY <1>1, <1>3, <1>4, <1>5 DEF ColumnsOK
<1>7. ASSUME NEW x \in Alive, NEW u \in tracking'[place'[x]]
      PROVE  version'[x][u] = IF u \in tracking[place[x]] THEN version[x][u] ELSE tick
  <2>1. place[x] \in Archetypes /\ u \in Comp
    BY <1>5, <1>7 DEF ColumnsOK
  <2>2. u \in tracking[place[x]] \/ (place[x] \in As /\ u \in Stamped(place[x], T))
    BY <1>1, <1>7, <2>1 DEF Stamped
  <2>3. u \in Stamped(place[x], T) => u \notin tracking[place[x]]
    BY DEF Stamped
  <2> QED BY <1>2, <2>1, <2>2, <2>3
<1>8. tick <= tick
  BY DEF ColumnsOK
<1> QED BY <1>1, <1>6, <1>7, <1>8 DEF Rows, ColumnsOK

\* e moves to B with the versions v, of which those of w are written and the
\* others brought along.
LEMMA MoveRows ==
  ASSUME ColumnsOK, NEW e \in Alive, NEW B \in SUBSET Comp, NEW v, NEW w \in SUBSET ({e} \X B),
         Move(e, B), \A u \in B : u \in place[e] \/ <<e, u>> \in w,
         version' = [version EXCEPT ![e] = v],
         v \in [Comp -> 0..tick'],
         \A c \in Comp : v[c] = IF <<e, c>> \in w /\ c \in tracking'[B] THEN tick'
                                ELSE ArrivalVersion(e, B, c),
         tick' \in tick..MaxTick, w # {} => tick < tick',
         maxVersion' \in [Archetypes \cup {B} -> [Comp -> 0..tick']]
  PROVE  ColumnsOK' /\ Rows({e}, w)
<1>1. /\ place' = [place EXCEPT ![e] = B] /\ tracking' = TrackingWith(B)
      /\ Alive' = Alive /\ Archetypes' = Archetypes \cup {B}
      /\ place'[e] = B /\ \A x \in Alive : x # e => place'[x] = place[x]
  BY DEF Move, TrackingWith, Alive, Archetypes, ColumnsOK
<1>2. /\ tracking' \in [Archetypes \cup {B} -> SUBSET Comp]
      /\ \A A \in Archetypes : tracking'[A] = tracking[A]
      /\ \A A \in Archetypes \cup {B} : tracking'[A] \subseteq A
  BY <1>1 DEF TrackingWith, ColumnsOK
<1>3. tick \in Nat /\ tick' \in Nat /\ tick <= tick' /\ tick' \in 1..MaxTick
  BY DEF ColumnsOK
<1>4. version' \in [Alive -> [Comp -> 0..tick']]
  <2>1. \A n \in 0..tick : n \in 0..tick'
    BY <1>3
  <2>2. ASSUME NEW x \in Alive PROVE version'[x] \in [Comp -> 0..tick']
    <3>1. version[x] \in [Comp -> 0..tick']
      BY <2>1 DEF ColumnsOK
    <3> QED BY <3>1 DEF ColumnsOK
  <2> QED BY <2>2 DEF ColumnsOK
<1>5. ColumnsOK'
  BY <1>1, <1>2, <1>3, <1>4 DEF ColumnsOK
<1>6. ASSUME NEW x \in Alive, NEW u \in tracking'[place'[x]]
      PROVE  version'[x][u] = IF <<x, u>> \in w THEN tick'
                              ELSE IF u \in tracking[place[x]] THEN version[x][u] ELSE tick
  <2>1. CASE x # e
    <3>1. /\ place'[x] = place[x] /\ place[x] \in Archetypes /\ version'[x] = version[x]
          /\ tracking'[place[x]] = tracking[place[x]]
      BY <1>1, <1>2, <2>1 DEF ColumnsOK
    <3> QED BY <1>6, <2>1, <3>1
  <2>2. CASE x = e
    <3>1. place'[e] = B /\ version'[e] = v /\ u \in tracking'[B] /\ u \in B /\ u \in Comp
      BY <1>1, <1>2, <1>6, <2>2 DEF ColumnsOK
    <3>2. place[e] \in Archetypes /\ tracking[place[e]] \subseteq place[e]
      BY DEF ColumnsOK
    <3>3. ArrivalVersion(e, B, u) = IF u \in tracking[place[e]] THEN version[e][u] ELSE tick
      BY <1>1, <3>1, <3>2 DEF ArrivalVersion
    <3> QED BY <2>2, <3>1, <3>3
  <2> QED BY <2>1, <2>2
<1>7. \A A \in Archetypes \cap Archetypes' : tracking[A] \subseteq tracking'[A]
  BY <1>2
<1>8. \A d \in w : d \in Entity \X Comp /\ d[1] \in Alive /\ d[2] \in place'[d[1]]
  BY <1>1 DEF ColumnsOK
<1>9. \A x \in {e} : \A u \in place'[x] : u \in place[x] \/ <<x, u>> \in w
  BY <1>1
<1> QED BY <1>1, <1>3, <1>5, <1>6, <1>7, <1>8, <1>9 DEF Rows

\* Versions of a row that arrives in another archetype.
LEMMA ArrivalType ==
  ASSUME ColumnsOK, NEW e \in Alive, NEW B \in SUBSET Comp
  PROVE  /\ \A c \in Comp : ArrivalVersion(e, B, c) \in 0..tick
         /\ MaxAfterMove(e, B) \in [Archetypes \cup {B} -> [Comp -> 0..tick]]
<1>1. tick \in Nat /\ place[e] \in Archetypes
  BY DEF ColumnsOK
<1>2. \A c \in Comp : ArrivalVersion(e, B, c) \in 0..tick
  BY <1>1 DEF ArrivalVersion, ColumnsOK
<1>3. Leave(e) \in [Archetypes -> [Comp -> 0..tick]]
  BY <1>1 DEF Leave, MaxAfterRemoval, ColumnsOK
<1>4. ASSUME NEW c \in Comp, c \in TrackingWith(B)[B]
      PROVE  Larger(maxVersion[B][c], tick) \in 0..tick
  <2>1. B \in Archetypes
    BY <1>4 DEF TrackingWith
  <2> QED BY <1>1, <2>1 DEF Larger, ColumnsOK
<1> QED BY <1>1, <1>2, <1>3, <1>4 DEF MaxAfterMove

(***************************************************************************)
(* The log.                                                                *)
(***************************************************************************)

\* Appending at the new time keeps the log sorted, and so does dropping its
\* older half.
LEMMA LogChangeStep ==
  ASSUME LogOK, tick \in Nat, NEW e \in Entity, NEW t \in Comp, LogChange(e, t, tick + 1),
         tick' = tick + 1, tick + 1 \in 1..MaxTick
  PROVE  LogOK' /\ LogStep({<<e, t>>})
<1> DEFINE x == [ent |-> e, comp |-> t, tick |-> tick + 1]
           longer == Append(log, x)
           half == Len(longer) \div 2
<1>1. x \in Entry /\ Len(log) \in Nat /\ DOMAIN log = 1..Len(log) /\ x.tick = tick + 1
  BY LenProperties DEF LogOK, Entry
<1> HIDE DEF x
<1>2. /\ longer \in Seq(Entry)
      /\ Len(longer) = Len(log) + 1
      /\ \A i \in 1..Len(log) : longer[i] = log[i]
      /\ longer[Len(log) + 1] = x
  BY <1>1, AppendProperties DEF LogOK
<1> HIDE DEF longer, half
<1>3. DOMAIN longer = 1..Len(log) + 1
  BY <1>2, LenProperties
<1>4. \A i \in 1..Len(log) : longer[i].tick \in Nat /\ longer[i].tick <= tick
  <2>1. \A i \in 1..Len(log) : log[i] \in Entry
    BY <1>1, ElementOfSeq DEF LogOK
  <2>2. \A i \in 1..Len(log) : log[i].tick \in Nat
    BY <2>1 DEF Entry
  <2>3. \A i \in 1..Len(log) : log[i].tick <= tick
    BY <1>1 DEF LogOK, LogSorted
  <2> QED BY <1>2, <2>2, <2>3
<1>5. /\ \A i, j \in 1..Len(longer) : i < j => longer[i].tick < longer[j].tick
      /\ \A i \in 1..Len(longer) : longer[i].tick <= tick + 1
  <2>1. \A i \in 1..Len(longer) : i \in 1..Len(log) \/ i = Len(log) + 1
    BY <1>1, <1>2
  <2>2. ASSUME NEW i \in 1..Len(longer) PROVE longer[i].tick <= tick + 1
    BY <1>1, <1>2, <1>4, <2>1
  <2>3. ASSUME NEW i \in 1..Len(longer), NEW j \in 1..Len(longer), i < j
        PROVE  longer[i].tick < longer[j].tick
    <3>1. i \in 1..Len(log)
      BY <1>1, <1>2, <2>3
    <3>2. CASE j \in 1..Len(log)
      <4>1. log[i].tick < log[j].tick
        BY <1>1, <2>3, <3>1, <3>2 DEF LogOK, LogSorted
      <4> QED BY <1>2, <3>1, <3>2, <4>1
    <3>3. CASE j = Len(log) + 1
      BY <1>1, <1>2, <1>4, <3>1, <3>3
    <3> QED BY <2>1, <3>2, <3>3
  <2> QED BY <2>2, <2>3
<1>6. /\ IF Len(longer) > LogCap
         THEN log' = SubSeq(longer, half + 1, Len(longer)) /\ logGen' = logGen + 1
         ELSE log' = longer /\ logGen' = logGen
      /\ logGen \in Nat
  BY DEF LogChange, LogOK, longer, half, x
<1>7. \A i \in DOMAIN longer :
        \/ \E j \in DOMAIN log : longer[i] = log[j]
        \/ \E d \in {<<e, t>>} : longer[i] = [ent |-> d[1], comp |-> d[2], tick |-> tick']
  <2>1. <<e, t>>[1] = e /\ <<e, t>>[2] = t
    OBVIOUS
  <2>2. x = [ent |-> <<e, t>>[1], comp |-> <<e, t>>[2], tick |-> tick']
    BY <2>1 DEF x
  <2>3. \A i \in DOMAIN longer : i \in DOMAIN log \/ i = Len(log) + 1
    BY <1>1, <1>3
  <2> QED BY <1>1, <1>2, <2>2, <2>3
<1>8. CASE ~(Len(longer) > LogCap)
  <2>1. log' = longer /\ logGen' = logGen
    BY <1>6, <1>8
  <2>2. LogOK'
    BY <1>2, <1>3, <1>5, <1>6, <2>1 DEF LogOK, LogSorted
  <2>3. Len(log) + 1 \in Len(log) + 1..Len(log')
    BY <1>1, <1>2, <2>1
  <2>4. \A d \in {<<e, t>>} : \E i \in Len(log) + 1..Len(log') :
          log'[i] = [ent |-> d[1], comp |-> d[2], tick |-> tick']
    BY <1>2, <2>1, <2>3 DEF x
  <2> QED BY <1>1, <1>2, <1>6, <1>7, <2>1, <2>2, <2>4 DEF LogStep
<1>9. CASE Len(longer) > LogCap
  <2>1. log' = SubSeq(longer, half + 1, Len(longer)) /\ logGen' = logGen + 1
    BY <1>6, <1>9
  <2>2. half \in Nat /\ half <= Len(longer) /\ Len(longer) \in Nat
    BY <1>1, <1>2 DEF half
  <2>3. /\ log' \in Seq(Entry)
        /\ Len(log') = Len(longer) - half
        /\ \A i \in 1..Len(log') : log'[i] = longer[i + half]
    <3>1. /\ half + 1 \in 1..Len(longer) + 1
          /\ Len(longer) \in (half + 1) - 1..Len(longer)
      BY <2>2
    <3>2. /\ SubSeq(longer, half + 1, Len(longer)) \in Seq(Entry)
          /\ Len(SubSeq(longer, half + 1, Len(longer))) =
               IF half + 1 <= Len(longer) THEN Len(longer) - (half + 1) + 1 ELSE 0
          /\ \A i \in 1..Len(longer) - (half + 1) + 1 :
               SubSeq(longer, half + 1, Len(longer))[i] = longer[half + 1 + i - 1]
      BY <1>2, <3>1, SubSeqProperties
    <3> QED BY <2>1, <2>2, <3>2
  <2>4. DOMAIN log' = 1..Len(log')
    BY <2>3, LenProperties
  <2>5. \A i \in DOMAIN log' : i + half \in 1..Len(longer) /\ log'[i] = longer[i + half]
    BY <2>2, <2>3, <2>4
  <2>6. \A i, j \in DOMAIN log' : i < j => i + half < j + half
    BY <2>2, <2>4
  <2>7. \A i, j \in DOMAIN log' : i < j => log'[i].tick < log'[j].tick
    BY <1>5, <2>5, <2>6
  <2>8. LogOK'
    <3>1. \A i \in DOMAIN log' : log'[i].tick <= tick + 1
      BY <1>5, <2>5
    <3>2. LogSorted'
      BY <2>7, <3>1 DEF LogSorted
    <3>3. logGen' \in Nat
      BY <1>6, <2>1
    <3> QED BY <2>3, <3>2, <3>3 DEF LogOK
  <2>9. LogStep({<<e, t>>})
    <3>1. \A i \in DOMAIN log' : i + half \in DOMAIN longer /\ log'[i] = longer[i + half]
      BY <1>2, <1>3, <2>5
    <3>2. logGen' # logGen /\ logGen' \in {logGen, logGen + 1}
      BY <1>6, <2>1
    <3>3. \A i \in DOMAIN log' :
            \/ \E j \in DOMAIN log : log'[i] = log[j]
            \/ \E d \in {<<e, t>>} : log'[i] = [ent |-> d[1], comp |-> d[2], tick |-> tick']
      BY <1>7, <3>1
    <3> QED BY <3>2, <3>3 DEF LogStep
  <2> QED BY <2>8, <2>9
<1> QED BY <1>8, <1>9

\* A step that does not log leaves the log as it is or drops it, and the clock
\* does not go back.
LEMMA LogKept ==
  ASSUME LogOK, tick \in Nat, tick' \in Nat, tick <= tick',
         \/ log' = log /\ logGen' = logGen
         \/ log' = <<>> /\ logGen' = logGen + 1
  PROVE  LogOK' /\ \A w : (\A d \in w : d[2] \notin tracking'[place'[d[1]]]) => LogStep(w)
<1>1. CASE log' = <<>> /\ logGen' = logGen + 1
  <2>1. log' \in Seq(Entry) /\ DOMAIN log' = {}
    BY <1>1, EmptySeq
  <2>2. logGen' \in Nat /\ logGen' # logGen
    BY <1>1 DEF LogOK
  <2> QED BY <1>1, <2>1, <2>2 DEF LogOK, LogSorted, LogStep
<1>2. CASE log' = log /\ logGen' = logGen
  <2>1. \A i \in DOMAIN log : log[i].tick \in Nat
    <3>1. \A i \in DOMAIN log : log[i] \in Entry
      BY LenProperties, ElementOfSeq DEF LogOK
    <3> QED BY <3>1 DEF Entry
  <2>2. LogOK'
    BY <1>2, <2>1 DEF LogOK, LogSorted
  <2>3. Len(log) <= Len(log)
    BY LenProperties DEF LogOK
  <2> QED BY <1>2, <2>2, <2>3 DEF LogStep
<1> QED BY <1>1, <1>2

\* _log_change() is called for a write to a tracked column.
LEMMA LogIfTrackedStep ==
  ASSUME LogOK, tick \in Nat, NEW e \in Entity, NEW t \in Comp, NEW A,
         LogIfTracked(e, t, A), place'[e] = A, tick' = tick + 1, tick + 1 \in 1..MaxTick
  PROVE  LogOK' /\ LogStep({<<e, t>>})
<1>1. CASE t \in tracking'[A]
  BY <1>1, LogChangeStep DEF LogIfTracked
<1>2. CASE t \notin tracking'[A]
  <2>1. \A d \in {<<e, t>>} : d[2] \notin tracking'[place'[d[1]]]
    BY <1>2
  <2> QED BY <1>2, <2>1, LogKept DEF LogIfTracked, logVars
<1> QED BY <1>1, <1>2

(***************************************************************************)
(* The list of the archetypes.                                             *)
(***************************************************************************)

\* The archetypes that a query matches, in the order of the list.
LEMMA MatchedAddrsType ==
  ASSUME ListOK
  PROVE  /\ MatchedAddrs \in Seq(Addr)
         /\ Len(MatchedAddrs) = Cardinality(MatchedPlaces)
         /\ IsFiniteSet(MatchedPlaces) /\ Cardinality(MatchedPlaces) \in Nat
<1> DEFINE m == Cardinality(MatchedPlaces)
           matched == Picked(archList, MatchedPlaces)
<1>1. MatchedPlaces \in SUBSET DOMAIN archList
  BY DEF MatchedPlaces
<1>2. /\ matched \in Seq((SUBSET Comp) \X Addr) /\ Len(matched) = m
      /\ IsFiniteSet(MatchedPlaces) /\ m \in Nat
  BY <1>1, PickedProperties DEF ListOK
<1>3. MatchedAddrs = [i \in DOMAIN matched |-> matched[i][2]]
  BY DEF MatchedAddrs
<1> HIDE DEF m, matched
<1>4. DOMAIN matched = 1..m /\ \A i \in 1..m : matched[i] \in (SUBSET Comp) \X Addr
  BY <1>2, LenProperties, ElementOfSeq
<1>5. MatchedAddrs \in [1..m -> Addr]
  BY <1>3, <1>4
<1>6. MatchedAddrs \in Seq(Addr)
  BY <1>2, <1>5, SeqDef
<1>7. DOMAIN MatchedAddrs = 1..m
  BY <1>5
<1>8. Len(MatchedAddrs) = m
  BY <1>2, <1>6, <1>7, LenProperties
<1> QED BY <1>2, <1>6, <1>8 DEF m

\* A new archetype comes last in the list.
LEMMA AppendedArchetype ==
  ASSUME ListOK, NEW A, NEW a, Arrives(A, a)
  PROVE  /\ Len(archList) \in Nat /\ DOMAIN archList = 1..Len(archList)
         /\ archList' \in Seq((SUBSET Comp) \X Addr)
         /\ DOMAIN archList' = 1..Len(archList) + 1
         /\ archList'[Len(archList) + 1] = <<A, a>>
         /\ \A i \in 1..Len(archList) : archList'[i] = archList[i]
<1>1. <<A, a>> \in (SUBSET Comp) \X Addr
  BY DEF Arrives
<1>2. archList' = Append(archList, <<A, a>>)
  BY DEF Arrives
<1>3. archList \in Seq((SUBSET Comp) \X Addr)
  BY DEF ListOK
<1>4. Len(archList) \in Nat /\ DOMAIN archList = 1..Len(archList)
  BY <1>3, LenProperties
<1>5. /\ Append(archList, <<A, a>>) \in Seq((SUBSET Comp) \X Addr)
      /\ Len(Append(archList, <<A, a>>)) = Len(archList) + 1
      /\ \A i \in 1..Len(archList) : Append(archList, <<A, a>>)[i] = archList[i]
      /\ Append(archList, <<A, a>>)[Len(archList) + 1] = <<A, a>>
  BY <1>1, <1>3, AppendProperties
<1>6. DOMAIN archList' = 1..Len(archList')
  BY <1>2, <1>5, LenProperties
<1> QED BY <1>2, <1>4, <1>5, <1>6

\* No archetype is in the list twice, and no two have one address.
LEMMA ListKept ==
  ASSUME ListOK, ListStep
  PROVE  ListOK'
<1>1. CASE archList' = archList /\ Archetypes' = Archetypes
  BY <1>1 DEF ListOK
<1>2. ASSUME NEW A, NEW a, Arrives(A, a) PROVE ListOK'
  <2> DEFINE n == Len(archList)
  <2>1. /\ n \in Nat /\ DOMAIN archList = 1..n /\ DOMAIN archList' = 1..n+1
        /\ archList' \in Seq((SUBSET Comp) \X Addr)
        /\ archList'[n+1] = <<A, a>> /\ \A i \in 1..n : archList'[i] = archList[i]
    BY <1>2, AppendedArchetype
  <2> HIDE DEF n
  <2>2. \A i : i \in 1..n+1 <=> i \in 1..n \/ i = n+1
    BY <2>1
  <2>3. {archList'[i][1] : i \in DOMAIN archList'} = {archList[i][1] : i \in DOMAIN archList} \cup {A}
    BY <2>1, <2>2
  <2> QED BY <1>2, <2>1, <2>3 DEF ListOK, Arrives
<1> QED BY <1>1, <1>2 DEF ListStep

\* compact() keeps the list and the archetypes together.
LEMMA ListCompacted ==
  ASSUME ListOK, Compact
  PROVE  ListOK'
<1> DEFINE kept == {A \in Archetypes : A = {} \/ Members(A) # {}}
           I == {i \in DOMAIN archList : archList[i][1] \in kept}
<1>1. archList' = Picked(archList, I) /\ Archetypes' = kept
  BY DEF Compact, Restrict, Archetypes
<1>2. {archList[i][1] : i \in I} = kept
  BY DEF ListOK
<1>3. I \in SUBSET DOMAIN archList
  OBVIOUS
<1> HIDE DEF I, kept
<1>4. /\ archList' \in Seq((SUBSET Comp) \X Addr)
      /\ \A r \in DOMAIN archList' : \E i \in I : archList'[r] = archList[i]
      /\ \A i \in I : \E r \in DOMAIN archList' : archList'[r] = archList[i]
  BY <1>1, <1>3, PickedProperties DEF ListOK
<1>5. {archList'[r][1] : r \in DOMAIN archList'} = {archList[i][1] : i \in I}
  BY <1>4
<1> QED BY <1>1, <1>2, <1>4, <1>5 DEF ListOK

(***************************************************************************)
(* The operations.                                                         *)
(***************************************************************************)

\* What is due of components that are still there stays due, and what is written
\* is due to those who watch it.
LEMMA DueWritten ==
  ASSUME ChangeInv, NEW e \in Alive, NEW t \in Comp, Written(e, t),
         Alive \subseteq Alive', \A x \in Alive : place[x] \subseteq place'[x]
  PROVE  /\ viewDue' = StillDue(viewDue, Watched, {<<e, t>>})
         /\ queryDue' = StillDue(queryDue, QueryChanged, {<<e, t>>})
<1>1. /\ \A d \in viewDue : d[1] \in Alive' /\ d[2] \in place'[d[1]]
      /\ \A d \in queryDue : d[1] \in Alive' /\ d[2] \in place'[d[1]]
  BY DEF ChangeInv, DueInv, Owed, Newer
<1>2. \A T : {e} \X ({t} \cap T) = {d \in {<<e, t>>} : d[2] \in T}
  OBVIOUS
<1> QED BY <1>1, <1>2 DEF Written, StillDue

\* add_component() on an entity that has the component stamps its row.
LEMMA OverwriteStep ==
  ASSUME ChangeInv, NEW e \in Alive, NEW t \in Comp, Overwrite(e, t)
  PROVE  ColumnsOK' /\ LogOK' /\ StepDoes({}, {<<e, t>>})
<1>1. /\ t \in place[e] /\ tick' = tick + 1 /\ tick < MaxTick /\ MaxTick \in Nat
      /\ UNCHANGED <<place, archList, tracking, view, viewMayAdd, queryBase>>
      /\ LogIfTracked(e, t, place[e]) /\ Written(e, t)
      /\ IF t \in tracking[place[e]]
         THEN /\ version' = [version EXCEPT ![e][t] = tick + 1]
              /\ maxVersion' = [maxVersion EXCEPT ![place[e]][t] = tick + 1]
         ELSE UNCHANGED <<version, maxVersion>>
  BY ChangeTrackingAssumption DEF Overwrite, viewVars
<1>2. /\ ColumnsOK /\ LogOK /\ tick \in Nat /\ e \in Entity /\ tick + 1 \in 1..MaxTick
      /\ place[e] \in Archetypes
      /\ queryBase \in Nat /\ queryBase <= queryBase
  <2>1. ColumnsOK /\ LogOK /\ tick \in 1..MaxTick /\ e \in Entity /\ place[e] \in Archetypes
    BY DEF ChangeInv, ColumnsOK
  <2>2. queryBase \in 0..tick
    BY DEF ChangeInv, BasesOK
  <2> QED BY <1>1, <2>1, <2>2
<1>3. Alive' = Alive /\ Archetypes' = Archetypes
  BY <1>1 DEF Alive, Archetypes
<1>4. \A n \in 0..tick : n \in 0..tick+1
  BY <1>2
<1>5. version' \in [Alive -> [Comp -> 0..tick+1]]
  <2>1. version \in [Alive -> [Comp -> 0..tick+1]]
    BY <1>2, <1>4 DEF ColumnsOK
  <2> QED BY <1>1, <1>2, <2>1
<1>6. maxVersion' \in [Archetypes -> [Comp -> 0..tick+1]]
  <2>1. maxVersion \in [Archetypes -> [Comp -> 0..tick+1]] /\ tick + 1 \in 0..tick+1
    BY <1>2, <1>4 DEF ColumnsOK
  <2>2. [maxVersion[place[e]] EXCEPT ![t] = tick + 1] \in [Comp -> 0..tick+1]
    BY <1>2, <2>1
  <2> QED BY <1>1, <1>2, <2>1, <2>2
<1>7. ColumnsOK'
  BY <1>1, <1>2, <1>3, <1>5, <1>6 DEF ColumnsOK
<1>8. Rows({}, {<<e, t>>})
  <2>1. ASSUME NEW x \in Alive, NEW u \in tracking[place[x]]
        PROVE  version'[x][u] = IF <<x, u>> \in {<<e, t>>} THEN tick' ELSE version[x][u]
    <3>1. u \in Comp
      BY <1>2 DEF ColumnsOK
    <3> QED BY <1>1, <1>2, <2>1, <3>1 DEF ColumnsOK
  <2> QED BY <1>1, <1>2, <1>3, <2>1 DEF Rows
<1>9. LogOK' /\ LogStep({<<e, t>>})
  BY <1>1, <1>2, LogIfTrackedStep
<1> QED BY <1>1, <1>2, <1>3, <1>7, <1>8, <1>9, DueWritten DEF StepDoes, ViewStep

\* add_component() moves the row with its versions, and stamps the new cell.
LEMMA AttachStep ==
  ASSUME ChangeInv, NEW e \in Alive, NEW t \in Comp, Attach(e, t)
  PROVE  ColumnsOK' /\ LogOK' /\ StepDoes({e}, {<<e, t>>})
<1> DEFINE B == place[e] \cup {t}
           v == [c \in Comp |-> IF c = t /\ t \in tracking'[B] THEN tick + 1
                                ELSE ArrivalVersion(e, B, c)]
           m == IF t \in tracking'[B] THEN tick + 1 ELSE 0
           w == {<<e, t>>}
<1>1. /\ Move(e, B) /\ tick' = tick + 1 /\ tick < MaxTick /\ MaxTick \in Nat
      /\ version' = [version EXCEPT ![e] = v]
      /\ maxVersion' = [MaxAfterMove(e, B) EXCEPT ![B][t] = m]
      /\ LogIfTracked(e, t, B) /\ Written(e, t)
      /\ viewMayAdd' = viewMayAdd \cup {e} /\ UNCHANGED <<view, queryBase>>
  BY ChangeTrackingAssumption DEF Attach
<1>2. /\ ColumnsOK /\ LogOK /\ tick \in Nat /\ e \in Entity /\ tick + 1 \in 1..MaxTick
      /\ place[e] \in Archetypes /\ B \in SUBSET Comp
      /\ queryBase \in Nat /\ queryBase <= queryBase
  BY <1>1 DEF ChangeInv, ColumnsOK, BasesOK
<1>3. \A n \in 0..tick : n \in 0..tick+1
  BY <1>2
<1>4. v \in [Comp -> 0..tick+1]
  <2> HIDE DEF B
  <2>1. \A c \in Comp : ArrivalVersion(e, B, c) \in 0..tick+1
    BY <1>2, <1>3, ArrivalType
  <2>2. tick + 1 \in 0..tick+1
    BY <1>2
  <2> QED BY <2>1, <2>2
<1>5. \A c \in Comp : v[c] = IF <<e, c>> \in w /\ c \in tracking'[B] THEN tick'
                             ELSE ArrivalVersion(e, B, c)
  BY <1>1
<1>6. w \in SUBSET ({e} \X B) /\ \A u \in B : u \in place[e] \/ <<e, u>> \in w
  OBVIOUS
<1> HIDE DEF B, v
<1>7. [MaxAfterMove(e, B) EXCEPT ![B][t] = m] \in [Archetypes \cup {B} -> [Comp -> 0..tick+1]]
  <2>1. MaxAfterMove(e, B) \in [Archetypes \cup {B} -> [Comp -> 0..tick+1]]
    <3>1. MaxAfterMove(e, B) \in [Archetypes \cup {B} -> [Comp -> 0..tick]]
      BY <1>2, ArrivalType
    <3> QED BY <1>3, <3>1
  <2>2. m \in 0..tick+1
    BY <1>2
  <2> HIDE DEF m
  <2> QED BY <2>1, <2>2
<1> HIDE DEF w, m
<1>8. ColumnsOK' /\ Rows({e}, w)
  <2>1. tick' \in tick..MaxTick /\ tick < tick'
    BY <1>1, <1>2
  <2>2. v \in [Comp -> 0..tick'] /\ maxVersion' \in [Archetypes \cup {B} -> [Comp -> 0..tick']]
    BY <1>1, <1>4, <1>7
  <2> QED BY <1>1, <1>2, <1>5, <1>6, <2>1, <2>2, MoveRows
<1>9. place'[e] = B /\ Alive' = Alive /\ \A x \in Alive : place[x] \subseteq place'[x]
  BY <1>1, <1>2 DEF Move, Alive, ColumnsOK, B
<1>10. LogOK' /\ LogStep(w)
  BY <1>1, <1>2, <1>9, LogIfTrackedStep DEF w
<1>11. /\ viewDue' = StillDue(viewDue, Watched, w)
       /\ queryDue' = StillDue(queryDue, QueryChanged, w)
  BY <1>1, <1>9, DueWritten DEF w
<1> QED BY <1>1, <1>2, <1>8, <1>10, <1>11 DEF StepDoes, ViewStep, w

\* remove_component() moves the row with the versions that it keeps.
LEMMA DetachStep ==
  ASSUME ChangeInv, NEW e \in Alive, NEW t \in Comp, Detach(e, t)
  PROVE  ColumnsOK' /\ LogOK' /\ StepDoes({e}, {})
<1> DEFINE B == place[e] \ {t}
           v == [c \in Comp |-> ArrivalVersion(e, B, c)]
<1>1. /\ Move(e, B)
      /\ version' = [version EXCEPT ![e] = v] /\ maxVersion' = MaxAfterMove(e, B)
      /\ UNCHANGED <<tick, log, logGen, view, queryBase>>
      /\ viewMayAdd' = viewMayAdd \cup {e}
      /\ viewDue' = viewDue \ {<<e, t>>} /\ queryDue' = queryDue \ {<<e, t>>}
  BY DEF Detach, logVars
<1>2. /\ ColumnsOK /\ LogOK /\ tick \in Nat /\ tick \in tick..MaxTick
      /\ place[e] \in Archetypes /\ B \in SUBSET Comp
      /\ queryBase \in Nat /\ queryBase <= queryBase
  BY DEF ChangeInv, ColumnsOK, BasesOK
<1>3. v \in [Comp -> 0..tick]
  BY <1>2, ArrivalType
<1>4. \A c \in Comp : v[c] = ArrivalVersion(e, B, c)
  OBVIOUS
<1>5. place'[e] = B /\ Alive' = Alive /\ \A x \in Alive : x # e => place'[x] = place[x]
  <2> HIDE DEF B, v
  <2> QED BY <1>1, <1>2 DEF Move, Alive, ColumnsOK
<1>6. /\ viewDue' = StillDue(viewDue, Watched, {})
      /\ queryDue' = StillDue(queryDue, QueryChanged, {})
  <2>1. /\ \A d \in viewDue : d = <<d[1], d[2]>> /\ d[1] \in Alive /\ d[2] \in place[d[1]]
        /\ \A d \in queryDue : d = <<d[1], d[2]>> /\ d[1] \in Alive /\ d[2] \in place[d[1]]
    BY DEF ChangeInv, DueInv, Owed, Newer
  <2>2. \A d : d = <<d[1], d[2]>> /\ d[1] \in Alive /\ d[2] \in place[d[1]] =>
                 (d # <<e, t>> <=> d[2] \in place'[d[1]])
    BY <1>5
  <2> QED BY <1>1, <1>5, <2>1, <2>2 DEF StillDue
<1> HIDE DEF B, v
<1>7. ColumnsOK' /\ Rows({e}, {})
  <2>1. {} \in SUBSET ({e} \X B) /\ tick' \in tick..MaxTick /\ v \in [Comp -> 0..tick']
    BY <1>1, <1>2, <1>3
  <2>4. \A u \in B : u \in place[e] \/ <<e, u>> \in {}
    BY DEF B
  <2>2. maxVersion' \in [Archetypes \cup {B} -> [Comp -> 0..tick']]
    BY <1>1, <1>2, ArrivalType
  <2>3. \A c \in Comp : v[c] = IF <<e, c>> \in {} /\ c \in tracking'[B] THEN tick'
                               ELSE ArrivalVersion(e, B, c)
    BY <1>4
  <2> QED BY <1>1, <1>2, <2>1, <2>2, <2>3, <2>4, MoveRows
<1>8. LogOK' /\ LogStep({})
  BY <1>1, <1>2, LogKept
<1> QED BY <1>1, <1>2, <1>6, <1>7, <1>8 DEF StepDoes, ViewStep

\* mark_changed() stamps the row.
LEMMA MarkChangedStep ==
  ASSUME ChangeInv, NEW e \in Alive, NEW t \in Comp, MarkChanged(e, t)
  PROVE  ColumnsOK' /\ LogOK' /\ StepDoes({}, {<<e, t>>})
<1> DEFINE A == place[e]
           stamped == VersionsOn({A}, {t})
           w == {<<e, t>>}
<1>1. /\ t \in A /\ tick' = tick + 1 /\ tick < MaxTick /\ MaxTick \in Nat
      /\ tracking' = TrackingOn({A}, {t})
      /\ version' = [stamped EXCEPT ![e][t] = tick + 1]
      /\ maxVersion' = [maxVersion EXCEPT ![A][t] = tick + 1]
      /\ LogChange(e, t, tick + 1) /\ Written(e, t)
      /\ UNCHANGED <<place, archList, view, viewMayAdd, queryBase>>
  BY ChangeTrackingAssumption DEF MarkChanged, viewVars
<1>2. /\ ColumnsOK /\ LogOK /\ tick \in Nat /\ e \in Entity /\ tick + 1 \in 1..MaxTick
      /\ A \in Archetypes
      /\ queryBase \in Nat /\ queryBase <= queryBase
  BY <1>1 DEF ChangeInv, ColumnsOK, BasesOK
<1>3. /\ tick \in 0..tick+1 /\ tick + 1 \in 0..tick+1
      /\ \A n \in 0..tick : n \in 0..tick+1
  BY <1>2
<1>4. /\ stamped \in [Alive -> [Comp -> 0..tick+1]]
      /\ \A x \in Alive, u \in Comp :
           stamped[x][u] = IF place[x] = A /\ u \in Stamped(A, {t}) THEN tick ELSE version[x][u]
  <2>1. version \in [Alive -> [Comp -> 0..tick+1]]
    BY <1>2, <1>3 DEF ColumnsOK
  <2>2. \A x \in Alive : place[x] \in {A} <=> place[x] = A
    OBVIOUS
  <2> HIDE DEF A
  <2> QED BY <1>3, <2>1, <2>2 DEF VersionsOn
<1> HIDE DEF stamped, A
<1>5. /\ version' \in [Alive -> [Comp -> 0..tick+1]]
      /\ \A x \in Alive, u \in Comp :
           version'[x][u] = IF x = e /\ u = t THEN tick + 1 ELSE stamped[x][u]
  BY <1>1, <1>3, <1>4
<1>6. maxVersion' \in [Archetypes -> [Comp -> 0..tick+1]]
  <2>1. maxVersion \in [Archetypes -> [Comp -> 0..tick+1]]
    BY <1>2, <1>3 DEF ColumnsOK
  <2>2. [maxVersion[A] EXCEPT ![t] = tick + 1] \in [Comp -> 0..tick+1]
    BY <1>2, <1>3, <2>1
  <2> QED BY <1>1, <1>2, <2>1, <2>2
<1>7. /\ tracking' \in [Archetypes -> SUBSET Comp]
      /\ \A B \in Archetypes : tracking'[B] \subseteq B /\ tracking[B] \subseteq tracking'[B]
      /\ t \in tracking'[A]
      /\ \A x \in Alive : \A u \in tracking'[place[x]] :
           u \in tracking[place[x]] \/ (place[x] = A /\ u \in Stamped(A, {t}))
  BY <1>1, <1>2 DEF TrackingOn, Stamped, ColumnsOK
<1>8. Alive' = Alive /\ Archetypes' = Archetypes /\ place' = place
  BY <1>1, <1>7 DEF Alive, Archetypes
<1>9. ColumnsOK'
  BY <1>1, <1>2, <1>5, <1>6, <1>7, <1>8 DEF ColumnsOK
<1>10. ASSUME NEW x \in Alive, NEW u \in tracking'[place[x]]
       PROVE  version'[x][u] = IF <<x, u>> \in w THEN tick + 1
                               ELSE IF u \in tracking[place[x]] THEN version[x][u] ELSE tick
  <2>1. u \in Comp /\ place[x] \in Archetypes
    BY <1>2, <1>7 DEF ColumnsOK
  <2>2. u \in Stamped(A, {t}) => u \notin tracking[A]
    BY DEF Stamped
  <2>3. stamped[x][u] = IF u \in tracking[place[x]] THEN version[x][u] ELSE tick
    <3>1. stamped[x][u] = IF place[x] = A /\ u \in Stamped(A, {t}) THEN tick ELSE version[x][u]
      BY <1>4, <2>1
    <3>2. u \in tracking[place[x]] \/ (place[x] = A /\ u \in Stamped(A, {t}))
      BY <1>7, <1>10
    <3> QED BY <2>2, <3>1, <3>2
  <2> QED BY <1>5, <2>1, <2>3
<1>11. Rows({}, w)
  <2>1. \A d \in w : d \in Entity \X Comp /\ d[1] \in Alive /\ d[2] \in place[d[1]]
    BY <1>1, <1>2 DEF A
  <2> HIDE DEF w
  <2>2. tick <= tick' /\ tick < tick'
    BY <1>1, <1>2
  <2>3. ASSUME NEW x \in Alive, NEW u \in tracking'[place'[x]]
        PROVE  version'[x][u] = IF <<x, u>> \in w THEN tick'
                                ELSE IF u \in tracking[place[x]] THEN version[x][u] ELSE tick
    <3>1. u \in tracking'[place[x]] /\ tick' = tick + 1
      BY <1>1, <1>8, <2>3
    <3>2. version'[x][u] = IF <<x, u>> \in w THEN tick + 1
                           ELSE IF u \in tracking[place[x]] THEN version[x][u] ELSE tick
      BY <1>10, <3>1
    <3> QED BY <3>1, <3>2
  <2> QED BY <1>7, <1>8, <2>1, <2>2, <2>3 DEF Rows
<1>12. LogOK' /\ LogStep(w)
  BY <1>1, <1>2, LogChangeStep
<1>13. /\ viewDue' = StillDue(viewDue, Watched, w)
       /\ queryDue' = StillDue(queryDue, QueryChanged, w)
  BY <1>1, <1>8, DueWritten
<1> QED BY <1>1, <1>2, <1>9, <1>11, <1>12, <1>13 DEF StepDoes, ViewStep

\* Steps that leave the rows, the tracking and the log alone, and steps that drop
\* rows, owe no more than before.
LEMMA CreateStep ==
  ASSUME ChangeInv, NEW e \in Entity, Create(e)
  PROVE  ColumnsOK' /\ LogOK' /\ StepDoes({}, {})
<1>1. /\ Alive' = Alive \cup {e} /\ e \notin Alive
      /\ \A x \in Alive : place'[x] = place[x] /\ version'[x] = version[x]
      /\ place'[e] = {} /\ version'[e] = [c \in Comp |-> 0]
      /\ place' \in [Alive' -> Archetypes]
      /\ version' \in [Alive' -> [Comp -> 0..tick]]
      /\ UNCHANGED <<tracking, maxVersion, tick, log, logGen, view, viewMayAdd,
                     queryBase, viewDue, queryDue>>
  BY DEF Create, Alive, ChangeInv, ColumnsOK, logVars, viewVars
<1>2. /\ ColumnsOK /\ LogOK /\ tick \in Nat /\ tick <= tick
      /\ queryBase \in Nat /\ queryBase <= queryBase
  BY DEF ChangeInv, ColumnsOK, BasesOK
<1>3. ColumnsOK'
  BY <1>1, <1>2 DEF ColumnsOK, Archetypes
<1>4. Rows({}, {})
  BY <1>1, <1>2 DEF Rows, ColumnsOK, Archetypes
<1>5. /\ viewDue' = StillDue(viewDue, Watched, {})
      /\ queryDue' = StillDue(queryDue, QueryChanged, {})
  BY <1>1 DEF StillDue, ChangeInv, DueInv, Owed, Newer
<1>6. LogOK' /\ LogStep({})
  BY <1>1, <1>2, LogKept
<1> QED BY <1>1, <1>2, <1>3, <1>4, <1>5, <1>6 DEF StepDoes, ViewStep

\* destroy_entity() takes the row away.
LEMMA DestroyStep ==
  ASSUME ChangeInv, NEW e \in Alive, Destroy(e)
  PROVE  ColumnsOK' /\ LogOK' /\ StepDoes({}, {})
<1>1. /\ Alive' = Alive \ {e}
      /\ \A x \in Alive' : place'[x] = place[x] /\ version'[x] = version[x]
      /\ place' \in [Alive' -> Archetypes]
      /\ version' \in [Alive' -> [Comp -> 0..tick]]
      /\ maxVersion' = Leave(e)
      /\ viewDue' = {d \in viewDue : d[1] # e} /\ queryDue' = {d \in queryDue : d[1] # e}
      /\ UNCHANGED <<tracking, tick, log, logGen, view, viewMayAdd, queryBase>>
  BY DEF Destroy, Alive, ChangeInv, ColumnsOK, Restrict, logVars, viewVars
<1>2. /\ ColumnsOK /\ LogOK /\ tick \in Nat /\ tick <= tick /\ 0 \in 0..tick
      /\ queryBase \in Nat /\ queryBase <= queryBase
  BY DEF ChangeInv, ColumnsOK, BasesOK
<1>3. maxVersion' \in [Archetypes -> [Comp -> 0..tick]]
  BY <1>1, <1>2 DEF Leave, MaxAfterRemoval, ColumnsOK
<1>4. ColumnsOK'
  BY <1>1, <1>2, <1>3 DEF ColumnsOK, Archetypes
<1>5. Rows({}, {})
  BY <1>1, <1>2 DEF Rows, ColumnsOK, Archetypes
<1>6. /\ viewDue' = StillDue(viewDue, Watched, {})
      /\ queryDue' = StillDue(queryDue, QueryChanged, {})
  BY <1>1 DEF StillDue, ChangeInv, DueInv, Owed, Newer
<1>7. LogOK' /\ LogStep({})
  BY <1>1, <1>2, LogKept
<1> QED BY <1>1, <1>2, <1>4, <1>5, <1>6, <1>7 DEF StepDoes, ViewStep

\* clear() takes all rows away.
LEMMA ClearStep ==
  ASSUME ChangeInv, Clear
  PROVE  ColumnsOK' /\ LogOK' /\ StepDoes({}, {})
<1>1. /\ Alive' = {}
      /\ place' \in [{} -> Archetypes] /\ version' \in [{} -> [Comp -> 0..tick]]
      /\ maxVersion' = [A \in Archetypes |->
           IF Members(A) = {} THEN maxVersion[A] ELSE MaxAfterRemoval(A)]
      /\ viewDue' = {} /\ queryDue' = {} /\ log' = <<>> /\ logGen' = logGen + 1
      /\ UNCHANGED <<tracking, tick, view, viewMayAdd, queryBase>>
  BY DEF Clear, DropLog, Nobody, Alive, viewVars
<1>2. /\ ColumnsOK /\ LogOK /\ tick \in Nat /\ tick <= tick /\ 0 \in 0..tick
      /\ queryBase \in Nat /\ queryBase <= queryBase
  BY DEF ChangeInv, ColumnsOK, BasesOK
<1>3. maxVersion' \in [Archetypes -> [Comp -> 0..tick]]
  BY <1>1, <1>2 DEF MaxAfterRemoval, ColumnsOK
<1>4. ColumnsOK'
  BY <1>1, <1>2, <1>3 DEF ColumnsOK, Archetypes
<1>5. Rows({}, {})
  BY <1>1, <1>2 DEF Rows, Archetypes
<1>6. /\ viewDue' = StillDue(viewDue, Watched, {})
      /\ queryDue' = StillDue(queryDue, QueryChanged, {})
  BY <1>1 DEF StillDue
<1>7. LogOK' /\ LogStep({})
  BY <1>1, <1>2, LogKept
<1> QED BY <1>1, <1>2, <1>4, <1>5, <1>6, <1>7 DEF StepDoes, ViewStep

\* compact() deletes archetypes without rows.
LEMMA CompactStep ==
  ASSUME ChangeInv, Compact
  PROVE  ColumnsOK' /\ LogOK' /\ StepDoes({}, {})
<1> DEFINE kept == {A \in Archetypes : A = {} \/ Members(A) # {}}
<1>1. /\ tracking' = Restrict(tracking, kept) /\ maxVersion' = Restrict(maxVersion, kept)
      /\ UNCHANGED <<place, version, tick, log, logGen, view, viewMayAdd, queryBase,
                     viewDue, queryDue>>
  BY DEF Compact, logVars, viewVars
<1>2. /\ ColumnsOK /\ LogOK /\ tick \in Nat /\ tick <= tick
      /\ queryBase \in Nat /\ queryBase <= queryBase
  BY DEF ChangeInv, ColumnsOK, BasesOK
<1>3. {} \in kept /\ kept \subseteq Archetypes /\ \A x \in Alive : place[x] \in kept
  BY <1>2 DEF ColumnsOK, Members
<1> HIDE DEF kept
<1>4. /\ Archetypes' = kept /\ Alive' = Alive
      /\ tracking' \in [kept -> SUBSET Comp] /\ \A A \in kept : tracking'[A] = tracking[A]
      /\ maxVersion' \in [kept -> [Comp -> 0..tick]]
  BY <1>1, <1>2, <1>3 DEF Restrict, Archetypes, Alive, ColumnsOK
<1>5. place' \in [Alive -> kept]
  BY <1>1, <1>2, <1>3 DEF ColumnsOK
<1>6. ColumnsOK'
  BY <1>1, <1>2, <1>3, <1>4, <1>5 DEF ColumnsOK
<1>7. Rows({}, {})
  BY <1>1, <1>2, <1>3, <1>4 DEF Rows, ColumnsOK
<1>8. /\ viewDue' = StillDue(viewDue, Watched, {})
      /\ queryDue' = StillDue(queryDue, QueryChanged, {})
  BY <1>1, <1>4 DEF StillDue, ChangeInv, DueInv, Owed, Newer
<1>9. LogOK' /\ LogStep({})
  BY <1>1, <1>2, LogKept
<1> QED BY <1>1, <1>2, <1>6, <1>7, <1>8, <1>9 DEF StepDoes, ViewStep

\* The clock goes on, or the log is dropped, and no row moves.
LEMMA QuietStep ==
  ASSUME ChangeInv, AdvanceChangeTick \/ Reset \/ UNCHANGED vars
  PROVE  ColumnsOK' /\ LogOK' /\ StepDoes({}, {})
<1>1. /\ UNCHANGED <<place, version, tracking, maxVersion, view, viewMayAdd, viewDue, queryDue>>
      /\ tick' \in tick..MaxTick
      /\ queryBase' \in Nat /\ queryBase' <= queryBase
      /\ \/ log' = log /\ logGen' = logGen
         \/ log' = <<>> /\ logGen' = logGen + 1
  <2>1. tick \in 1..MaxTick /\ MaxTick \in Nat /\ queryBase \in Nat
    BY ChangeTrackingAssumption DEF ChangeInv, ColumnsOK, BasesOK
  <2>2. CASE AdvanceChangeTick
    BY <2>1, <2>2 DEF AdvanceChangeTick, storeVars, viewVars, logVars
  <2>3. CASE Reset
    BY <2>1, <2>3 DEF Reset, DropLog, storeVars, viewVars
  <2>4. CASE UNCHANGED vars
    BY <2>1, <2>4 DEF vars, storeVars, viewVars, logVars
  <2> QED BY <2>2, <2>3, <2>4
<1>2. /\ ColumnsOK /\ LogOK /\ tick \in Nat /\ tick' \in Nat /\ tick <= tick' /\ tick' \in 1..MaxTick
      /\ \A n \in 0..tick : n \in 0..tick'
  BY <1>1 DEF ChangeInv, ColumnsOK
<1>3. Alive' = Alive /\ Archetypes' = Archetypes
  BY <1>1 DEF Alive, Archetypes
<1>4. version' \in [Alive -> [Comp -> 0..tick']] /\ maxVersion' \in [Archetypes -> [Comp -> 0..tick']]
  BY <1>1, <1>2 DEF ColumnsOK
<1>5. ColumnsOK'
  BY <1>1, <1>2, <1>3, <1>4 DEF ColumnsOK
<1>6. Rows({}, {})
  BY <1>1, <1>2, <1>3 DEF Rows
<1>7. /\ viewDue' = StillDue(viewDue, Watched, {})
      /\ queryDue' = StillDue(queryDue, QueryChanged, {})
  BY <1>1, <1>3 DEF StillDue, ChangeInv, DueInv, Owed, Newer
<1>8. LogOK' /\ LogStep({})
  BY <1>1, <1>2, LogKept
<1> QED BY <1>1, <1>5, <1>6, <1>7, <1>8 DEF StepDoes, ViewStep

(***************************************************************************)
(* The invariant is kept.                                                  *)
(***************************************************************************)

PlainStep == Write \/ AdvanceChangeTick \/ Structure \/ Clear \/ Reset \/ UNCHANGED vars

WorldStep == PlainStep \/ Compact

\* Every operation on the world moves some rows and stamps some cells.
LEMMA WorldStepDoes ==
  ASSUME ChangeInv, WorldStep
  PROVE  /\ ColumnsOK' /\ LogOK'
         /\ \E M \in SUBSET Entity, w \in SUBSET (Entity \X Comp) : StepDoes(M, w)
<1>1. Alive \subseteq Entity
  BY DEF ChangeInv, ColumnsOK
<1>2. CASE Write
  <2>1. PICK e \in Alive, t \in Comp : Overwrite(e, t) \/ Attach(e, t) \/ MarkChanged(e, t)
    BY <1>2 DEF Write
  <2>2. {} \in SUBSET Entity /\ {e} \in SUBSET Entity /\ {<<e, t>>} \in SUBSET (Entity \X Comp)
    BY <1>1
  <2>3. \/ ColumnsOK' /\ LogOK' /\ StepDoes({}, {<<e, t>>})
        \/ ColumnsOK' /\ LogOK' /\ StepDoes({e}, {<<e, t>>})
    BY <2>1, OverwriteStep, AttachStep, MarkChangedStep
  <2> QED BY <2>2, <2>3
<1>3. CASE Structure
  BY <1>1, <1>3, CreateStep, DestroyStep, DetachStep DEF Structure
<1>4. CASE AdvanceChangeTick \/ Clear \/ Reset \/ Compact \/ UNCHANGED vars
  BY <1>4, QuietStep, ClearStep, CompactStep
<1> QED BY <1>2, <1>3, <1>4 DEF WorldStep, PlainStep

\* A move may append the archetype that it moves to.
LEMMA MoveListStep ==
  ASSUME NEW e, NEW B \in SUBSET Comp, Move(e, B)
  PROVE  ListStep
<1>1. Archetypes' = Archetypes \cup {B}
  BY DEF Move, TrackingWith, Archetypes
<1>2. CASE B \in Archetypes
  BY <1>1, <1>2 DEF Move, EnsureArchetype, ListStep
<1>3. CASE B \notin Archetypes
  <2>1. PICK a \in Addr : archList' = Append(archList, <<B, a>>)
    BY <1>3 DEF Move, EnsureArchetype
  <2>2. Arrives(B, a)
    BY <1>1, <1>3, <2>1 DEF Arrives
  <2> QED BY <2>2 DEF ListStep
<1> QED BY <1>2, <1>3

\* No operation but compact() takes an archetype from the list.
LEMMA WorldListStep ==
  ASSUME ChangeInv, PlainStep
  PROVE  ListStep
<1>1. ASSUME NEW e \in Alive PROVE place[e] \in SUBSET Comp
  BY DEF ChangeInv, ColumnsOK
<1>2. ASSUME NEW e \in Alive, NEW t \in Comp, Attach(e, t) PROVE ListStep
  <2>1. PICK B \in SUBSET Comp : B = place[e] \cup {t}
    BY <1>1
  <2>2. Move(e, B)
    BY <1>2, <2>1 DEF Attach
  <2> QED BY <2>2, MoveListStep
<1>3. ASSUME NEW e \in Alive, NEW t \in Comp, Detach(e, t) PROVE ListStep
  <2>1. PICK B \in SUBSET Comp : B = place[e] \ {t}
    BY <1>1
  <2>2. Move(e, B)
    BY <1>3, <2>1 DEF Detach
  <2> QED BY <2>2, MoveListStep
<1>4. ASSUME NEW e \in Alive, NEW t \in Comp, Overwrite(e, t) \/ MarkChanged(e, t) PROVE ListStep
  BY <1>4 DEF Overwrite, MarkChanged, TrackingOn, ListStep, Archetypes
<1>5. CASE Write
  BY <1>2, <1>4, <1>5 DEF Write
<1>6. CASE Structure
  BY <1>3, <1>6 DEF Structure, Create, Destroy, ListStep, Archetypes
<1>7. CASE AdvanceChangeTick \/ Clear \/ Reset \/ UNCHANGED vars
  BY <1>7 DEF AdvanceChangeTick, Clear, Reset, vars, storeVars, ListStep, Archetypes
<1> QED BY <1>5, <1>6, <1>7 DEF PlainStep

\* Operations on the world keep the invariant.
LEMMA WorldStepKeeps ==
  ASSUME ChangeInv, WorldStep
  PROVE  ChangeInv'
<1>1. PICK M \in SUBSET Entity, w \in SUBSET (Entity \X Comp) : StepDoes(M, w) /\ ColumnsOK' /\ LogOK'
  BY WorldStepDoes
<1>2. DueInv'
  BY <1>1, ViewDueStays, QueryDueStays DEF StepDoes, ViewStep, DueInv
<1>3. BasesOK'
  <2>1. tick <= tick' /\ tick \in Nat /\ tick' \in Nat /\ logGen \in Nat /\ logGen <= logGen'
    BY <1>1 DEF ChangeInv, ColumnsOK, LogOK, StepDoes, ViewStep, Rows, LogStep
  <2>2. view' = view /\ viewMayAdd' \subseteq Entity
    BY <1>1 DEF StepDoes, ViewStep, ChangeInv, BasesOK
  <2>3. queryBase' \in 0..tick'
    BY <1>1, <2>1 DEF StepDoes, ViewStep, ChangeInv, BasesOK
  <2>4. view.base \in 0..tick' /\ view.gen <= logGen'
    <3>1. view.base \in 0..tick /\ view.gen \in Nat /\ view.gen <= logGen
      BY DEF ChangeInv, BasesOK
    <3>2. \A n \in 0..tick : n \in 0..tick'
      BY <2>1
    <3>3. \A n \in Nat : n <= logGen => n <= logGen'
      <4>1. logGen' \in Nat
        BY <1>1 DEF LogOK
      <4> QED BY <2>1, <4>1
    <3> QED BY <3>1, <3>2, <3>3
  <2> QED BY <2>2, <2>3, <2>4 DEF ChangeInv, BasesOK
<1>4. ListOK'
  BY WorldListStep, ListKept, ListCompacted DEF ChangeInv, WorldStep
<1> QED BY <1>1, <1>2, <1>3, <1>4 DEF ChangeInv

\* A new view is owed nothing.
LEMMA MakeViewKeeps ==
  ASSUME ChangeInv, MakeView
  PROVE  ChangeInv'
<1>1. /\ UNCHANGED <<place, archList, tracking, version, maxVersion, tick, log, logGen,
                     queryBase, queryDue>>
      /\ view' = [made |-> TRUE, base |-> tick, pos |-> 0, gen |-> 0, warm |-> FALSE, last |-> <<>>]
      /\ viewDue' = {} /\ viewMayAdd' = Alive
  BY DEF MakeView, NoView, storeVars, logVars
<1>2. Alive' = Alive /\ Archetypes' = Archetypes
  BY <1>1 DEF Alive, Archetypes
<1>3. ColumnsOK' /\ LogOK' /\ ListOK'
  BY <1>1, <1>2 DEF ChangeInv, ColumnsOK, LogOK, LogSorted, ListOK
<1>4. BasesOK'
  <2>1. tick \in 0..tick /\ <<>> \in Seq(Addr) /\ 0 <= logGen /\ 0 \in Nat
    BY EmptySeq DEF ChangeInv, ColumnsOK, LogOK
  <2> QED BY <1>1, <2>1 DEF ChangeInv, BasesOK, ColumnsOK
<1>5. DueInv'
  BY <1>1, <1>2 DEF ChangeInv, DueInv, Owed, Newer
<1> QED BY <1>3, <1>4, <1>5 DEF ChangeInv

\* take() settles what a view was owed.
LEMMA TakeKeeps ==
  ASSUME ChangeInv, Take
  PROVE  ChangeInv' /\ Rows({}, {})
<1>1. /\ UNCHANGED <<place, archList, tick, log, logGen, queryBase, queryDue>>
      /\ view.made
      /\ view' = [view EXCEPT !.base = tick, !.pos = Len(log), !.gen = logGen,
                              !.warm = TRUE, !.last = MatchedAddrs]
      /\ viewDue' = {} /\ viewMayAdd' = {}
  BY DEF Take, logVars
<1>2. ColumnsOK' /\ Rows({}, {}) /\ Archetypes' = Archetypes
  <2>1. CASE NeedScan
    <3>1. tracking' = TrackingOn(MatchedBy(Watched), Watched)
      BY <2>1 DEF Take
    <3>2. Archetypes' = Archetypes
      BY <3>1 DEF TrackingOn, Archetypes
    <3> QED BY <1>1, <2>1, <3>2, TrackingRows, ChangeTrackingAssumption DEF Take, ChangeInv
  <2>2. CASE ~NeedScan
    <3>1. UNCHANGED <<place, tracking, version, maxVersion, tick>>
      BY <1>1, <2>2 DEF Take
    <3>2. Alive' = Alive /\ Archetypes' = Archetypes
      BY <3>1 DEF Alive, Archetypes
    <3> QED BY <3>1, <3>2 DEF ChangeInv, ColumnsOK, Rows
  <2> QED BY <2>1, <2>2
<1>3. LogOK' /\ ListOK'
  BY <1>1, <1>2 DEF ChangeInv, LogOK, LogSorted, ListOK
<1>4. BasesOK'
  <2>1. tick \in 0..tick /\ Len(log) \in Nat /\ logGen \in Nat /\ logGen <= logGen
    BY LenProperties DEF ChangeInv, ColumnsOK, LogOK
  <2> QED BY <1>1, <2>1, MatchedAddrsType DEF ChangeInv, BasesOK
<1>5. DueInv'
  <2>1. queryDue' = StillDue(queryDue, QueryChanged, {})
    BY <1>1 DEF StillDue, ChangeInv, DueInv, Owed, Newer, Alive
  <2>2. Owed(queryDue, queryBase, QueryChanged)'
    BY <1>1, <1>2, <2>1, QueryDueStays DEF ChangeInv, BasesOK
  <2> QED BY <1>1, <2>2 DEF DueInv, Owed
<1> QED BY <1>2, <1>3, <1>4, <1>5 DEF ChangeInv

\* execute() settles what a query was owed.
LEMMA ExecuteKeeps ==
  ASSUME ChangeInv, Execute
  PROVE  ChangeInv' /\ Rows({}, {})
<1>1. /\ UNCHANGED <<place, archList, tick, log, logGen, view, viewMayAdd, viewDue>>
      /\ queryBase' = tick /\ queryDue' = {}
  BY DEF Execute, logVars, viewVars
<1>2. ColumnsOK' /\ Rows({}, {}) /\ Archetypes' = Archetypes
  <2>1. Archetypes' = Archetypes
    BY DEF Execute, TrackingOn, Archetypes
  <2> QED BY <1>1, <2>1, TrackingRows, ChangeTrackingAssumption DEF Execute, ChangeInv
<1>3. LogOK' /\ ListOK'
  BY <1>1, <1>2 DEF ChangeInv, LogOK, LogSorted, ListOK
<1>4. BasesOK'
  <2>1. tick \in 0..tick
    BY DEF ChangeInv, ColumnsOK
  <2> QED BY <1>1, <2>1 DEF ChangeInv, BasesOK
<1>5. DueInv'
  <2>1. viewDue' = StillDue(viewDue, Watched, {})
    BY <1>1 DEF StillDue, ChangeInv, DueInv, Owed, Newer, Alive
  <2>2. Owed(viewDue, view.base, Watched)'
    BY <1>1, <1>2, <2>1, ViewDueStays
  <2> QED BY <1>1, <2>2 DEF DueInv, Owed
<1> QED BY <1>2, <1>3, <1>4, <1>5 DEF ChangeInv

\* The invariant holds in a new world.
LEMMA ChangeInit == Init => ChangeInv
<1> SUFFICES ASSUME Init PROVE ChangeInv
  OBVIOUS
<1>1. ColumnsOK
  BY ChangeTrackingAssumption DEF Init, ColumnsOK, Nobody, Alive, Archetypes
<1>2. BasesOK /\ LogOK
  BY EmptySeq, ChangeTrackingAssumption DEF Init, BasesOK, NoView, LogOK, LogSorted
<1>3. DueInv
  BY DEF Init, DueInv, Owed
<1>4. ListOK
  <2>1. archList = << <<{}, RootAddr>> >> /\ RootAddr \in Addr
    BY ChangeTrackingAssumption DEF Init, ChangeTrackingAssumption
  <2>2. /\ <<{}, RootAddr>> \in (SUBSET Comp) \X Addr
        /\ DOMAIN archList = 1..1 /\ archList[1] = <<{}, RootAddr>>
    BY <2>1
  <2>3. archList \in [1..1 -> (SUBSET Comp) \X Addr]
    BY <2>1, <2>2
  <2>4. archList \in Seq((SUBSET Comp) \X Addr)
    BY <2>3, SeqDef
  <2>5. \A i \in 1..1 : i = 1
    OBVIOUS
  <2>6. Archetypes = {{}} /\ {archList[i][1] : i \in DOMAIN archList} = {{}}
    <3>1. 1 \in 1..1 /\ archList[1][1] = {}
      BY <2>2
    <3>2. {archList[i][1] : i \in 1..1} = {{}}
      BY <2>5, <3>1
    <3> QED BY <2>2, <3>2 DEF Init, Archetypes
  <2> QED BY <2>4, <2>6 DEF ListOK
<1> QED BY <1>1, <1>2, <1>3, <1>4 DEF ChangeInv

\* Every step keeps it, compact() included.
LEMMA ChangeNext == ChangeInv /\ [NextCompact]_vars => ChangeInv'
<1> SUFFICES ASSUME ChangeInv, [NextCompact]_vars PROVE ChangeInv'
  OBVIOUS
<1>1. CASE WorldStep
  BY <1>1, WorldStepKeeps
<1>2. CASE Read
  BY <1>2, MakeViewKeeps, TakeKeeps, ExecuteKeeps DEF Read
<1> QED BY <1>1, <1>2 DEF NextCompact, Next, Replace, WorldStep, PlainStep

\* Also with compact() at any time: the columns, the log and what is due are in
\* order.
THEOREM ChangeInvariant == SpecCompact => []ChangeInv
BY ChangeInit, ChangeNext, PTL DEF SpecCompact

(***************************************************************************)
(* Every variable has its type, also with compact() at any time.           *)
(***************************************************************************)
THEOREM ChangeTypeOK == SpecCompact => []TypeOK
<1>1. ASSUME ChangeInv PROVE TypeOK
  <2>1. MaxTick \in Nat /\ tick \in 1..MaxTick /\ \A n \in 0..tick : n \in 0..MaxTick
    BY <1>1, ChangeTrackingAssumption DEF ChangeInv, ColumnsOK
  <2>2. /\ version \in [Alive -> [Comp -> 0..MaxTick]]
        /\ maxVersion \in [Archetypes -> [Comp -> 0..MaxTick]]
    BY <1>1, <2>1 DEF ChangeInv, ColumnsOK
  <2>3. /\ Alive \subseteq Entity /\ place \in [Alive -> Archetypes]
        /\ Archetypes \subseteq SUBSET Comp
        /\ \A A \in Archetypes : tracking[A] \subseteq A
    BY <1>1 DEF ChangeInv, ColumnsOK
  <2>4. /\ {archList[i][1] : i \in DOMAIN archList} = Archetypes
        /\ log \in Seq([ent : Entity, comp : Comp, tick : 1..MaxTick]) /\ logGen \in Nat
    BY <1>1 DEF ChangeInv, ListOK, LogOK, Entry
  <2>5. queryBase \in 0..tick /\ view.base \in 0..tick /\ viewMayAdd \subseteq Entity
    BY <1>1 DEF ChangeInv, BasesOK
  <2>6. viewDue \subseteq Entity \X Watched /\ queryDue \subseteq Entity \X QueryChanged
    BY <1>1 DEF ChangeInv, DueInv, Owed
  <2> QED BY <2>1, <2>2, <2>3, <2>4, <2>5, <2>6 DEF TypeOK
<1> QED BY <1>1, ChangeInvariant, PTL

(***************************************************************************)
(* "The log is tick-sorted because entries are appended with a strictly    *)
(* increasing tick" (world.h:193), on which change_log_lower_bound()       *)
(* relies for its binary search: also when the older half was dropped.     *)
(***************************************************************************)
THEOREM LogStaysSorted == SpecCompact => []LogSorted
<1>1. ChangeInv => LogSorted
  BY DEF ChangeInv, LogOK
<1> QED BY <1>1, ChangeInvariant, PTL

\* The invariant says what a scan needs: it stamps the rows of the columns it
\* starts to track, and finds the others by their version.
LEMMA DueIsReported ==
  ASSUME ChangeInv
  PROVE  NoLostQueryChange
<1> SUFFICES ASSUME NEW d \in queryDue, Matches(place[d[1]], QueryAll)
             PROVE  d[1] \in ExecuteReport
  BY DEF NoLostQueryChange
<1> DEFINE As == MatchedBy(QueryAll)
           ver == VersionsOn(As, QueryChanged)
           e == d[1]
           t == d[2]
<1>1. /\ e \in Alive /\ t \in QueryChanged /\ t \in place[e] /\ queryBase < tick
      /\ t \in tracking[place[e]] => queryBase < version[e][t]
  BY DEF ChangeInv, DueInv, Owed, Newer
<1>2. t \in Comp /\ place[e] \in As
  BY <1>1, ChangeTrackingAssumption DEF MatchedBy, ChangeInv, ColumnsOK
<1>3. ver[e][t] = IF t \in Stamped(place[e], QueryChanged) THEN tick ELSE version[e][t]
  <2> HIDE DEF As
  <2> QED BY <1>1, <1>2 DEF VersionsOn
<1>4. queryBase < ver[e][t]
  BY <1>1, <1>2, <1>3 DEF Stamped
<1>5. ver[e][t] > queryBase
  <2>1. ver[e][t] \in Int /\ queryBase \in Int
    BY <1>1, <1>2, <1>3 DEF ChangeInv, ColumnsOK, BasesOK
  <2> HIDE DEF ver
  <2> QED BY <1>4, <2>1
<1> HIDE DEF ver
<1> QED BY <1>1, <1>5 DEF ExecuteReport, ver

(***************************************************************************)
(* "Otherwise every write that happened before tracking was turned on is   *)
(* silently lost" (column.h:121): none is, for a world with or without     *)
(* compact().                                                              *)
(***************************************************************************)
THEOREM QueryLosesNoChange == SpecCompact => []NoLostQueryChange
BY DueIsReported, ChangeInvariant, PTL

(***************************************************************************)
(* What a view relies on: its inductive invariant.                         *)
(***************************************************************************)

Matched(e) == e \in Alive /\ Watched \subseteq place[e]
DueOf(e) == \E t \in Watched : <<e, t>> \in viewDue

\* An entry of the log that the view has not consumed tells of a write that is
\* due, unless the entity has lost a watched component since.
LogTells ==
  \A i \in DOMAIN log :
    log[i].tick > view.base /\ log[i].comp \in Watched /\ Matched(log[i].ent) => DueOf(log[i].ent)

\* Unless a scan is needed, the entries after the position of the view tell of
\* every write that is due.
LoggedAfter(e) ==
  \E i \in view.pos + 1..Len(log) :
    log[i].ent = e /\ log[i].comp \in Watched /\ log[i].tick > view.base

Logged ==
  ~NeedScan => /\ view.pos <= Len(log)
               /\ \A d \in viewDue : Matched(d[1]) => LoggedAfter(d[1])

\* The view saw the first of the archetypes that match, and tracks them all
\* unless more have come.
AllTracked ==
  view.warm =>
    /\ Len(view.last) <= Len(MatchedAddrs)
    /\ MatchedAddrs = view.last =>
         \A A \in Archetypes : Watched \subseteq A => Watched \subseteq tracking[A]

\* Entities that have not moved since the last take() are in tracked columns, and
\* have a new version only where they are due.
Settled ==
  view.warm =>
    \A e \in Alive \ viewMayAdd : Matched(e) =>
      /\ Watched \subseteq tracking[place[e]]
      /\ \A t \in Watched : version[e][t] > view.base => DueOf(e)

ViewInv == ChangeInv /\ LogTells /\ Logged /\ AllTracked /\ Settled

(***************************************************************************)
(* Archetypes that come do not go unnoticed.                               *)
(***************************************************************************)

\* Either the view matches the archetypes it did, or one more.
MatchStep ==
  \/ /\ MatchedAddrs' = MatchedAddrs
     /\ \A A \in Archetypes' : Watched \subseteq A => A \in Archetypes
  \/ Len(MatchedAddrs') = Len(MatchedAddrs) + 1

\* A new archetype adds its place to those matched, if it matches.
LEMMA MatchedPlacesStep ==
  ASSUME ListOK, ListOK', NEW A, NEW a, Arrives(A, a)
  PROVE  /\ Watched \subseteq A => /\ MatchedPlaces' = MatchedPlaces \cup {Len(archList) + 1}
                                   /\ Len(archList) + 1 \notin MatchedPlaces
         /\ ~(Watched \subseteq A) => MatchedPlaces' = MatchedPlaces
<1> DEFINE n == Len(archList)
<1>1. /\ n \in Nat /\ DOMAIN archList = 1..n /\ DOMAIN archList' = 1..n+1
      /\ archList'[n+1] = <<A, a>> /\ \A i \in 1..n : archList'[i] = archList[i]
  BY AppendedArchetype
<1> HIDE DEF n
<1>2. \A i : i \in 1..n+1 <=> i \in 1..n \/ i = n+1
  BY <1>1
<1>3. n + 1 \notin 1..n
  BY <1>1
<1>4. MatchedPlaces' = {i \in DOMAIN archList' : Watched \subseteq archList'[i][1]}
  BY DEF MatchedPlaces, Matches
<1>5. MatchedPlaces = {i \in DOMAIN archList : Watched \subseteq archList[i][1]}
  BY DEF MatchedPlaces, Matches
<1>6. \A i : i \in MatchedPlaces' <=> i \in MatchedPlaces \/ (i = n+1 /\ Watched \subseteq A)
  BY <1>1, <1>2, <1>3, <1>4, <1>5
<1> QED BY <1>1, <1>3, <1>5, <1>6 DEF n

\* There is an address for each place matched.
LEMMA MatchedLength ==
  ListOK => Len(MatchedAddrs) = Cardinality(MatchedPlaces) /\ IsFiniteSet(MatchedPlaces)
BY MatchedAddrsType

\* The same after a step.
LEMMA MatchedLengthNext ==
  ListOK' => Len(MatchedAddrs') = Cardinality(MatchedPlaces')
<1>1. (ListOK => Len(MatchedAddrs) = Cardinality(MatchedPlaces))'
  BY MatchedLength, PTL
<1> QED BY <1>1

\* The list that a query matches only grows.
LEMMA MatchedStep ==
  ASSUME ListOK, ListOK', ListStep
  PROVE  MatchStep
<1>1. CASE archList' = archList /\ Archetypes' = Archetypes
  BY <1>1 DEF MatchStep, MatchedAddrs, MatchedPlaces
<1>2. ASSUME NEW A, NEW a, Arrives(A, a), Watched \subseteq A PROVE MatchStep
  <2>1. PICK n \in Nat : n = Len(archList)
    BY <1>2, AppendedArchetype
  <2>2. /\ Len(MatchedAddrs) = Cardinality(MatchedPlaces) /\ IsFiniteSet(MatchedPlaces)
        /\ Len(MatchedAddrs') = Cardinality(MatchedPlaces')
    BY MatchedLength, MatchedLengthNext
  <2>3. MatchedPlaces' = MatchedPlaces \cup {n + 1} /\ n + 1 \notin MatchedPlaces
    BY <1>2, <2>1, MatchedPlacesStep
  <2>4. Cardinality(MatchedPlaces \cup {n + 1}) = Cardinality(MatchedPlaces) + 1
    BY <2>2, <2>3, FS_AddElement
  <2> QED BY <2>2, <2>3, <2>4 DEF MatchStep
<1>3. ASSUME NEW A, NEW a, Arrives(A, a), ~(Watched \subseteq A) PROVE MatchStep
  <2>1. MatchedPlaces' = MatchedPlaces
    BY <1>3, MatchedPlacesStep
  <2>2. \A i \in MatchedPlaces : archList'[i] = archList[i]
    <3>1. \A i \in DOMAIN archList : archList'[i] = archList[i]
      BY <1>3, AppendedArchetype
    <3> QED BY <3>1 DEF MatchedPlaces
  <2>3. Picked(archList', MatchedPlaces) = Picked(archList, MatchedPlaces)
    <3>1. PICK n \in Nat : n = Len(archList) /\ DOMAIN archList = 1..n
      BY LenProperties DEF ListOK
    <3>2. MatchedPlaces \in SUBSET (1..n)
      BY <3>1 DEF MatchedPlaces
    <3> QED BY <2>2, <3>2, PickedSame
  <2>4. MatchedAddrs' = MatchedAddrs
    BY <2>1, <2>3 DEF MatchedAddrs
  <2> QED BY <1>3, <2>4 DEF MatchStep, Arrives
<1> QED BY <1>1, <1>2, <1>3 DEF ListStep

(***************************************************************************)
(* A step of the world.                                                    *)
(***************************************************************************)

\* What a step may rely on.
Around(M, w) ==
  /\ ChangeInv /\ ColumnsOK' /\ BasesOK' /\ LogOK'
  /\ ViewStep(M, w) /\ MatchStep
  /\ Watched # {} /\ Watched \subseteq Comp

\* An entity that matches after the step did so before it, or what it lacked was
\* written in it.
LEMMA MatchedBefore ==
  ASSUME NEW M, NEW w, Around(M, w), NEW e, Matched(e)'
  PROVE  /\ e \in Alive /\ e \in Alive' /\ Watched \subseteq place'[e]
         /\ Matched(e) \/ \E t \in Watched : <<e, t>> \in w
         /\ e \notin M => place'[e] = place[e]
<1>1. e \in Alive' /\ Watched \subseteq place'[e]
  BY DEF Matched
<1>2. e \in M => e \in Alive
  BY DEF Around, ViewStep, Rows
<1>3. CASE e \in M
  <2>1. \A u \in place'[e] : u \in place[e] \/ <<e, u>> \in w
    BY <1>3 DEF Around, ViewStep, Rows
  <2> QED BY <1>1, <1>2, <1>3, <2>1 DEF Matched
<1>4. CASE e \notin M
  <2>1. e \in Alive /\ place'[e] = place[e]
    BY <1>1, <1>4 DEF Around, ViewStep, Rows
  <2> QED BY <1>1, <1>4, <2>1 DEF Matched
<1> QED BY <1>3, <1>4

\* What is due of an entity that matches stays due, and what is written is due.
LEMMA DueOfStays ==
  ASSUME NEW M, NEW w, Around(M, w), NEW e, Matched(e)',
         DueOf(e) \/ \E t \in Watched : <<e, t>> \in w
  PROVE  DueOf(e)'
<1>1. e \in Alive' /\ Watched \subseteq place'[e]
  BY MatchedBefore
<1>2. \A t : <<e, t>>[1] = e /\ <<e, t>>[2] = t
  OBVIOUS
<1>3. PICK t \in Watched : <<e, t>> \in viewDue \/ <<e, t>> \in w
  BY DEF DueOf
<1>4. <<e, t>> \in StillDue(viewDue, Watched, w)
  BY <1>1, <1>2, <1>3 DEF StillDue
<1> QED BY <1>4 DEF DueOf, Around, ViewStep

\* An entry of the log tells of a version that the row still has, or had.
LEMMA LogTellsKept ==
  ASSUME NEW M, NEW w, Around(M, w), LogTells
  PROVE  LogTells'
<1>1. view' = view
  BY DEF Around, ViewStep
<1> SUFFICES ASSUME NEW i \in DOMAIN log', log'[i].tick > view.base, log'[i].comp \in Watched,
                    NEW e, e = log'[i].ent, Matched(e)'
             PROVE  DueOf(e)'
  BY <1>1 DEF LogTells, Matched, DueOf
<1>4. CASE \E t \in Watched : <<e, t>> \in w
  BY <1>4, DueOfStays
<1>5. CASE \E d \in w : log'[i] = [ent |-> d[1], comp |-> d[2], tick |-> tick']
  <2>1. PICK d \in w : log'[i] = [ent |-> d[1], comp |-> d[2], tick |-> tick']
    BY <1>5
  <2>2. d = <<e, d[2]>> /\ d[2] \in Watched
    BY <2>1 DEF Around, ViewStep, Rows
  <2> QED BY <1>4, <2>2
<1>6. CASE \E j \in DOMAIN log : log'[i] = log[j]
  <2>1. PICK j \in DOMAIN log : log'[i] = log[j]
    BY <1>6
  <2>2. CASE Matched(e)
    <3>1. DueOf(e)
      BY <2>1, <2>2 DEF LogTells
    <3> QED BY <3>1, DueOfStays
  <2> QED BY <1>4, <2>2, MatchedBefore
<1>7. \/ \E j \in DOMAIN log : log'[i] = log[j]
      \/ \E d \in w : log'[i] = [ent |-> d[1], comp |-> d[2], tick |-> tick']
  BY DEF Around, ViewStep, LogStep
<1> QED BY <1>5, <1>6, <1>7

\* A view that sees the archetypes it knows has seen no other come.
LEMMA NoneCame ==
  ASSUME NEW M, NEW w, Around(M, w), AllTracked, view.warm
  PROVE  /\ Len(view.last) <= Len(MatchedAddrs')
         /\ MatchedAddrs' = view.last =>
              /\ MatchedAddrs = view.last
              /\ \A A \in Archetypes' : Watched \subseteq A =>
                   A \in Archetypes /\ Watched \subseteq tracking[A]
<1>1. Len(view.last) \in Nat /\ Len(view.last) <= Len(MatchedAddrs)
  <2>1. view.last \in Seq(Addr)
    BY DEF Around, ChangeInv, BasesOK
  <2> QED BY <2>1, LenProperties DEF AllTracked
<1>2. Len(MatchedAddrs) \in Nat
  <2>1. MatchedAddrs \in Seq(Addr)
    BY MatchedAddrsType DEF Around, ChangeInv
  <2> QED BY <2>1, LenProperties
<1>3. CASE /\ MatchedAddrs' = MatchedAddrs
           /\ \A A \in Archetypes' : Watched \subseteq A => A \in Archetypes
  BY <1>1, <1>3 DEF AllTracked
<1>4. CASE Len(MatchedAddrs') = Len(MatchedAddrs) + 1
  <2>1. Len(view.last) < Len(MatchedAddrs')
    BY <1>1, <1>2, <1>4
  <2>2. MatchedAddrs' # view.last
    BY <1>1, <1>2, <1>4
  <2> QED BY <1>1, <1>2, <1>4, <2>2
<1> QED BY <1>3, <1>4 DEF Around, MatchStep

\* Matched archetypes that a view has seen stay tracked.
LEMMA AllTrackedKept ==
  ASSUME NEW M, NEW w, Around(M, w), AllTracked
  PROVE  AllTracked'
<1>1. view' = view
  BY DEF Around, ViewStep
<1> SUFFICES ASSUME view.warm
             PROVE  /\ Len(view.last) <= Len(MatchedAddrs')
                    /\ MatchedAddrs' = view.last =>
                         \A A \in Archetypes' : Watched \subseteq A => Watched \subseteq tracking'[A]
  BY <1>1 DEF AllTracked
<1>2. \A A \in Archetypes \cap Archetypes' : tracking[A] \subseteq tracking'[A]
  BY DEF Around, ViewStep, Rows
<1> QED BY <1>2, NoneCame

\* What a view is owed is still in its part of the log.
LEMMA LoggedKept ==
  ASSUME NEW M, NEW w, Around(M, w), AllTracked, Logged
  PROVE  Logged'
<1>1. view' = view /\ viewDue' = StillDue(viewDue, Watched, w)
  BY DEF Around, ViewStep
<1> SUFFICES ASSUME ~NeedScan'
             PROVE  /\ view.pos <= Len(log')
                    /\ \A d \in viewDue' : Matched(d[1])' => LoggedAfter(d[1])'
  BY <1>1 DEF Logged
<1>2. view.warm /\ logGen' = view.gen /\ MatchedAddrs' = view.last
  BY <1>1 DEF NeedScan, LogInvalidated
<1>3. logGen' = logGen
  <2>1. logGen \in Nat /\ view.gen \in Nat /\ view.gen <= logGen
    BY DEF Around, ChangeInv, BasesOK, LogOK
  <2>2. logGen' \in {logGen, logGen + 1}
    BY DEF Around, ViewStep, LogStep
  <2> QED BY <1>2, <2>1, <2>2
<1>4. /\ ~NeedScan
      /\ \A A \in Archetypes' : Watched \subseteq A => Watched \subseteq tracking'[A]
  <2>1. MatchedAddrs = view.last
    BY <1>2, NoneCame
  <2>2. AllTracked'
    BY AllTrackedKept
  <2> QED BY <1>1, <1>2, <1>3, <2>1, <2>2 DEF NeedScan, LogInvalidated, AllTracked
<1>5. /\ view.pos \in Nat /\ Len(log) \in Nat /\ Len(log') \in Nat
      /\ view.pos <= Len(log) /\ Len(log) <= Len(log')
      /\ \A i \in 1..Len(log) : log'[i] = log[i]
      /\ \A d \in w : d[2] \in tracking'[place'[d[1]]] =>
           \E i \in Len(log) + 1..Len(log') :
             log'[i] = [ent |-> d[1], comp |-> d[2], tick |-> tick']
  <2>1. view.pos \in Nat /\ view.pos <= Len(log)
    BY <1>4 DEF Logged, Around, ChangeInv, BasesOK
  <2>2. log \in Seq(Entry) /\ log' \in Seq(Entry)
    BY DEF Around, ChangeInv, LogOK
  <2> QED BY <1>3, <2>1, <2>2, LenProperties DEF Around, ViewStep, LogStep
<1>6. ASSUME NEW e, Matched(e)', NEW t \in Watched, <<e, t>> \in w
      PROVE  LoggedAfter(e)'
  <2>1. /\ place'[e] \in Archetypes' /\ t \in tracking'[place'[e]]
    <3>1. e \in Alive' /\ Watched \subseteq place'[e]
      BY <1>6 DEF Matched
    <3>2. place'[e] \in Archetypes'
      BY <3>1 DEF Around, ColumnsOK
    <3> QED BY <1>4, <1>6, <3>1, <3>2
  <2>2. view.base < tick'
    <3>1. view.base \in 0..tick /\ tick \in Nat /\ tick' \in Nat
      BY DEF Around, ChangeInv, BasesOK, ColumnsOK
    <3>2. tick < tick'
      BY <1>6 DEF Around, ViewStep, Rows
    <3> QED BY <3>1, <3>2
  <2>3. PICK i \in Len(log) + 1..Len(log') : log'[i] = [ent |-> e, comp |-> t, tick |-> tick']
    <3>1. <<e, t>>[1] = e /\ <<e, t>>[2] = t
      OBVIOUS
    <3> QED BY <1>5, <1>6, <2>1, <3>1
  <2>4. i \in view.pos + 1..Len(log')
    BY <1>5
  <2>5. log'[i].tick > view.base
    <3>1. view.base \in 0..tick /\ tick \in Nat /\ tick' \in Nat
      BY DEF Around, ChangeInv, BasesOK, ColumnsOK
    <3> QED BY <2>2, <2>3, <3>1
  <2> QED BY <1>1, <1>6, <2>3, <2>4, <2>5 DEF LoggedAfter
<1>7. ASSUME NEW e, LoggedAfter(e) PROVE LoggedAfter(e)'
  <2>1. PICK i \in view.pos + 1..Len(log) :
          log[i].ent = e /\ log[i].comp \in Watched /\ log[i].tick > view.base
    BY <1>7 DEF LoggedAfter
  <2>2. i \in 1..Len(log) /\ i \in view.pos + 1..Len(log')
    BY <1>5
  <2> QED BY <1>1, <1>5, <2>1, <2>2 DEF LoggedAfter
<1>8. ASSUME NEW d \in viewDue', Matched(d[1])' PROVE LoggedAfter(d[1])'
  <2>1. PICK e : e = d[1]
    OBVIOUS
  <2>2. Matched(e)'
    BY <1>8, <2>1 DEF Matched
  <2>3. CASE \E t \in Watched : <<e, t>> \in w
    BY <1>6, <2>1, <2>2, <2>3 DEF LoggedAfter
  <2>4. CASE Matched(e) /\ d \in viewDue
    <3>1. LoggedAfter(e)
      BY <1>4, <2>1, <2>4 DEF Logged, Matched
    <3> QED BY <1>7, <2>1, <3>1 DEF LoggedAfter
  <2>5. d \in viewDue \/ (d \in w /\ d[2] \in Watched)
    BY <1>1 DEF StillDue
  <2>6. d \in w => d = <<e, d[2]>>
    BY <2>1 DEF Around, ViewStep, Rows
  <2> QED BY <2>2, <2>3, <2>4, <2>5, <2>6, MatchedBefore
<1> QED BY <1>5, <1>8

\* A version that is newer than the baseline is owed, or came with a move.
LEMMA SettledKept ==
  ASSUME NEW M, NEW w, Around(M, w), Settled
  PROVE  Settled'
<1>1. view' = view /\ viewMayAdd' = viewMayAdd \cup M
  BY DEF Around, ViewStep
<1> SUFFICES ASSUME view.warm, NEW e \in Alive' \ viewMayAdd', Matched(e)'
             PROVE  /\ Watched \subseteq tracking'[place'[e]]
                    /\ \A t \in Watched : version'[e][t] > view.base => DueOf(e)'
  BY <1>1 DEF Settled
<1>2. /\ e \in Alive /\ e \notin viewMayAdd /\ place'[e] = place[e] /\ Matched(e)
  BY <1>1, MatchedBefore DEF Matched
<1>3. /\ Watched \subseteq tracking[place[e]]
      /\ \A t \in Watched : version[e][t] > view.base => DueOf(e)
  BY <1>2 DEF Settled
<1>4. Watched \subseteq tracking'[place'[e]]
  <2>1. place[e] \in Archetypes
    BY <1>2 DEF Around, ChangeInv, ColumnsOK
  <2>2. place'[e] \in Archetypes'
    BY DEF Around, ColumnsOK
  <2>3. tracking[place[e]] \subseteq tracking'[place[e]]
    BY <1>2, <2>1, <2>2 DEF Around, ViewStep, Rows
  <2> QED BY <1>2, <1>3, <2>3
<1>5. ASSUME NEW t \in Watched, version'[e][t] > view.base PROVE DueOf(e)'
  <2>1. version'[e][t] = IF <<e, t>> \in w THEN tick'
                         ELSE IF t \in tracking[place[e]] THEN version[e][t] ELSE tick
    BY <1>2, <1>4 DEF Around, ViewStep, Rows
  <2>2. <<e, t>> \in w \/ DueOf(e)
    BY <1>3, <1>5, <2>1
  <2> QED BY <2>2, DueOfStays
<1> QED BY <1>4, <1>5

(***************************************************************************)
(* The invariant is kept.                                                  *)
(***************************************************************************)

\* The invariant holds in a new world, which has no view.
LEMMA ViewInit == Init => ViewInv
<1> SUFFICES ASSUME Init PROVE ViewInv
  OBVIOUS
<1>1. ChangeInv
  BY ChangeInit
<1>2. ~view.warm /\ NeedScan /\ DOMAIN log = {}
  BY DEF Init, NoView, NeedScan
<1> QED BY <1>1, <1>2 DEF ViewInv, LogTells, Logged, AllTracked, Settled

\* Execute turns on tracking for the query only.
LEMMA ExecuteDoes ==
  ASSUME ChangeInv, Execute
  PROVE  ViewStep({}, {}) /\ MatchStep
<1>1. /\ UNCHANGED <<place, archList, tick, log, logGen, view, viewMayAdd, viewDue>>
      /\ Archetypes' = Archetypes
  BY DEF Execute, logVars, viewVars, Archetypes, TrackingOn
<1>2. Rows({}, {})
  BY ExecuteKeeps
<1>3. LogStep({})
  <2>1. tick \in Nat /\ tick <= tick /\ LogOK
    BY DEF ChangeInv, ColumnsOK
  <2> QED BY <1>1, <2>1, LogKept
<1>4. viewDue' = StillDue(viewDue, Watched, {})
  BY <1>1 DEF StillDue, ChangeInv, DueInv, Owed, Newer, Alive
<1>5. MatchStep
  BY <1>1 DEF MatchStep, MatchedAddrs, MatchedPlaces
<1> QED BY <1>1, <1>2, <1>3, <1>4, <1>5 DEF ViewStep

\* Operations on the world, and queries, keep what a view knows.
LEMMA ViewStepKeeps ==
  ASSUME ViewInv, PlainStep \/ Execute
  PROVE  ViewInv'
<1>1. ChangeInv /\ ChangeInv' /\ Watched # {} /\ Watched \subseteq Comp
  BY WorldStepKeeps, ExecuteKeeps, ChangeTrackingAssumption DEF ViewInv, WorldStep
<1>2. \E M, w : ViewStep(M, w) /\ MatchStep
  <2>1. CASE PlainStep
    <3>1. PICK M \in SUBSET Entity, w \in SUBSET (Entity \X Comp) : StepDoes(M, w)
      BY <1>1, <2>1, WorldStepDoes DEF WorldStep
    <3>2. MatchStep
      BY <1>1, <2>1, WorldListStep, MatchedStep DEF ChangeInv
    <3> QED BY <3>1, <3>2 DEF StepDoes
  <2>2. CASE Execute
    BY <1>1, <2>2, ExecuteDoes
  <2> QED BY <2>1, <2>2
<1>3. PICK M, w : Around(M, w)
  BY <1>1, <1>2 DEF Around, ChangeInv
<1> QED
  BY <1>1, <1>3, LogTellsKept, LoggedKept, AllTrackedKept, SettledKept DEF ViewInv

\* Without a view compact() has nothing to disturb.
LEMMA CompactKeepsView ==
  ASSUME ViewInv, ~view.made, Compact
  PROVE  ViewInv'
<1>1. ChangeInv'
  BY WorldStepKeeps DEF ViewInv, WorldStep
<1>2. UNCHANGED <<place, log, view, viewDue>> /\ ~view.warm
  BY DEF Compact, logVars, viewVars, ViewInv, ChangeInv, BasesOK
<1> QED
  BY <1>1, <1>2 DEF ViewInv, LogTells, Matched, DueOf, Alive, Logged, NeedScan, AllTracked, Settled

\* Nothing in the log is newer than the clock, which is where a reader starts.
LEMMA NothingNewer ==
  ASSUME LogOK, tick \in Nat, NEW i \in DOMAIN log
  PROVE  ~(log[i].tick > tick)
<1>1. log[i] \in Entry
  BY LenProperties, ElementOfSeq DEF LogOK
<1>2. log[i].tick \in Nat /\ log[i].tick <= tick
  BY <1>1 DEF LogOK, LogSorted, Entry
<1> QED BY <1>2

\* A new view knows what is due: nothing.
LEMMA MakeViewKeepsView ==
  ASSUME ViewInv, MakeView
  PROVE  ViewInv'
<1>1. ChangeInv'
  BY MakeViewKeeps DEF ViewInv
<1>2. log' = log /\ tick' = tick /\ view'.base = tick /\ ~view'.warm
  BY DEF MakeView, NoView, logVars
<1>3. LogTells'
  <2>1. tick \in Nat /\ LogOK
    BY DEF ViewInv, ChangeInv, ColumnsOK
  <2> QED BY <1>2, <2>1, NothingNewer DEF LogTells
<1> QED BY <1>1, <1>2, <1>3 DEF ViewInv, Logged, NeedScan, AllTracked, Settled

\* take() reports what is due, and the view starts again.
LEMMA TakeKeepsView ==
  ASSUME ViewInv, Take
  PROVE  ViewInv'
<1>1. ChangeInv'
  BY TakeKeeps DEF ViewInv
<1>2. /\ UNCHANGED <<place, archList, tick, log, logGen>>
      /\ view' = [view EXCEPT !.base = tick, !.pos = Len(log), !.gen = logGen,
                              !.warm = TRUE, !.last = MatchedAddrs]
      /\ viewDue' = {} /\ viewMayAdd' = {}
  BY DEF Take, logVars
<1>3. view'.base = tick /\ view'.pos = Len(log) /\ view'.last = MatchedAddrs /\ view'.warm
  BY <1>2 DEF ViewInv, ChangeInv, BasesOK
<1>4. tick \in Nat /\ LogOK /\ ColumnsOK /\ Watched \subseteq Comp /\ Len(log) \in Nat
  BY ChangeTrackingAssumption, LenProperties DEF ViewInv, ChangeInv, ColumnsOK, LogOK
<1>5. LogTells'
  BY <1>2, <1>3, <1>4, NothingNewer DEF LogTells
<1>6. Logged'
  <2>1. Len(log) <= Len(log)
    BY <1>4
  <2> QED BY <1>2, <1>3, <2>1 DEF Logged
<1>7. MatchedAddrs' = MatchedAddrs /\ Alive' = Alive
  BY <1>2 DEF MatchedAddrs, MatchedPlaces, Alive
<1>8. ASSUME NEW A \in Archetypes', Watched \subseteq A PROVE Watched \subseteq tracking'[A]
  <2>1. CASE NeedScan
    <3>1. tracking' = TrackingOn(MatchedBy(Watched), Watched)
      BY <2>1 DEF Take
    <3>2. A \in Archetypes /\ A \in MatchedBy(Watched)
      BY <1>8, <3>1 DEF TrackingOn, Archetypes, MatchedBy, Matches
    <3>3. tracking'[A] = tracking[A] \cup (Watched \cap A)
      <4> HIDE DEF MatchedBy
      <4> QED BY <3>1, <3>2 DEF TrackingOn
    <3> QED BY <1>8, <3>3
  <2>2. CASE ~NeedScan
    <3>1. tracking' = tracking /\ view.warm /\ MatchedAddrs = view.last
      BY <2>2 DEF Take, NeedScan
    <3> QED BY <1>8, <3>1 DEF ViewInv, AllTracked, Archetypes
  <2> QED BY <2>1, <2>2
<1>9. AllTracked'
  <2>1. Len(MatchedAddrs) <= Len(MatchedAddrs)
    <3>1. MatchedAddrs \in Seq(Addr)
      BY MatchedAddrsType DEF ViewInv, ChangeInv
    <3> QED BY <3>1, LenProperties
  <2> QED BY <1>3, <1>7, <1>8, <2>1 DEF AllTracked
<1>10. Settled'
  <2>1. ASSUME NEW e \in Alive, Watched \subseteq place'[e] PROVE Watched \subseteq tracking'[place'[e]]
    BY <1>1, <1>7, <1>8, <2>1 DEF ChangeInv, ColumnsOK
  <2>2. ASSUME NEW e \in Alive, NEW t \in Watched PROVE ~(version'[e][t] > tick)
    <3>1. version'[e][t] \in 0..tick
      BY <1>1, <1>2, <1>4, <1>7, <2>2 DEF ChangeInv, ColumnsOK
    <3> QED BY <1>4, <3>1
  <2> QED BY <1>3, <1>7, <2>1, <2>2 DEF Settled, Matched
<1> QED BY <1>1, <1>5, <1>6, <1>9, <1>10 DEF ViewInv

\* Every step keeps the invariant.
LEMMA ViewNext == ViewInv /\ [Next]_vars => ViewInv'
<1> SUFFICES ASSUME ViewInv, [Next]_vars PROVE ViewInv'
  OBVIOUS
<1>1. CASE PlainStep
  BY <1>1, ViewStepKeeps
<1>2. CASE ~view.made /\ Compact
  BY <1>2, CompactKeepsView
<1>3. CASE Read
  BY <1>3, MakeViewKeepsView, TakeKeepsView, ViewStepKeeps DEF Read
<1> QED BY <1>1, <1>2, <1>3 DEF Next, Replace, PlainStep

\* While a view is in use it knows what is due.
THEOREM ViewInvariant == Spec => []ViewInv
BY ViewInit, ViewNext, PTL DEF Spec

(***************************************************************************)
(* "In steady state (warmed up, same archetypes, log intact) layer (b)     *)
(* alone yields exactly the changed set" (world.h:479).                    *)
(***************************************************************************)
LEMMA SteadyExact ==
  ASSUME ViewInv
  PROVE  SteadyTakeExact
<1> SUFFICES ASSUME ~NeedScan
             PROVE  LogReport = {e \in Alive : Matches(place[e], Watched) /\ DueOf(e)}
  BY DEF SteadyTakeExact, TakeReport, DueOf
<1>1. LogStart = view.pos
  BY DEF NeedScan, LogStart
<1>2. view.pos \in Nat /\ Len(log) \in Nat /\ DOMAIN log = 1..Len(log)
  BY LenProperties DEF ViewInv, ChangeInv, BasesOK, LogOK
<1>3. ASSUME NEW e \in LogReport PROVE Matched(e) /\ DueOf(e)
  <2>1. PICK i \in view.pos + 1..Len(log) :
          /\ log[i].ent = e /\ log[i].tick > view.base /\ log[i].comp \in Watched
          /\ e \in Alive /\ Matches(place[e], Watched)
    BY <1>1, <1>3 DEF LogReport
  <2>2. i \in DOMAIN log
    BY <1>2
  <2> QED BY <2>1, <2>2 DEF ViewInv, LogTells, Matched, Matches
<1>4. ASSUME NEW e, Matched(e), DueOf(e) PROVE e \in LogReport
  <2>1. PICK t \in Watched : <<e, t>> \in viewDue
    BY <1>4 DEF DueOf
  <2>2. <<e, t>>[1] = e
    OBVIOUS
  <2>3. LoggedAfter(e)
    BY <1>4, <2>1, <2>2 DEF ViewInv, Logged
  <2> QED BY <1>1, <1>4, <2>3 DEF LoggedAfter, LogReport, Matched, Matches
<1> QED BY <1>3, <1>4 DEF Matched, Matches

\* take() with a warm cache, over archetypes that it knows and a log that is
\* whole, reports the changed set and nothing else (world.h:479).
THEOREM SteadyTakeStaysExact == Spec => []SteadyTakeExact
BY SteadyExact, ViewInvariant, PTL

(***************************************************************************)
(* "Second take with no writes is empty" (regression_test.gd:900).         *)
(***************************************************************************)
LEMMA OnlyChanges ==
  ASSUME ViewInv
  PROVE  OnlyChangesReported
<1> SUFFICES ASSUME view.warm, NEW e \in TakeReport, e \notin viewMayAdd
             PROVE  e \in {d[1] : d \in viewDue}
  BY DEF OnlyChangesReported
<1>1. DueOf(e) => e \in {d[1] : d \in viewDue}
  <2>1. \A t : <<e, t>>[1] = e
    OBVIOUS
  <2> QED BY <2>1 DEF DueOf
<1>2. CASE e \in LogReport
  <2>1. PICK i \in LogStart + 1..Len(log) :
          /\ log[i].ent = e /\ log[i].tick > view.base /\ log[i].comp \in Watched
          /\ e \in Alive /\ Matches(place[e], Watched)
    BY <1>2 DEF LogReport
  <2>2. LogStart \in Nat
    <3>1. view.pos \in Nat
      BY DEF ViewInv, ChangeInv, BasesOK
    <3>2. LowerBound(view.base) \in Nat
      <4>1. {i2 \in DOMAIN log : log[i2].tick <= view.base} \in SUBSET (1..Len(log))
        BY LenProperties DEF ViewInv, ChangeInv, LogOK
      <4>2. Len(log) \in Nat
        BY LenProperties DEF ViewInv, ChangeInv, LogOK
      <4> QED BY <4>1, <4>2, Ranks DEF LowerBound
    <3> QED BY <3>1, <3>2 DEF LogStart
  <2>3. i \in DOMAIN log
    BY <2>2, LenProperties DEF ViewInv, ChangeInv, LogOK
  <2>4. DueOf(e)
    BY <2>1, <2>3 DEF ViewInv, LogTells, Matched, Matches
  <2> QED BY <1>1, <2>4
<1>3. CASE e \in ScanReport
  <2> DEFINE As == MatchedBy(Watched)
             ver == VersionsOn(As, Watched)
  <2>1. e \in Alive /\ Matches(place[e], Watched) /\ \E t \in Watched : ver[e][t] > view.base
    BY <1>3 DEF ScanReport
  <2>2. PICK t \in Watched : ver[e][t] > view.base
    BY <2>1
  <2>3. t \in Comp
    BY ChangeTrackingAssumption
  <2>4. /\ Watched \subseteq tracking[place[e]]
        /\ version[e][t] > view.base => DueOf(e)
    BY <2>1 DEF ViewInv, Settled, Matched, Matches
  <2>5. ver[e][t] = version[e][t]
    <3> HIDE DEF As
    <3>1. ver[e][t] = IF place[e] \in As /\ t \in Stamped(place[e], Watched) THEN tick ELSE version[e][t]
      BY <2>1, <2>3 DEF VersionsOn
    <3> QED BY <2>4, <3>1 DEF Stamped
  <2> HIDE DEF ver
  <2> QED BY <1>1, <2>2, <2>4, <2>5
<1> QED BY <1>2, <1>3 DEF TakeReport

\* A warm view reports nobody who was not written and did not move
\* (regression_test.gd:900).
THEOREM OnlyChangesStayReported == Spec => []OnlyChangesReported
BY OnlyChanges, ViewInvariant, PTL

(***************************************************************************)
(* "Every entity whose watched component column was written since the      *)
(* previous take()" (world.h:438), unless a removal has set the maximum of *)
(* a column below the version of a row in it.                              *)
(***************************************************************************)
LEMMA NoneLost ==
  ASSUME ViewInv
  PROVE  NoLostChangeUnlessDowngraded
<1> SUFFICES ASSUME MaxVersionHighest, NEW d \in viewDue, Matches(place[d[1]], Watched)
             PROVE  d[1] \in TakeReport
  BY DEF NoLostChangeUnlessDowngraded, NoLostChange
<1> DEFINE e == d[1]
           t == d[2]
<1>1. /\ e \in Alive /\ t \in Watched /\ t \in place[e] /\ view.base < tick
      /\ t \in tracking[place[e]] => view.base < version[e][t]
  BY DEF ViewInv, ChangeInv, DueInv, Owed, Newer
<1>2. t \in Comp /\ place[e] \in Archetypes /\ Watched \subseteq place[e]
  BY <1>1, ChangeTrackingAssumption DEF ViewInv, ChangeInv, ColumnsOK, Matches
<1>3. CASE ~NeedScan
  <2>1. PICK t2 \in Watched : <<e, t2>> \in viewDue
    BY <1>1 DEF ViewInv, ChangeInv, DueInv, Owed
  <2>2. DueOf(e)
    BY <2>1 DEF DueOf
  <2>3. view.made
    BY <1>3 DEF NeedScan, ViewInv, ChangeInv, BasesOK
  <2> QED BY <1>1, <1>3, <2>2, <2>3, SteadyExact DEF SteadyTakeExact, DueOf
<1>4. CASE NeedScan
  <2> DEFINE As == MatchedBy(Watched)
             ver == VersionsOn(As, Watched)
             max == MaximaOn(As, Watched)
  <2>1. place[e] \in As
    BY <1>2 DEF MatchedBy, Matches
  <2>2. /\ ver[e][t] = IF t \in Stamped(place[e], Watched) THEN tick ELSE version[e][t]
        /\ max[place[e]][t] = IF t \in Stamped(place[e], Watched) THEN tick ELSE maxVersion[place[e]][t]
    <3> HIDE DEF As, e, t
    <3> QED BY <1>1, <1>2, <2>1 DEF VersionsOn, MaximaOn
  <2>3. t \in Stamped(place[e], Watched) <=> t \notin tracking[place[e]]
    BY <1>1 DEF Stamped
  <2>4. t \in tracking[place[e]] => version[e][t] <= maxVersion[place[e]][t]
    BY <1>1 DEF MaxVersionHighest
  <2>5. /\ view.base \in Nat /\ tick \in Nat /\ version[e][t] \in Nat
        /\ maxVersion[place[e]][t] \in Nat
    BY <1>1, <1>2 DEF ViewInv, ChangeInv, ColumnsOK, BasesOK
  <2> HIDE DEF As, ver, max, e, t
  <2>6. ver[e][t] > view.base /\ max[place[e]][t] > view.base
    BY <1>1, <2>2, <2>3, <2>4, <2>5
  <2>7. e \in ScanReport
    BY <1>1, <1>2, <2>6 DEF ScanReport, Matches, ver, max, As
  <2> QED BY <1>4, <2>7 DEF TakeReport, e
<1> QED BY <1>3, <1>4

\* take() "returns every entity whose watched component column was written"
\* (world.h:438), as long as max_version_ of no column is below its rows.
THEOREM NoChangeIsLost == Spec => []NoLostChangeUnlessDowngraded
BY NoneLost, ViewInvariant, PTL
=============================================================================

--------------------------- MODULE Observers_proofs ---------------------------
(***************************************************************************)
(* What user code may do inside a delivery does no harm: a delivery calls  *)
(* whom it has to, the list of callbacks holds nobody that is gone, and    *)
(* once all calls have returned observers know who matches and field       *)
(* subscriptions have seen the values there are.                           *)
(*                                                                         *)
(* The invariant says of each call under way what it has done and what it  *)
(* still has to do.  An observer may be wrong about an entity while a call *)
(* is under way that will put it right: a delivery that has not come to    *)
(* it, the rest of a destruction, or a seeding that has the row before it. *)
(***************************************************************************)
EXTENDS Observers, SequenceTheorems, FiniteSetTheorems, TLAPS

(***************************************************************************)
(* The calls under way.                                                    *)
(***************************************************************************)

EntityEvent == [kind : {"Added", "Removed", "Changed"}, ent : Entity, comp : Comp]
AnyEvent == EntityEvent \cup {[kind |-> "Custom"]}

UserFrame == [kind : {"user"}, obs : Observer \cup FieldSub]
SeedFrame == [kind : {"seed"}, obs : Observer, row : Nat \ {0}, todo : Seq(SUBSET Comp)]
RemovalsFrame == [kind : {"removals"}, ent : Entity, todo : Seq(Comp)]
DispatchFrame ==
  [kind : {"dispatch"}, ev : AnyEvent, snapshot : Seq(Callback), next : Nat \ {0},
   evaluate : SUBSET Observer, due : SUBSET Callback, got : Seq(Callback)]

Frame == UserFrame \cup SeedFrame \cup RemovalsFrame \cup DispatchFrame

\* The kind of a call says what else it carries.
LEMMA FrameKinds ==
  ASSUME NEW f \in Frame
  PROVE  /\ f.kind = "user" <=> f \in UserFrame
         /\ f.kind = "seed" <=> f \in SeedFrame
         /\ f.kind = "removals" <=> f \in RemovalsFrame
         /\ f.kind = "dispatch" <=> f \in DispatchFrame
BY DEF Frame, UserFrame, SeedFrame, RemovalsFrame, DispatchFrame

\* What a delivery becomes when it passes a callback that it does not call.
LEMMA SkippedFrame ==
  ASSUME NEW f \in DispatchFrame, NEW g, g = [f EXCEPT !.next = @ + 1]
  PROVE  /\ g \in DispatchFrame /\ g.ev = f.ev /\ g.snapshot = f.snapshot
         /\ g.next = f.next + 1 /\ g.evaluate = f.evaluate
         /\ g.due = f.due /\ g.got = f.got
BY DEF DispatchFrame

\* A delivery that has called other callbacks.
LEMMA GotFrame ==
  ASSUME NEW f \in DispatchFrame, NEW x \in Seq(Callback), NEW g, g = [f EXCEPT !.got = x]
  PROVE  /\ g \in DispatchFrame /\ g.ev = f.ev /\ g.snapshot = f.snapshot
         /\ g.next = f.next /\ g.evaluate = f.evaluate
         /\ g.due = f.due /\ g.got = x
BY DEF DispatchFrame

\* A delivery with other observers to evaluate.
LEMMA EvaluatingFrame ==
  ASSUME NEW f \in DispatchFrame, NEW S \in SUBSET Observer,
         NEW g, g = [f EXCEPT !.evaluate = S]
  PROVE  /\ g \in DispatchFrame /\ g.ev = f.ev /\ g.snapshot = f.snapshot
         /\ g.next = f.next /\ g.evaluate = S
         /\ g.due = f.due /\ g.got = f.got
BY DEF DispatchFrame

\* What a seeding becomes at the next row.
LEMMA SeedRowFrame ==
  ASSUME NEW f \in SeedFrame, NEW g, g = [f EXCEPT !.row = @ + 1]
  PROVE  g \in SeedFrame /\ g.obs = f.obs /\ g.row = f.row + 1 /\ g.todo = f.todo
BY DEF SeedFrame

\* What a seeding becomes at the next archetype.
LEMMA SeedTableFrame ==
  ASSUME NEW f \in SeedFrame, f.todo # <<>>, NEW g, g = [f EXCEPT !.todo = Tail(@), !.row = 1]
  PROVE  g \in SeedFrame /\ g.obs = f.obs /\ g.row = 1 /\ g.todo = Tail(f.todo)
<1> DEFINE x == Tail(f.todo)
<1>1. x \in Seq(SUBSET Comp)
  BY DEF SeedFrame
<1>2. g = [f EXCEPT !.todo = x, !.row = 1] /\ g = [[f EXCEPT !.todo = x] EXCEPT !.row = 1]
  OBVIOUS
<1> HIDE DEF x
<1>3. g \in SeedFrame
  <2> DEFINE h == [f EXCEPT !.todo = x]
  <2>1. h \in SeedFrame
    BY <1>1 DEF SeedFrame
  <2>2. g = [h EXCEPT !.row = 1]
    BY <1>2
  <2> HIDE DEF h
  <2> QED BY <2>1, <2>2 DEF SeedFrame
<1>4. g.obs = f.obs /\ g.row = 1 /\ g.todo = x
  BY <1>2 DEF SeedFrame
<1> QED BY <1>3, <1>4 DEF x

\* What the rest of destroy_entity() becomes after an event.
LEMMA RemovalsNextFrame ==
  ASSUME NEW f \in RemovalsFrame, f.todo # <<>>, NEW g, g = [f EXCEPT !.todo = Tail(@)]
  PROVE  g \in RemovalsFrame /\ g.ent = f.ent /\ g.todo = Tail(f.todo)
<1>1. PICK x : x = Tail(f.todo)
  OBVIOUS
<1>2. x \in Seq(Comp)
  BY <1>1 DEF RemovalsFrame
<1>3. g = [f EXCEPT !.todo = x]
  BY <1>1
<1>4. g \in RemovalsFrame
  BY <1>2, <1>3 DEF RemovalsFrame
<1>5. g.ent = f.ent /\ g.todo = x
  BY <1>3 DEF RemovalsFrame
<1> QED BY <1>1, <1>4, <1>5

(***************************************************************************)
(* What the operations do to a stack of calls.                             *)
(***************************************************************************)

\* A call is added to the calls under way.
LEMMA PushFacts ==
  ASSUME NEW S, NEW s \in Seq(S), NEW f \in S, NEW t, t = Append(s, f)
  PROVE  /\ t \in Seq(S) /\ Len(t) = Len(s) + 1 /\ t # <<>>
         /\ \A i \in DOMAIN s : i \in DOMAIN t /\ t[i] = s[i]
         /\ t[Len(s) + 1] = f
         /\ DOMAIN t = DOMAIN s \cup {Len(s) + 1}
OBVIOUS

\* The innermost call changes.
LEMMA SetTopFacts ==
  ASSUME NEW S, NEW s \in Seq(S), s # <<>>, NEW f \in S, NEW t, t = [s EXCEPT ![Len(s)] = f]
  PROVE  /\ t \in Seq(S) /\ Len(t) = Len(s) /\ DOMAIN t = DOMAIN s
         /\ \A i \in DOMAIN s : i # Len(s) => t[i] = s[i]
         /\ t[Len(s)] = f /\ Len(s) \in DOMAIN s
OBVIOUS

\* The innermost call changes, and calls another.
LEMMA CallFromFacts ==
  ASSUME NEW S, NEW s \in Seq(S), s # <<>>, NEW f \in S, NEW g \in S,
         NEW t, t = Append([s EXCEPT ![Len(s)] = f], g)
  PROVE  /\ t \in Seq(S) /\ DOMAIN t = DOMAIN s \cup {Len(s) + 1}
         /\ \A i \in DOMAIN s : i # Len(s) => t[i] = s[i]
         /\ t[Len(s)] = f /\ t[Len(s) + 1] = g /\ Len(s) \in DOMAIN s
<1> DEFINE u == [s EXCEPT ![Len(s)] = f]
<1>1. u \in Seq(S) /\ Len(u) = Len(s) /\ DOMAIN u = DOMAIN s
  OBVIOUS
<1>2. (\A i \in DOMAIN s : i # Len(s) => u[i] = s[i]) /\ u[Len(s)] = f /\ Len(s) \in DOMAIN s
  OBVIOUS
<1>3. t = Append(u, g)
  OBVIOUS
<1> HIDE DEF u
<1>4. /\ t \in Seq(S) /\ DOMAIN t = DOMAIN u \cup {Len(u) + 1}
      /\ \A i \in DOMAIN u : t[i] = u[i]
      /\ t[Len(u) + 1] = g
  <2>1. u \in Seq(S)
    BY <1>1
  <2> QED BY <1>3, <2>1, PushFacts
<1> QED BY <1>1, <1>2, <1>4

(***************************************************************************)
(* The rows of the archetypes.                                             *)
(***************************************************************************)

\* Every entity is in one row at most, of one archetype.
TablesOK(t) ==
  /\ t \in [SUBSET Comp -> Seq(Entity)]
  /\ \A A, B \in SUBSET Comp : \A i \in DOMAIN t[A], j \in DOMAIN t[B] :
       t[A][i] = t[B][j] => A = B /\ i = j

\* What TablesOK says of two rows.
LEMMA OneRow ==
  ASSUME NEW t, TablesOK(t), NEW A \in SUBSET Comp, NEW B \in SUBSET Comp,
         NEW i \in DOMAIN t[A], NEW j \in DOMAIN t[B], t[A][i] = t[B][j]
  PROVE  A = B /\ i = j
BY DEF TablesOK

\* x is in a row of an archetype that has all of T.
HasIn(t, x, T) ==
  \E A \in SUBSET Comp : T \subseteq A /\ \E i \in DOMAIN t[A] : t[A][i] = x

\* Rows of x in t are where they were, unless x is in S.
RowsStay(t, S) ==
  \A A \in SUBSET Comp : \A i \in DOMAIN tables[A] :
    tables[A][i] \notin S => i \in DOMAIN t[A] /\ t[A][i] = tables[A][i]

\* An entity that is alive has a row, and that in its own archetype only.
LEMMA TableOfAlive ==
  ASSUME TablesOK(tables), NEW e \in Alive
  PROVE  /\ TableOf(e) \in SUBSET Comp
         /\ \E i \in DOMAIN tables[TableOf(e)] : tables[TableOf(e)][i] = e
         /\ \A A \in SUBSET Comp : \A i \in DOMAIN tables[A] :
              tables[A][i] = e => A = TableOf(e)
         /\ e \in Entity
<1>1. \E A \in SUBSET Comp : e \in ToSet(tables[A])
  BY DEF Alive
<1>2. TableOf(e) \in SUBSET Comp /\ e \in ToSet(tables[TableOf(e)])
  BY <1>1 DEF TableOf
<1>3. PICK i \in DOMAIN tables[TableOf(e)] : tables[TableOf(e)][i] = e
  BY <1>2 DEF ToSet
<1>4. ASSUME NEW A \in SUBSET Comp, NEW j \in DOMAIN tables[A], tables[A][j] = e
      PROVE  A = TableOf(e)
  BY <1>2, <1>3, <1>4 DEF TablesOK
<1>5. e \in Entity
  BY <1>2, <1>3 DEF TablesOK
<1> QED BY <1>2, <1>3, <1>4, <1>5

\* has_component() as a fact about rows.
LEMMA HasIsHasIn ==
  ASSUME TablesOK(tables), NEW e, NEW T
  PROVE  /\ Has(e, T) <=> HasIn(tables, e, T)
         /\ e \in Alive <=> HasIn(tables, e, {})
<1>1. e \in Alive <=> \E A \in SUBSET Comp : \E i \in DOMAIN tables[A] : tables[A][i] = e
  BY DEF Alive, ToSet
<1>2. e \in Alive <=> HasIn(tables, e, {})
  BY <1>1 DEF HasIn
<1>3. ASSUME Has(e, T)
      PROVE  HasIn(tables, e, T)
  BY <1>3, TableOfAlive DEF Has, HasIn
<1>4. ASSUME HasIn(tables, e, T)
      PROVE  Has(e, T)
  <2>1. PICK A \in SUBSET Comp : T \subseteq A /\ \E i \in DOMAIN tables[A] : tables[A][i] = e
    BY <1>4 DEF HasIn
  <2>2. e \in Alive
    BY <1>1, <2>1
  <2> QED BY <2>1, <2>2, TableOfAlive DEF Has
<1> QED BY <1>2, <1>3, <1>4

\* Archetype::remove_entity: the last row fills the hole, the others stay.
LEMMA SwapRemoveRows ==
  ASSUME NEW rows \in Seq(Entity), NEW k \in DOMAIN rows,
         \A i, j \in DOMAIN rows : rows[i] = rows[j] => i = j,
         NEW s, s = SwapRemove(rows, rows[k])
  PROVE  /\ s \in Seq(Entity) /\ Len(s) = Len(rows) - 1
         /\ \A i \in DOMAIN s : s[i] = IF i = k THEN rows[Len(rows)] ELSE rows[i]
<1> DEFINE r == ReplaceAll(rows, rows[k], Last(rows))
<1>1. rows[Len(rows)] \in Entity /\ Len(rows) \in Nat \ {0}
  OBVIOUS
<1>2. r \in Seq(Entity) /\ Len(r) = Len(rows)
  BY <1>1 DEF ReplaceAll, Last
<1>3. \A i \in DOMAIN rows : r[i] = IF i = k THEN rows[Len(rows)] ELSE rows[i]
  BY DEF ReplaceAll, Last
<1>4. s = Front(r)
  BY DEF SwapRemove
<1> HIDE DEF r
<1> QED BY <1>1, <1>2, <1>3, <1>4 DEF Front

\* An entity leaves its archetype: nobody else loses a row, and only the entity
\* in the last row changes its own.
LEMMA LeaveRows ==
  ASSUME TablesOK(tables), NEW e \in Alive, NEW t, t = Leave(e)
  PROVE  /\ TablesOK(t)
         /\ \A x, T : HasIn(t, x, T) <=> x # e /\ HasIn(tables, x, T)
         /\ RowsStay(t, {e, Last(tables[TableOf(e)])})
         /\ Last(tables[TableOf(e)]) \in Entity
<1> DEFINE H == TableOf(e)
           rows == tables[H]
           s == SwapRemove(rows, e)
<1>1. PICK k \in DOMAIN rows : rows[k] = e
  BY TableOfAlive
<1>2. H \in SUBSET Comp /\ rows \in Seq(Entity)
  BY TableOfAlive DEF TablesOK
<1>3. \A i, j \in DOMAIN rows : rows[i] = rows[j] => i = j
  BY <1>2 DEF TablesOK
<1>4. /\ s \in Seq(Entity) /\ Len(s) = Len(rows) - 1
      /\ \A i \in DOMAIN s : s[i] = IF i = k THEN rows[Len(rows)] ELSE rows[i]
  <2> HIDE DEF rows
  <2> QED BY <1>1, <1>2, <1>3, SwapRemoveRows
<1>5. /\ t = [tables EXCEPT ![H] = s]
      /\ tables \in [SUBSET Comp -> Seq(Entity)]
  BY DEF Leave, TablesOK
<1>6. Last(rows) = rows[Len(rows)] /\ Len(rows) \in DOMAIN rows /\ Last(rows) \in Entity
  BY <1>1, <1>2 DEF Last
<1>7. \A A \in SUBSET Comp : \A i \in DOMAIN tables[A] : tables[A][i] = e => A = H
  BY TableOfAlive
<1>8. /\ t \in [SUBSET Comp -> Seq(Entity)] /\ t[H] = s
      /\ \A A \in SUBSET Comp : A # H => t[A] = tables[A]
  <2> HIDE DEF s, H
  <2> QED BY <1>2, <1>4, <1>5
<1> HIDE DEF s, H, rows
<1>9. rows = tables[H]
  BY DEF rows
<1>10. ASSUME NEW A \in SUBSET Comp, NEW i \in DOMAIN t[A]
       PROVE  /\ t[A][i] # e
              /\ IF A = H /\ i = k THEN t[A][i] = rows[Len(rows)] /\ k # Len(rows)
                 ELSE i \in DOMAIN tables[A] /\ t[A][i] = tables[A][i]
  <2>1. CASE A = H
    <3>1. i \in DOMAIN s /\ i \in DOMAIN rows /\ i # Len(rows)
      BY <1>2, <1>4, <1>8, <2>1
    <3>2. t[A][i] = IF i = k THEN rows[Len(rows)] ELSE rows[i]
      BY <1>4, <1>8, <2>1, <3>1
    <3> QED BY <1>1, <1>3, <1>6, <1>9, <2>1, <3>1, <3>2
  <2>2. CASE A # H
    BY <1>7, <1>8, <2>2
  <2> QED BY <2>1, <2>2
<1>11. TablesOK(t)
  <2> SUFFICES ASSUME NEW A \in SUBSET Comp, NEW B \in SUBSET Comp,
                      NEW i \in DOMAIN t[A], NEW j \in DOMAIN t[B], t[A][i] = t[B][j]
               PROVE  A = B /\ i = j
    BY <1>8 DEF TablesOK
  <2>0. t[A][i] = t[B][j]
    OBVIOUS
  <2>1. CASE (A = H /\ i = k) /\ (B = H /\ j = k)
    BY <2>1
  <2>2. CASE (A = H /\ i = k) /\ ~(B = H /\ j = k)
    <3>1. j \in DOMAIN tables[B] /\ tables[B][j] = rows[Len(rows)]
      BY <1>10, <2>2
    <3>2. B = H /\ j = Len(rows)
      BY <1>2, <1>6, <1>9, <3>1, OneRow
    <3>3. j # Len(rows)
      BY <1>2, <1>4, <1>8, <3>2
    <3> QED BY <3>2, <3>3
  <2>3. CASE ~(A = H /\ i = k) /\ (B = H /\ j = k)
    <3>1. i \in DOMAIN tables[A] /\ tables[A][i] = rows[Len(rows)]
      BY <1>10, <2>3
    <3>2. A = H /\ i = Len(rows)
      BY <1>2, <1>6, <1>9, <3>1, OneRow
    <3>3. i # Len(rows)
      BY <1>2, <1>4, <1>8, <3>2
    <3> QED BY <3>2, <3>3
  <2>4. CASE ~(A = H /\ i = k) /\ ~(B = H /\ j = k)
    <3>1. /\ i \in DOMAIN tables[A] /\ t[A][i] = tables[A][i]
          /\ j \in DOMAIN tables[B] /\ t[B][j] = tables[B][j]
      BY <1>10, <2>4
    <3>2. tables[A][i] = tables[B][j]
      BY <2>0, <3>1
    <3> QED BY <3>1, <3>2, OneRow
  <2> QED BY <2>1, <2>2, <2>3, <2>4
<1>12. ASSUME NEW A \in SUBSET Comp, NEW x
       PROVE  (\E i \in DOMAIN t[A] : t[A][i] = x)
                <=> x # e /\ \E i \in DOMAIN tables[A] : tables[A][i] = x
  <2>1. ASSUME NEW i \in DOMAIN t[A], t[A][i] = x
        PROVE  x # e /\ \E j \in DOMAIN tables[A] : tables[A][j] = x
    BY <1>6, <1>9, <1>10, <2>1
  <2>2. ASSUME NEW i \in DOMAIN tables[A], tables[A][i] = x, x # e
        PROVE  \E j \in DOMAIN t[A] : t[A][j] = x
    <3>1. CASE A # H
      BY <1>8, <2>2, <3>1
    <3>2. CASE A = H /\ i = Len(rows)
      <4>1. k # Len(rows)
        BY <1>1, <1>9, <2>2, <3>2
      <4>2. k \in DOMAIN s /\ s[k] = x
        BY <1>1, <1>2, <1>4, <1>9, <2>2, <3>2, <4>1
      <4> QED BY <1>8, <3>2, <4>2
    <3>3. CASE A = H /\ i # Len(rows)
      <4>1. i # k
        BY <1>1, <1>9, <2>2, <3>3
      <4>2. i \in DOMAIN s /\ s[i] = x
        BY <1>2, <1>4, <1>9, <2>2, <3>3, <4>1
      <4> QED BY <1>8, <3>3, <4>2
    <3> QED BY <3>1, <3>2, <3>3
  <2> QED BY <2>1, <2>2
<1>13. ASSUME NEW x, NEW T
       PROVE  HasIn(t, x, T) <=> x # e /\ HasIn(tables, x, T)
  <2>1. ASSUME HasIn(t, x, T)
        PROVE  x # e /\ HasIn(tables, x, T)
    <3>1. PICK A \in SUBSET Comp : T \subseteq A /\ \E i \in DOMAIN t[A] : t[A][i] = x
      BY <2>1 DEF HasIn
    <3>2. x # e /\ \E i \in DOMAIN tables[A] : tables[A][i] = x
      BY <1>12, <3>1
    <3> QED BY <3>1, <3>2 DEF HasIn
  <2>2. ASSUME x # e, HasIn(tables, x, T)
        PROVE  HasIn(t, x, T)
    <3>1. PICK A \in SUBSET Comp : T \subseteq A /\ \E i \in DOMAIN tables[A] : tables[A][i] = x
      BY <2>2 DEF HasIn
    <3>2. \E i \in DOMAIN t[A] : t[A][i] = x
      BY <1>12, <2>2, <3>1
    <3> QED BY <3>1, <3>2 DEF HasIn
  <2> QED BY <2>1, <2>2
<1>14. RowsStay(t, {e, Last(rows)})
  <2> SUFFICES ASSUME NEW A \in SUBSET Comp, NEW i \in DOMAIN tables[A],
                      tables[A][i] # e, tables[A][i] # Last(rows)
               PROVE  i \in DOMAIN t[A] /\ t[A][i] = tables[A][i]
    BY DEF RowsStay
  <2>1. CASE A # H
    BY <1>8, <2>1
  <2>2. CASE A = H
    <3>1. i # k /\ i # Len(rows)
      BY <1>1, <1>6, <1>9, <2>2
    <3>2. i \in DOMAIN s /\ s[i] = rows[i]
      BY <1>2, <1>4, <1>9, <2>2, <3>1
    <3> QED BY <1>8, <1>9, <2>2, <3>2
  <2> QED BY <2>1, <2>2
<1> QED BY <1>6, <1>11, <1>13, <1>14 DEF rows, H

\* An entity is appended to an archetype.
LEMMA AppendRow ==
  ASSUME NEW u, TablesOK(u), NEW e \in Entity, NEW B \in SUBSET Comp,
         ~HasIn(u, e, {}), NEW t, t = [u EXCEPT ![B] = Append(@, e)]
  PROVE  /\ TablesOK(t)
         /\ \A x, T : x # e => (HasIn(t, x, T) <=> HasIn(u, x, T))
         /\ \A T : HasIn(t, e, T) <=> T \subseteq B
         /\ \A A \in SUBSET Comp : \A i \in DOMAIN u[A] : i \in DOMAIN t[A] /\ t[A][i] = u[A][i]
<1> DEFINE s == Append(u[B], e)
<1>1. u[B] \in Seq(Entity) /\ u \in [SUBSET Comp -> Seq(Entity)]
  BY DEF TablesOK
<1>2. /\ s \in Seq(Entity) /\ DOMAIN s = DOMAIN u[B] \cup {Len(u[B]) + 1}
      /\ \A i \in DOMAIN u[B] : s[i] = u[B][i]
      /\ s[Len(u[B]) + 1] = e /\ Len(u[B]) + 1 \notin DOMAIN u[B]
  BY <1>1
<1>3. t = [u EXCEPT ![B] = s]
  OBVIOUS
<1> HIDE DEF s
<1>4. /\ t \in [SUBSET Comp -> Seq(Entity)] /\ t[B] = s
      /\ \A A \in SUBSET Comp : A # B => t[A] = u[A]
  BY <1>1, <1>2, <1>3
<1>5. \A A \in SUBSET Comp : \A i \in DOMAIN u[A] : i \in DOMAIN t[A] /\ t[A][i] = u[A][i]
  BY <1>2, <1>4
<1>6. \A A \in SUBSET Comp : \A i \in DOMAIN u[A] : u[A][i] # e
  BY DEF HasIn
<1>7. \A A \in SUBSET Comp : \A i \in DOMAIN t[A] :
        \/ i \in DOMAIN u[A] /\ t[A][i] = u[A][i]
        \/ A = B /\ i = Len(u[B]) + 1 /\ t[A][i] = e
  BY <1>2, <1>4
<1>8. TablesOK(t)
  <2> SUFFICES ASSUME NEW A \in SUBSET Comp, NEW D \in SUBSET Comp,
                      NEW i \in DOMAIN t[A], NEW j \in DOMAIN t[D], t[A][i] = t[D][j]
               PROVE  A = D /\ i = j
    BY <1>4 DEF TablesOK
  <2>1. CASE t[A][i] = e
    BY <1>6, <1>7, <2>1
  <2>2. CASE t[A][i] # e
    <3>1. i \in DOMAIN u[A] /\ j \in DOMAIN u[D] /\ u[A][i] = u[D][j]
      BY <1>7, <2>2
    <3> QED BY <3>1, OneRow
  <2> QED BY <2>1, <2>2
<1>9. ASSUME NEW x, x # e, NEW T
      PROVE  HasIn(t, x, T) <=> HasIn(u, x, T)
  BY <1>5, <1>7, <1>9 DEF HasIn
<1>10. ASSUME NEW T
       PROVE  HasIn(t, e, T) <=> T \subseteq B
  <2>1. Len(u[B]) + 1 \in DOMAIN t[B] /\ t[B][Len(u[B]) + 1] = e
    BY <1>2, <1>4
  <2> QED BY <1>6, <1>7, <2>1 DEF HasIn
<1> QED BY <1>5, <1>8, <1>9, <1>10

\* An entity moves to another archetype.
LEMMA MoveRows ==
  ASSUME TablesOK(tables), NEW e \in Alive, NEW B \in SUBSET Comp, NEW t, t = MoveTo(e, B)
  PROVE  /\ TablesOK(t)
         /\ \A x, T : x # e => (HasIn(t, x, T) <=> HasIn(tables, x, T))
         /\ \A T : HasIn(t, e, T) <=> T \subseteq B
         /\ RowsStay(t, {e, Last(tables[TableOf(e)])})
         /\ Last(tables[TableOf(e)]) \in Entity
<1> DEFINE u == Leave(e)
<1>1. /\ TablesOK(u)
      /\ \A x, T : HasIn(u, x, T) <=> x # e /\ HasIn(tables, x, T)
      /\ RowsStay(u, {e, Last(tables[TableOf(e)])})
      /\ Last(tables[TableOf(e)]) \in Entity
  BY LeaveRows
<1>2. t = [u EXCEPT ![B] = Append(@, e)]
  BY DEF MoveTo
<1>3. ~HasIn(u, e, {}) /\ e \in Entity
  BY <1>1, TableOfAlive
<1> HIDE DEF u
<1>4. /\ TablesOK(t)
      /\ \A x, T : x # e => (HasIn(t, x, T) <=> HasIn(u, x, T))
      /\ \A T : HasIn(t, e, T) <=> T \subseteq B
      /\ \A A \in SUBSET Comp : \A i \in DOMAIN u[A] : i \in DOMAIN t[A] /\ t[A][i] = u[A][i]
  <2>1. TablesOK(u) /\ e \in Entity /\ ~HasIn(u, e, {})
    BY <1>1, <1>3
  <2> QED BY <1>2, <2>1, AppendRow
<1>5. RowsStay(t, {e, Last(tables[TableOf(e)])})
  BY <1>1, <1>4 DEF RowsStay
<1> QED BY <1>1, <1>4, <1>5

(***************************************************************************)
(* The list of callbacks.                                                  *)
(***************************************************************************)

\* Ids grow along a list of callbacks.
Growing(cbs) == \A i, j \in DOMAIN cbs : i < j => cbs[i].id < cbs[j].id

\* A callback that goes leaves the others in their order.
LEMMA RemoveAtFacts ==
  ASSUME NEW S, NEW s \in Seq(S), NEW k \in DOMAIN s, NEW t, t = RemoveAt(s, k)
  PROVE  /\ t \in Seq(S) /\ Len(t) = Len(s) - 1
         /\ \A i \in DOMAIN t : t[i] = IF i < k THEN s[i] ELSE s[i + 1]
<1> DEFINE u == SubSeq(s, 1, k - 1)
           v == SubSeq(s, k + 1, Len(s))
<1>1. u \in Seq(S) /\ Len(u) = k - 1 /\ \A i \in 1..(k - 1) : u[i] = s[i]
  OBVIOUS
<1>2. v \in Seq(S) /\ Len(v) = Len(s) - k /\ \A i \in 1..(Len(s) - k) : v[i] = s[k + i]
  <2>1. CASE k < Len(s)
    BY <2>1
  <2>2. CASE k = Len(s)
    BY <2>2
  <2> QED BY <2>1, <2>2
<1>3. t = u \o v
  BY DEF RemoveAt
<1> HIDE DEF u, v
<1>4. Len(s) \in Nat /\ k \in 1..Len(s)
  OBVIOUS
<1>5. t \in Seq(S) /\ Len(t) = Len(s) - 1
  BY <1>1, <1>2, <1>3, <1>4
<1>6. ASSUME NEW i \in DOMAIN t
      PROVE  t[i] = IF i < k THEN s[i] ELSE s[i + 1]
  <2>1. i \in 1..(Len(s) - 1)
    BY <1>5
  <2>2. CASE i < k
    <3>1. i \in 1..(k - 1) /\ t[i] = u[i]
      BY <1>1, <1>2, <1>3, <1>4, <2>1, <2>2
    <3> QED BY <1>1, <2>2, <3>1
  <2>3. CASE ~(i < k)
    <3>1. i - (k - 1) \in 1..(Len(s) - k) /\ Len(u) = k - 1 /\ i > Len(u)
      BY <1>1, <1>4, <2>1, <2>3
    <3>3. i \in 1..(Len(u) + Len(v)) /\ u \in Seq(S) /\ v \in Seq(S)
      BY <1>1, <1>2, <1>4, <2>1
    <3>4. t[i] = v[i - Len(u)]
      BY <1>3, <3>1, <3>3, ConcatProperties
    <3>2. k + (i - (k - 1)) = i + 1
      BY <1>4, <2>1
    <3> QED BY <1>2, <2>3, <3>1, <3>2, <3>4
  <2> QED BY <2>2, <2>3
<1> QED BY <1>5, <1>6

\* ObserverDispatch::remove: what is left was there, in the same order, and
\* does not carry the id.
LEMMA WithoutFacts ==
  ASSUME callbacks \in Seq(Callback), Growing(callbacks), NEW id, NEW t, t = Without(id)
  PROVE  /\ t \in Seq(Callback) /\ Growing(t)
         /\ \A i \in DOMAIN t : t[i].id # id /\ \E j \in DOMAIN callbacks : callbacks[j] = t[i]
<1> DEFINE found == {i \in DOMAIN callbacks : callbacks[i].id = id}
<1>1. CASE found = {}
  <2>1. t = callbacks
    BY <1>1 DEF Without
  <2> QED BY <1>1, <2>1
<1>2. CASE found # {}
  <2> DEFINE k == CHOOSE i \in found : TRUE
  <2>1. k \in DOMAIN callbacks /\ callbacks[k].id = id
    BY <1>2
  <2>2. t = RemoveAt(callbacks, k)
    BY <1>2 DEF Without
  <2> HIDE DEF k, found
  <2>3. /\ t \in Seq(Callback) /\ Len(t) = Len(callbacks) - 1
        /\ \A i \in DOMAIN t : t[i] = IF i < k THEN callbacks[i] ELSE callbacks[i + 1]
    BY <2>1, <2>2, RemoveAtFacts
  <2>4. \A i \in DOMAIN callbacks : callbacks[i].id \in Int
    <3>1. \A i \in DOMAIN callbacks : callbacks[i] \in Callback
      OBVIOUS
    <3> QED BY <3>1 DEF Callback
  <2>5. Growing(t)
    <3> SUFFICES ASSUME NEW i \in DOMAIN t, NEW j \in DOMAIN t, i < j
                 PROVE  t[i].id < t[j].id
      BY DEF Growing
    <3> DEFINE x == IF i < k THEN i ELSE i + 1
               y == IF j < k THEN j ELSE j + 1
    <3>1. x \in DOMAIN callbacks /\ y \in DOMAIN callbacks /\ x < y
      BY <2>1, <2>3
    <3>2. t[i] = callbacks[x] /\ t[j] = callbacks[y]
      BY <2>3
    <3> HIDE DEF x, y
    <3> QED BY <3>1, <3>2 DEF Growing
  <2>6. ASSUME NEW i \in DOMAIN t
        PROVE  t[i].id # id /\ \E j \in DOMAIN callbacks : callbacks[j] = t[i]
    <3>1. CASE i < k
      <4>1. i \in DOMAIN callbacks /\ t[i] = callbacks[i]
        BY <2>1, <2>3, <3>1
      <4> QED BY <2>1, <2>4, <3>1, <4>1 DEF Growing
    <3>2. CASE ~(i < k)
      <4>1. i + 1 \in DOMAIN callbacks /\ t[i] = callbacks[i + 1] /\ k < i + 1
        BY <2>1, <2>3, <3>2
      <4> QED BY <2>1, <2>4, <4>1 DEF Growing
    <3> QED BY <3>1, <3>2
  <2> QED BY <2>3, <2>5, <2>6
<1> QED BY <1>1, <1>2

(***************************************************************************)
(* Types.                                                                  *)
(***************************************************************************)

Memory == UNION {[S -> Value] : S \in SUBSET Entity}

Typed ==
  /\ TablesOK(tables)
  /\ value \in [Entity -> Value]
  /\ calls \in 0..MaxCalls
  /\ callbacks \in Seq(Callback)
  /\ nextId \in 1..calls + 1
  /\ observerId \in [Observer -> 0..MaxCalls]
  /\ linked \in SUBSET Observer /\ freed \in SUBSET Observer
  /\ again \in SUBSET Observer
  /\ membership \in [Observer -> SUBSET Entity]
  /\ missed \in [Observer -> SUBSET Entity]
  /\ made \in SUBSET FieldSub
  /\ subId \in [FieldSub -> 0..MaxCalls]
  /\ cached \in [FieldSub -> Memory]
  /\ written \in [FieldSub -> SUBSET Entity]
  /\ stack \in Seq(Frame)

\* A set put in some order.
LEMMA SetToSeqFacts ==
  ASSUME NEW S, IsFiniteSet(S), NEW q, q = SetToSeq(S)
  PROVE  /\ q \in Seq(S)
         /\ \A x \in S : \E k \in DOMAIN q : q[k] = x
<1> DEFINE n == Cardinality(S)
<1>1. n \in Nat /\ IsFiniteSet(1..n) /\ Cardinality(1..n) = n
  <2>1. n \in Nat
    BY FS_CardinalityType
  <2>2. 1 \in Int /\ n \in Int /\ (1 > n => n = 0)
    BY <2>1
  <2> HIDE DEF n
  <2> QED BY <2>1, <2>2, FS_Interval
<1>2. PICK f \in [1..n -> S] : IsInjective(f)
  <2>1. ExistsBijection(1..n, S)
    BY <1>1, FS_SameCardinalityBij
  <2> QED BY <2>1 DEF ExistsBijection, Bijection, Injection, IsInjective
<1>3. q \in [1..n -> S] /\ IsInjective(q)
  BY <1>2 DEF SetToSeq
<1>4. q \in Injection(1..n, S)
  BY <1>3 DEF Injection
<1>5. q \in Surjection(1..n, S)
  BY <1>1, <1>4, FS_Injection
<1>6. \A x \in S : \E k \in 1..n : q[k] = x
  BY <1>5 DEF Surjection
<1> HIDE DEF n
<1> QED BY <1>1, <1>3, <1>6

\* What the operations push are calls.
LEMMA DispatchIsFrame ==
  ASSUME Typed, NEW ev \in AnyEvent
  PROVE  Dispatch(ev) \in DispatchFrame /\ Dispatch(ev) \in Frame
<1>1. callbacks \in Seq(Callback)
  BY DEF Typed
<1>2. Wanting(callbacks, ev) \in SUBSET Callback
  BY <1>1 DEF Wanting, ToSet
<1>3. <<>> \in Seq(Callback)
  OBVIOUS
<1> QED BY <1>1, <1>2, <1>3 DEF Dispatch, DispatchFrame, Frame

\* An event of an entity is an event.
LEMMA EventIsEvent ==
  ASSUME NEW k \in {"Added", "Removed", "Changed"}, NEW e \in Entity, NEW t \in Comp
  PROVE  Event(k, e, t) \in EntityEvent /\ Event(k, e, t) \in AnyEvent
BY DEF Event, EntityEvent, AnyEvent

\* The rest of destroy_entity() has an event to fire for each component.
LEMMA RemovalsIsFrame ==
  ASSUME NEW e \in Entity, NEW A \in SUBSET Comp
  PROVE  /\ Removals(e, SetToSeq(A)) \in RemovalsFrame
         /\ \A t \in A : \E k \in DOMAIN SetToSeq(A) : SetToSeq(A)[k] = t
<1>1. IsFiniteSet(A)
  BY ObserversAssumption, FS_Subset
<1>2. SetToSeq(A) \in Seq(A) /\ \A t \in A : \E k \in DOMAIN SetToSeq(A) : SetToSeq(A)[k] = t
  BY <1>1, SetToSeqFacts
<1> DEFINE q == SetToSeq(A)
<1> HIDE DEF q
<1>3. q \in Seq(Comp)
  BY <1>2 DEF q
<1>4. Removals(e, q) \in RemovalsFrame
  BY <1>3 DEF Removals, RemovalsFrame
<1> QED BY <1>2, <1>4 DEF q

\* A seeding has all archetypes that match before it, and no other.
LEMMA SeedingIsFrame ==
  ASSUME NEW o \in Observer
  PROVE  /\ Seeding(o) \in SeedFrame
         /\ Seeding(o).obs = o /\ Seeding(o).row = 1
         /\ \A k \in DOMAIN Seeding(o).todo : Match[o] \subseteq Seeding(o).todo[k]
         /\ \A A \in SUBSET Comp : Match[o] \subseteq A =>
              \E k \in DOMAIN Seeding(o).todo : Seeding(o).todo[k] = A
<1> DEFINE M == {A \in SUBSET Comp : Match[o] \subseteq A}
           q == SetToSeq(M)
<1>1. IsFiniteSet(M)
  BY ObserversAssumption, FS_Subset, FS_SUBSET
<1>2. q \in Seq(M) /\ \A A \in M : \E k \in DOMAIN q : q[k] = A
  <2> HIDE DEF M
  <2> QED BY <1>1, SetToSeqFacts
<1>3. Seeding(o) = [kind |-> "seed", obs |-> o, row |-> 1, todo |-> q]
  BY DEF Seeding
<1> HIDE DEF q
<1>4. q \in Seq(SUBSET Comp) /\ \A k \in DOMAIN q : Match[o] \subseteq q[k]
  BY <1>2
<1>5. \A A \in SUBSET Comp : Match[o] \subseteq A => \E k \in DOMAIN q : q[k] = A
  BY <1>2
<1> HIDE DEF M
<1>6. Seeding(o) \in SeedFrame
  BY <1>3, <1>4 DEF SeedFrame
<1>7. Seeding(o).obs = o /\ Seeding(o).row = 1 /\ Seeding(o).todo = q
  BY <1>3
<1> QED BY <1>4, <1>5, <1>6, <1>7

(***************************************************************************)
(* What the parts of the operations do.                                    *)
(***************************************************************************)

\* The operations the program may still call bound the ids.
LEMMA CallCounts ==
  ASSUME Typed, Call
  PROVE  /\ calls' \in 0..MaxCalls /\ nextId \in 1..calls' + 1
         /\ nextId + 1 \in 1..calls' + 1 /\ nextId \in 1..MaxCalls
         /\ 1 \in 1..calls' + 1 /\ 0 \in 0..MaxCalls
BY ObserversAssumption DEF Typed, Call

\* What an entity that leaves its row is noted for.
LEMMA NoteMoveFacts ==
  ASSUME Typed, NEW e \in Alive, NoteMove(e), Last(tables[TableOf(e)]) \in Entity
  PROVE  /\ missed' \in [Observer -> SUBSET Entity]
         /\ \A o \in Observer :
              /\ missed[o] \subseteq missed'[o]
              /\ ~Hears(o) => e \in missed'[o]
              /\ IsSeeding(o) => {e, Last(tables[TableOf(e)])} \subseteq missed'[o]
<1> DEFINE l == Last(tables[TableOf(e)])
<1>1. e \in Entity /\ l \in Entity
  BY TableOfAlive DEF Typed
<1>2. \A o \in Observer : MissedBy(o, e) =
        (IF Hears(o) THEN {} ELSE {e}) \cup (IF IsSeeding(o) THEN {e, l} ELSE {})
  BY DEF MissedBy
<1> HIDE DEF l
<1>3. missed \in [Observer -> SUBSET Entity]
  BY DEF Typed
<1>4. missed' = [o \in Observer |-> missed[o] \cup MissedBy(o, e)]
  BY DEF NoteMove
<1>5. missed' \in [Observer -> SUBSET Entity]
  BY <1>1, <1>2, <1>3, <1>4
<1>6. ASSUME NEW o \in Observer
      PROVE  /\ missed[o] \subseteq missed'[o]
             /\ ~Hears(o) => e \in missed'[o]
             /\ IsSeeding(o) => {e, l} \subseteq missed'[o]
  BY <1>2, <1>4
<1> QED BY <1>5, <1>6 DEF l

\* Events under way are about entities.
LEMMA InFlightEntities ==
  ASSUME Typed
  PROVE  InFlight \subseteq Entity
<1>1. \A i \in DOMAIN stack : stack[i] \in Frame
  BY DEF Typed
<1>2. ASSUME NEW i \in DOMAIN stack, stack[i].kind = "dispatch", stack[i].ev.kind # "Custom"
      PROVE  stack[i].ev.ent \in Entity
  <2>1. stack[i].ev \in AnyEvent
    BY <1>1, <1>2, FrameKinds DEF DispatchFrame
  <2> QED BY <1>2, <2>1 DEF AnyEvent, EntityEvent
<1>3. ASSUME NEW i \in DOMAIN stack, stack[i].kind = "removals"
      PROVE  stack[i].ent \in Entity
  BY <1>1, <1>3, FrameKinds DEF RemovalsFrame
<1> QED BY <1>2, <1>3 DEF InFlight

\* What an observer that goes is noted for.
LEMMA NoteDeafFacts ==
  ASSUME Typed, NEW S, NoteDeaf(S)
  PROVE  /\ missed' \in [Observer -> SUBSET Entity]
         /\ \A o \in Observer : missed[o] \subseteq missed'[o]
BY InFlightEntities DEF Typed, NoteDeaf

\* The value of e, and what subscriptions know of it, starts again.
LEMMA FieldResetFacts ==
  ASSUME Typed, NEW e \in Entity, FieldReset(e)
  PROVE  /\ value' \in [Entity -> Value] /\ written' \in [FieldSub -> SUBSET Entity]
         /\ \A x \in Entity : x # e => value'[x] = value[x]
         /\ \A s \in FieldSub : written'[s] = written[s] \ {e}
BY ObserversAssumption DEF Typed, FieldReset

\* Subscriptions that start again or are erased.
LEMMA ForgetFacts ==
  ASSUME Typed, NEW S, NEW id \in 0..MaxCalls, Forget(S, id)
  PROVE  /\ subId' \in [FieldSub -> 0..MaxCalls]
         /\ cached' \in [FieldSub -> Memory]
         /\ written' \in [FieldSub -> SUBSET Entity]
         /\ \A s \in FieldSub : IF s \in S THEN subId'[s] = id /\ written'[s] = {}
                                ELSE /\ subId'[s] = subId[s] /\ written'[s] = written[s]
                                     /\ cached'[s] = cached[s]
<1>1. <<>> \in Memory
  <2>1. <<>> \in [{} -> Value] /\ {} \in SUBSET Entity
    OBVIOUS
  <2> QED BY <2>1 DEF Memory
<1> QED BY <1>1 DEF Typed, Forget

(***************************************************************************)
(* Operations on the world.                                                *)
(***************************************************************************)

\* What e does to the rows when it leaves or moves: nobody else is gained or
\* lost, and an observer that is walking the rows knows whom it may miss.
RowMoves(e) ==
  /\ TablesOK(tables')
  /\ \A x, T : x # e => (HasIn(tables', x, T) <=> HasIn(tables, x, T))
  /\ missed' \in [Observer -> SUBSET Entity]
  /\ \A o \in Observer :
       /\ missed[o] \subseteq missed'[o]
       /\ ~Hears(o) => e \in missed'[o]
       /\ IsSeeding(o) => e \in missed'[o] /\ RowsStay(tables', missed'[o])

\* What NoteMove notes is enough for an observer that walks the rows.
LEMMA RowMovesByNote ==
  ASSUME Typed, NEW e \in Alive, NoteMove(e), Last(tables[TableOf(e)]) \in Entity,
         TablesOK(tables'),
         \A x, T : x # e => (HasIn(tables', x, T) <=> HasIn(tables, x, T)),
         RowsStay(tables', {e, Last(tables[TableOf(e)])})
  PROVE  RowMoves(e)
<1>1. ASSUME NEW o \in Observer, IsSeeding(o)
      PROVE  RowsStay(tables', missed'[o])
  BY <1>1, NoteMoveFacts DEF RowsStay
<1> QED BY <1>1, NoteMoveFacts DEF RowMoves

\* create_entity() appends a row without components.
LEMMA CreateRows ==
  ASSUME Typed, NEW e \in Entity, CreateEntity(e)
  PROVE  /\ TablesOK(tables')
         /\ \A x, T : T # {} => (HasIn(tables', x, T) <=> HasIn(tables, x, T))
         /\ RowsStay(tables', {})
<1>1. TablesOK(tables)
  BY DEF Typed
<1>2. ~HasIn(tables, e, {})
  BY <1>1, HasIsHasIn DEF CreateEntity
<1>3. PICK B \in SUBSET Comp : B = {} /\ tables' = [tables EXCEPT ![B] = Append(@, e)]
  BY DEF CreateEntity
<1>4. /\ TablesOK(tables')
      /\ \A x, T : x # e => (HasIn(tables', x, T) <=> HasIn(tables, x, T))
      /\ \A T : HasIn(tables', e, T) <=> T \subseteq B
      /\ \A A \in SUBSET Comp : \A i \in DOMAIN tables[A] :
           i \in DOMAIN tables'[A] /\ tables'[A][i] = tables[A][i]
  <2>1. PICK t : t = tables' /\ t = [tables EXCEPT ![B] = Append(@, e)]
    BY <1>3
  <2>2. /\ TablesOK(t)
        /\ \A x, T : x # e => (HasIn(t, x, T) <=> HasIn(tables, x, T))
        /\ \A T : HasIn(t, e, T) <=> T \subseteq B
        /\ \A A \in SUBSET Comp : \A i \in DOMAIN tables[A] :
             i \in DOMAIN t[A] /\ t[A][i] = tables[A][i]
    BY <1>1, <1>2, <2>1, AppendRow
  <2>3. TablesOK(tables')
    BY <2>1, <2>2
  <2>4. ASSUME NEW x, x # e, NEW T
        PROVE  HasIn(tables', x, T) <=> HasIn(tables, x, T)
    <3>1. HasIn(t, x, T) <=> HasIn(tables, x, T)
      BY <2>2, <2>4
    <3>2. t = tables'
      BY <2>1
    <3> QED BY <3>1, <3>2
  <2>5. \A T : HasIn(tables', e, T) <=> T \subseteq B
    BY <2>1, <2>2
  <2>6. \A A \in SUBSET Comp : \A i \in DOMAIN tables[A] :
          i \in DOMAIN tables'[A] /\ tables'[A][i] = tables[A][i]
    BY <2>1, <2>2
  <2> QED BY <2>3, <2>4, <2>5, <2>6
<1>5. \A T : ~HasIn(tables, e, T)
  BY <1>2 DEF HasIn
<1>6. ASSUME NEW x, NEW T, T # {}
      PROVE  HasIn(tables', x, T) <=> HasIn(tables, x, T)
  <2>1. CASE x # e
    BY <1>4, <2>1
  <2>2. CASE x = e
    <3>1. ~(T \subseteq B)
      BY <1>3, <1>6
    <3> QED BY <1>4, <1>5, <2>2, <3>1
  <2> QED BY <2>1, <2>2
<1>7. RowsStay(tables', {})
  BY <1>4 DEF RowsStay
<1> QED BY <1>4, <1>6, <1>7

\* A component is added or removed: the entity moves, and what it has of the
\* other components is as before.
LEMMA ComponentRows ==
  ASSUME Typed, NEW e \in Entity, NEW t \in Comp, AddComponent(e, t) \/ RemoveComponent(e, t)
  PROVE  /\ RowMoves(e)
         /\ \A T : t \notin T => (HasIn(tables', e, T) <=> HasIn(tables, e, T))
<1>1. TablesOK(tables) /\ e \in Alive /\ NoteMove(e)
  BY DEF Typed, AddComponent, RemoveComponent
<1>2. TableOf(e) \in SUBSET Comp
  BY <1>1, TableOfAlive
<1>3. PICK B \in SUBSET Comp :
        /\ tables' = MoveTo(e, B)
        /\ B = TableOf(e) \cup {t} \/ B = TableOf(e) \ {t}
  BY <1>2 DEF AddComponent, RemoveComponent
<1>4. /\ TablesOK(tables')
      /\ \A x, T : x # e => (HasIn(tables', x, T) <=> HasIn(tables, x, T))
      /\ \A T : HasIn(tables', e, T) <=> T \subseteq B
      /\ RowsStay(tables', {e, Last(tables[TableOf(e)])})
      /\ Last(tables[TableOf(e)]) \in Entity
  BY <1>1, <1>3, MoveRows
<1>5. RowMoves(e)
  BY <1>1, <1>4, RowMovesByNote
<1>6. \A T : HasIn(tables, e, T) <=> T \subseteq TableOf(e)
  BY <1>1, HasIsHasIn DEF Has
<1> QED BY <1>3, <1>4, <1>5, <1>6

\* destroy_entity() takes the row of one entity away.
LEMMA DestroyRows ==
  ASSUME Typed, NEW e \in Entity, DestroyEntity(e)
  PROVE  /\ RowMoves(e)
         /\ \A T : ~HasIn(tables', e, T)
         /\ \A T : HasIn(tables, e, T) <=> T \subseteq TableOf(e)
         /\ TableOf(e) \in SUBSET Comp
<1>1. TablesOK(tables) /\ e \in Alive /\ NoteMove(e) /\ tables' = Leave(e)
  BY DEF Typed, DestroyEntity
<1>2. /\ TablesOK(tables')
      /\ \A x, T : HasIn(tables', x, T) <=> x # e /\ HasIn(tables, x, T)
      /\ RowsStay(tables', {e, Last(tables[TableOf(e)])})
      /\ Last(tables[TableOf(e)]) \in Entity
  BY <1>1, LeaveRows
<1>3. RowMoves(e)
  BY <1>1, <1>2, RowMovesByNote
<1>4. \A T : HasIn(tables, e, T) <=> T \subseteq TableOf(e)
  BY <1>1, HasIsHasIn DEF Has
<1> QED BY <1>1, <1>2, <1>3, <1>4, TableOfAlive

\* clear() takes all rows away, and notes them.
LEMMA ClearRows ==
  ASSUME Typed, Clear
  PROVE  /\ TablesOK(tables')
         /\ \A x, T : ~HasIn(tables', x, T)
         /\ missed' \in [Observer -> SUBSET Entity]
         /\ \A o \in Observer :
              missed[o] \subseteq missed'[o] /\ \A x : HasIn(tables, x, {}) => x \in missed'[o]
<1>1. /\ tables' = [A \in SUBSET Comp |-> <<>>]
      /\ missed' = [o \in Observer |-> missed[o] \cup Alive]
      /\ missed \in [Observer -> SUBSET Entity]
      /\ TablesOK(tables)
  BY DEF Clear, Typed
<1>2. TablesOK(tables')
  BY <1>1 DEF TablesOK
<1>3. \A x, T : ~HasIn(tables', x, T)
  BY <1>1 DEF HasIn
<1>4. Alive \subseteq Entity /\ \A x : HasIn(tables, x, {}) => x \in Alive
  BY <1>1, HasIsHasIn, TableOfAlive
<1> QED BY <1>1, <1>2, <1>3, <1>4

(***************************************************************************)
(* The calls that the operations put on the stack.                         *)
(***************************************************************************)

\* A call starts, and those under way are as they were.
Starts(f) ==
  /\ stack' \in Seq(Frame)
  /\ DOMAIN stack' = DOMAIN stack \cup {Len(stack) + 1}
  /\ \A i \in DOMAIN stack : stack'[i] = stack[i]
  /\ stack'[Len(stack) + 1] = f
  /\ f \in Frame

\* Pushing a call starts it.
LEMMA PushStarts ==
  ASSUME Typed, NEW f \in Frame, Push(f)
  PROVE  Starts(f)
BY PushFacts DEF Typed, Push, Starts

\* What each operation on the world starts.
LEMMA WorldCallStarts ==
  ASSUME Typed
  PROVE  /\ \A e \in Entity, t \in Comp :
              AddComponent(e, t) => Starts(Dispatch(Event("Added", e, t)))
         /\ \A e \in Entity, t \in Comp :
              RemoveComponent(e, t) => Starts(Dispatch(Event("Removed", e, t)))
         /\ \A e \in Entity : DestroyEntity(e) => Starts(Removals(e, SetToSeq(TableOf(e))))
         /\ \A e \in Entity, v \in Value :
              WriteField(e, v) => Starts(Dispatch(Event("Changed", e, Watched)))
         /\ Clear => Starts(Dispatch([kind |-> "Custom"]))
<1>1. ASSUME NEW ev \in AnyEvent, Push(Dispatch(ev))
      PROVE  Starts(Dispatch(ev))
  BY <1>1, DispatchIsFrame, PushStarts
<1>2. ASSUME NEW e \in Entity, NEW t \in Comp, AddComponent(e, t)
      PROVE  Starts(Dispatch(Event("Added", e, t)))
  BY <1>1, <1>2, EventIsEvent DEF AddComponent
<1>3. ASSUME NEW e \in Entity, NEW t \in Comp, RemoveComponent(e, t)
      PROVE  Starts(Dispatch(Event("Removed", e, t)))
  BY <1>1, <1>3, EventIsEvent DEF RemoveComponent
<1>4. ASSUME NEW e \in Entity, DestroyEntity(e)
      PROVE  Starts(Removals(e, SetToSeq(TableOf(e))))
  <2>1. Removals(e, SetToSeq(TableOf(e))) \in Frame
    BY <1>4, DestroyRows, RemovalsIsFrame DEF Frame
  <2> QED BY <1>4, <2>1, PushStarts DEF DestroyEntity
<1>5. ASSUME NEW e \in Entity, NEW v \in Value, WriteField(e, v)
      PROVE  Starts(Dispatch(Event("Changed", e, Watched)))
  BY <1>1, <1>5, EventIsEvent, ObserversAssumption DEF WriteField
<1>6. ASSUME Clear
      PROVE  Starts(Dispatch([kind |-> "Custom"]))
  <2>1. [kind |-> "Custom"] \in AnyEvent
    BY DEF AnyEvent
  <2> QED BY <1>1, <1>6, <2>1 DEF Clear
<1> QED BY <1>2, <1>3, <1>4, <1>5, <1>6

\* add_observer() starts a seeding, or nothing.
LEMMA AddObserverStarts ==
  ASSUME Typed, NEW o \in Observer, AddObserver(o)
  PROVE  IF HasMatchEvents(o) /\ Match[o] # {} THEN Starts(Seeding(o)) ELSE stack' = stack
BY SeedingIsFrame, PushStarts DEF AddObserver, Frame

(***************************************************************************)
(* Types are kept by the operations.                                       *)
(***************************************************************************)

\* create_entity() keeps the types.
LEMMA CreateTyped ==
  ASSUME Typed, NEW e \in Entity, CreateEntity(e)
  PROVE  Typed'
<1>1. TablesOK(tables')
  BY CreateRows
<1>2. calls' \in 0..MaxCalls /\ nextId \in 1..calls' + 1
  BY CallCounts DEF CreateEntity
<1> QED BY <1>1, <1>2 DEF Typed, CreateEntity, dispatchVars, observerVars, subVars

\* add_component() and remove_component() keep the types.
LEMMA ComponentTyped ==
  ASSUME Typed, NEW e \in Entity, NEW t \in Comp, AddComponent(e, t) \/ RemoveComponent(e, t)
  PROVE  Typed'
<1>1. TablesOK(tables') /\ missed' \in [Observer -> SUBSET Entity]
  BY ComponentRows DEF RowMoves
<1>2. calls' \in 0..MaxCalls /\ nextId \in 1..calls' + 1
  BY CallCounts DEF AddComponent, RemoveComponent
<1>3. value' \in [Entity -> Value] /\ written' \in [FieldSub -> SUBSET Entity]
  BY FieldResetFacts DEF AddComponent, RemoveComponent, Typed
<1>4. stack' \in Seq(Frame)
  BY WorldCallStarts DEF Starts
<1>5. UNCHANGED <<dispatchVars, observerVars, made, subId, cached>>
  BY DEF AddComponent, RemoveComponent
<1> QED BY <1>1, <1>2, <1>3, <1>4, <1>5 DEF Typed, dispatchVars, observerVars

\* destroy_entity() keeps the types.
LEMMA DestroyTyped ==
  ASSUME Typed, NEW e \in Entity, DestroyEntity(e)
  PROVE  Typed'
<1>1. TablesOK(tables') /\ missed' \in [Observer -> SUBSET Entity]
  BY DestroyRows DEF RowMoves
<1>2. calls' \in 0..MaxCalls /\ nextId \in 1..calls' + 1
  BY CallCounts DEF DestroyEntity
<1>3. value' \in [Entity -> Value] /\ written' \in [FieldSub -> SUBSET Entity]
  BY FieldResetFacts DEF DestroyEntity
<1>4. stack' \in Seq(Frame)
  BY WorldCallStarts DEF Starts
<1>5. UNCHANGED <<dispatchVars, observerVars, made, subId, cached>>
  BY DEF DestroyEntity
<1> QED BY <1>1, <1>2, <1>3, <1>4, <1>5 DEF Typed, dispatchVars, observerVars

\* The field setters keep the types.
LEMMA WriteTyped ==
  ASSUME Typed, NEW e \in Entity, NEW v \in Value, WriteField(e, v)
  PROVE  Typed'
<1>1. calls' \in 0..MaxCalls /\ nextId \in 1..calls' + 1
  BY CallCounts DEF WriteField
<1>2. value' \in [Entity -> Value] /\ written' \in [FieldSub -> SUBSET Entity]
  BY DEF WriteField, Typed
<1>3. stack' \in Seq(Frame)
  BY WorldCallStarts DEF Starts
<1>4. UNCHANGED <<tables, dispatchVars, observerVars, made, subId, cached, missed>>
  BY DEF WriteField
<1> QED BY <1>1, <1>2, <1>3, <1>4 DEF Typed, dispatchVars, observerVars

\* clear() keeps the types.
LEMMA ClearTyped ==
  ASSUME Typed, Clear
  PROVE  Typed'
<1>1. TablesOK(tables') /\ missed' \in [Observer -> SUBSET Entity]
  BY ClearRows
<1>2. calls' \in 0..MaxCalls /\ nextId \in 1..calls' + 1
  BY CallCounts DEF Clear
<1>3. value' \in [Entity -> Value] /\ written' \in [FieldSub -> SUBSET Entity]
  BY ObserversAssumption DEF Clear
<1>4. stack' \in Seq(Frame)
  BY WorldCallStarts DEF Starts
<1>5. UNCHANGED <<dispatchVars, observerVars, made, subId, cached>>
  BY DEF Clear
<1> QED BY <1>1, <1>2, <1>3, <1>4, <1>5 DEF Typed, dispatchVars, observerVars

\* A callback is registered.
LEMMA RegisterFacts ==
  ASSUME Typed, Call, NEW o \in Observer \cup FieldSub,
         callbacks' = Append(callbacks, [id |-> nextId, obs |-> o])
  PROVE  /\ callbacks' \in Seq(Callback)
         /\ DOMAIN callbacks' = DOMAIN callbacks \cup {Len(callbacks) + 1}
         /\ \A i \in DOMAIN callbacks : callbacks'[i] = callbacks[i]
         /\ callbacks'[Len(callbacks) + 1].id = nextId
         /\ callbacks'[Len(callbacks) + 1].obs = o
<1> DEFINE cb == [id |-> nextId, obs |-> o]
<1>1. cb \in Callback /\ cb.id = nextId /\ cb.obs = o
  BY CallCounts DEF Callback
<1>2. callbacks \in Seq(Callback)
  BY DEF Typed
<1> HIDE DEF cb
<1>3. callbacks' = Append(callbacks, cb)
  BY DEF cb
<1> QED BY <1>1, <1>2, <1>3, PushFacts

\* add_observer() keeps the types.
LEMMA AddObserverTyped ==
  ASSUME Typed, NEW o \in Observer, AddObserver(o)
  PROVE  Typed'
<1>1. callbacks' \in Seq(Callback)
  BY RegisterFacts DEF AddObserver
<1>2. /\ calls' \in 0..MaxCalls /\ nextId' \in 1..calls' + 1
      /\ nextId \in 0..MaxCalls
  BY CallCounts DEF AddObserver
<1>3. /\ observerId' \in [Observer -> 0..MaxCalls] /\ linked' \in SUBSET Observer
      /\ again' \in SUBSET Observer
  BY <1>2 DEF AddObserver, Typed
<1>4. missed' \in [Observer -> SUBSET Entity]
  BY DEF AddObserver, Typed
<1>5. stack' \in Seq(Frame)
  BY AddObserverStarts DEF Starts, Typed
<1>6. UNCHANGED <<worldVars, freed, membership, subVars>>
  BY DEF AddObserver
<1> QED BY <1>1, <1>2, <1>3, <1>4, <1>5, <1>6 DEF Typed, worldVars, subVars

\* What remove_observer() leaves.
LEMMA UnregisterFacts ==
  ASSUME Typed, Growing(callbacks), NEW o \in Observer, Unregister(o)
  PROVE  /\ callbacks' \in Seq(Callback) /\ Growing(callbacks')
         /\ \A i \in DOMAIN callbacks' :
              /\ callbacks'[i].id # observerId[o]
              /\ \E j \in DOMAIN callbacks : callbacks[j] = callbacks'[i]
         /\ observerId' = [observerId EXCEPT ![o] = 0]
         /\ observerId' \in [Observer -> 0..MaxCalls]
         /\ linked' = linked \ {o} /\ linked' \in SUBSET Observer
         /\ missed' \in [Observer -> SUBSET Entity]
         /\ \A p \in Observer : missed[p] \subseteq missed'[p]
<1>1. callbacks \in Seq(Callback) /\ observerId \in [Observer -> 0..MaxCalls]
  BY DEF Typed
<1>2. /\ callbacks' \in Seq(Callback) /\ Growing(callbacks')
      /\ \A i \in DOMAIN callbacks' :
           /\ callbacks'[i].id # observerId[o]
           /\ \E j \in DOMAIN callbacks : callbacks[j] = callbacks'[i]
  <2>1. CASE observerId[o] = 0
    <3>1. callbacks' = callbacks
      BY <2>1 DEF Unregister
    <3>2. \A i \in DOMAIN callbacks : callbacks[i] \in Callback
      BY <1>1
    <3>3. \A i \in DOMAIN callbacks : callbacks[i].id # 0
      BY <3>2 DEF Callback
    <3> QED BY <1>1, <2>1, <3>1, <3>3
  <2>2. CASE observerId[o] # 0
    <3>1. callbacks' = Without(observerId[o])
      BY <2>2 DEF Unregister
    <3> QED BY <1>1, <3>1, WithoutFacts
  <2> QED BY <2>1, <2>2
<1>3. observerId' = [observerId EXCEPT ![o] = 0] /\ linked' = linked \ {o}
  BY DEF Unregister
<1>4. 0 \in 0..MaxCalls
  BY ObserversAssumption
<1>5. /\ missed' \in [Observer -> SUBSET Entity]
      /\ \A p \in Observer : missed[p] \subseteq missed'[p]
  BY NoteDeafFacts DEF Unregister
<1> QED BY <1>1, <1>2, <1>3, <1>4, <1>5 DEF Typed

\* remove_observer() keeps the types.
LEMMA RemoveObserverTyped ==
  ASSUME Typed, Growing(callbacks), NEW o \in Observer, RemoveObserver(o)
  PROVE  Typed'
<1>1. /\ callbacks' \in Seq(Callback) /\ observerId' \in [Observer -> 0..MaxCalls]
      /\ linked' \in SUBSET Observer /\ missed' \in [Observer -> SUBSET Entity]
  BY UnregisterFacts DEF RemoveObserver
<1>2. calls' \in 0..MaxCalls /\ nextId \in 1..calls' + 1
  BY CallCounts DEF RemoveObserver
<1> QED BY <1>1, <1>2 DEF Typed, RemoveObserver, worldVars, subVars

\* Freeing an observer keeps the types.
LEMMA FreeObserverTyped ==
  ASSUME Typed, Growing(callbacks), NEW o \in Observer, FreeObserver(o)
  PROVE  Typed'
<1>1. /\ callbacks' \in Seq(Callback) /\ observerId' \in [Observer -> 0..MaxCalls]
      /\ linked' \in SUBSET Observer /\ missed' \in [Observer -> SUBSET Entity]
  <2>1. CASE o \in linked
    BY <2>1, UnregisterFacts DEF FreeObserver
  <2>2. CASE o \notin linked
    BY <2>2 DEF FreeObserver, Typed
  <2> QED BY <2>1, <2>2
<1>2. calls' \in 0..MaxCalls /\ nextId \in 1..calls' + 1
  BY CallCounts DEF FreeObserver
<1>3. freed' \in SUBSET Observer
  BY DEF FreeObserver, Typed
<1> QED BY <1>1, <1>2, <1>3 DEF Typed, FreeObserver, worldVars, subVars

\* on_field_changed() keeps the types.
LEMMA SubscribeTyped ==
  ASSUME Typed, NEW s \in FieldSub, Subscribe(s)
  PROVE  Typed'
<1>1. callbacks' \in Seq(Callback)
  BY RegisterFacts DEF Subscribe
<1>2. /\ calls' \in 0..MaxCalls /\ nextId' \in 1..calls' + 1
      /\ nextId \in 0..MaxCalls
  BY CallCounts DEF Subscribe
<1>3. /\ subId' \in [FieldSub -> 0..MaxCalls] /\ cached' \in [FieldSub -> Memory]
      /\ written' \in [FieldSub -> SUBSET Entity]
  BY <1>2, ForgetFacts DEF Subscribe
<1>4. made' \in SUBSET FieldSub
  BY DEF Subscribe, Typed
<1> QED BY <1>1, <1>2, <1>3, <1>4 DEF Typed, Subscribe, worldVars, observerVars

\* off() keeps the types.
LEMMA OffTyped ==
  ASSUME Typed, Growing(callbacks), NEW s \in FieldSub, Off(s)
  PROVE  Typed'
<1>1. callbacks' \in Seq(Callback)
  BY WithoutFacts DEF Off, Typed
<1>2. calls' \in 0..MaxCalls /\ nextId \in 1..calls' + 1 /\ 0 \in 0..MaxCalls
  BY CallCounts DEF Off
<1>3. /\ subId' \in [FieldSub -> 0..MaxCalls] /\ cached' \in [FieldSub -> Memory]
      /\ written' \in [FieldSub -> SUBSET Entity]
  BY <1>2, ForgetFacts DEF Off
<1> QED BY <1>1, <1>2, <1>3 DEF Typed, Off, worldVars, observerVars

\* shutdown() keeps the types.
LEMMA ShutdownTyped ==
  ASSUME Typed, Shutdown
  PROVE  Typed'
<1>1. callbacks' = <<>> /\ <<>> \in Seq(Callback)
  BY DEF Shutdown
<1>2. calls' \in 0..MaxCalls /\ nextId' \in 1..calls' + 1 /\ 0 \in 0..MaxCalls
  BY CallCounts DEF Shutdown, FirstId
<1>3. /\ subId' \in [FieldSub -> 0..MaxCalls] /\ cached' \in [FieldSub -> Memory]
      /\ written' \in [FieldSub -> SUBSET Entity]
  BY <1>2, ForgetFacts DEF Shutdown
<1>4. missed' \in [Observer -> SUBSET Entity]
  BY NoteDeafFacts DEF Shutdown
<1> QED BY <1>1, <1>2, <1>3, <1>4 DEF Typed, Shutdown, worldVars, observerVars

(***************************************************************************)
(* Delivery.                                                               *)
(***************************************************************************)

\* The innermost call becomes g, and may call the program; the others are as
\* they were.
Becomes(g) ==
  /\ stack' \in Seq(Frame)
  /\ Len(stack) \in DOMAIN stack' /\ stack'[Len(stack)] = g
  /\ \A i \in DOMAIN stack : i # Len(stack) => i \in DOMAIN stack' /\ stack'[i] = stack[i]
  /\ \A i \in DOMAIN stack' : i \in DOMAIN stack \/ stack'[i] \in UserFrame

\* The innermost call ends.
Ends ==
  /\ stack' \in Seq(Frame)
  /\ DOMAIN stack' = DOMAIN stack \ {Len(stack)}
  /\ \A i \in DOMAIN stack' : stack'[i] = stack[i]

\* The innermost call.
LEMMA TopIsFrame ==
  ASSUME Typed, stack # <<>>
  PROVE  /\ Len(stack) \in DOMAIN stack /\ Top \in Frame /\ Top = stack[Len(stack)]
         /\ \A k : Running(k) <=> Top.kind = k
BY DEF Typed, Top, Running

\* The innermost call, where it is a delivery.
LEMMA TopDispatch ==
  ASSUME Typed, Running("dispatch")
  PROVE  /\ stack # <<>> /\ Len(stack) \in DOMAIN stack
         /\ Top = stack[Len(stack)] /\ Top \in DispatchFrame
BY TopIsFrame, FrameKinds DEF Running

\* A callable that runs is a call.
LEMMA UserCodeIsFrame ==
  ASSUME NEW o \in Observer \cup FieldSub
  PROVE  UserCode(o) \in UserFrame /\ UserCode(o) \in Frame
BY DEF UserCode, UserFrame, Frame

\* The innermost call moves on without calling the program.
LEMMA SetTopBecomes ==
  ASSUME Typed, stack # <<>>, NEW g \in Frame, SetTop(g)
  PROVE  Becomes(g)
<1>1. stack \in Seq(Frame) /\ stack' = [stack EXCEPT ![Len(stack)] = g]
  BY DEF Typed, SetTop
<1> QED BY <1>1, SetTopFacts DEF Becomes

\* The innermost call moves on and calls the program.
LEMMA CallFromBecomes ==
  ASSUME Typed, stack # <<>>, NEW g \in Frame, NEW o \in Observer \cup FieldSub,
         CallFrom(g, UserCode(o))
  PROVE  Becomes(g)
<1> DEFINE u == UserCode(o)
<1>1. stack \in Seq(Frame) /\ stack' = Append([stack EXCEPT ![Len(stack)] = g], u)
  BY DEF Typed, CallFrom
<1>2. u \in Frame /\ u \in UserFrame
  BY UserCodeIsFrame
<1> HIDE DEF u
<1>3. /\ stack' \in Seq(Frame) /\ DOMAIN stack' = DOMAIN stack \cup {Len(stack) + 1}
      /\ \A i \in DOMAIN stack : i # Len(stack) => stack'[i] = stack[i]
      /\ stack'[Len(stack)] = g /\ stack'[Len(stack) + 1] = u /\ Len(stack) \in DOMAIN stack
  BY <1>1, <1>2, CallFromFacts
<1> QED BY <1>2, <1>3 DEF Becomes

\* A return ends the innermost call.
LEMMA ReturnEnds ==
  ASSUME Typed, stack # <<>>, Return
  PROVE  Ends
<1>1. stack \in Seq(Frame) /\ stack' = Front(stack)
  BY DEF Typed, Return
<1>2. /\ stack' \in Seq(Frame) /\ DOMAIN stack' = DOMAIN stack \ {Len(stack)}
      /\ \A i \in DOMAIN stack : i # Len(stack) => stack'[i] = stack[i]
  <2>1. PICK s, t : s = stack /\ t = stack' /\ t = Front(s)
    BY <1>1
  <2>2. s \in Seq(Frame) /\ s # <<>>
    BY <1>1, <2>1
  <2>3. /\ t \in Seq(Frame) /\ DOMAIN t = DOMAIN s \ {Len(s)}
        /\ \A i \in DOMAIN s : i # Len(s) => t[i] = s[i]
    BY <2>1, <2>2 DEF Front
  <2> QED BY <2>1, <2>3
<1> QED BY <1>2 DEF Ends

\* The callback that a delivery is at.
LEMMA AtCallbackFacts ==
  ASSUME Typed, AtCallback
  PROVE  /\ stack # <<>> /\ Len(stack) \in DOMAIN stack
         /\ Top = stack[Len(stack)] /\ Top \in DispatchFrame
         /\ Top.evaluate = {} /\ Top.next \in DOMAIN Top.snapshot
         /\ Top.snapshot[Top.next] \in Callback
         /\ Callee = Top.snapshot[Top.next].obs
<1>1. /\ stack # <<>> /\ Len(stack) \in DOMAIN stack
      /\ Top = stack[Len(stack)] /\ Top \in DispatchFrame
  BY TopDispatch DEF AtCallback
<1>2. Top.snapshot \in Seq(Callback) /\ Top.next \in Nat \ {0}
  BY <1>1 DEF DispatchFrame
<1>3. Top.evaluate = {} /\ Top.next <= Len(Top.snapshot)
  BY DEF AtCallback, Walked
<1>4. Top.next \in DOMAIN Top.snapshot /\ Top.snapshot[Top.next] \in Callback
  BY <1>2, <1>3
<1> QED BY <1>1, <1>3, <1>4 DEF Callee, Walked

\* A delivery passes a callback that does not want the event.
LEMMA SkipDoes ==
  ASSUME Typed, SkipNext
  PROVE  \E g \in DispatchFrame :
           /\ Becomes(g) /\ g.ev = Top.ev /\ g.snapshot = Top.snapshot
           /\ g.next = Top.next + 1 /\ g.evaluate = {} /\ g.due = Top.due /\ g.got = Top.got
<1> DEFINE g == [Top EXCEPT !.next = @ + 1]
<1>1. Top \in DispatchFrame /\ stack # <<>> /\ Top.evaluate = {}
  BY AtCallbackFacts DEF SkipNext
<1>2. SetTop(g)
  BY DEF SkipNext
<1>3. /\ g \in DispatchFrame /\ g.ev = Top.ev /\ g.snapshot = Top.snapshot
      /\ g.next = Top.next + 1 /\ g.evaluate = Top.evaluate
      /\ g.due = Top.due /\ g.got = Top.got
  BY <1>1, SkippedFrame
<1> HIDE DEF g
<1>4. Becomes(g)
  BY <1>1, <1>2, <1>3, SetTopBecomes DEF Frame
<1> QED BY <1>1, <1>3, <1>4

\* A delivery that has called its callback.
LEMMA PassedIsFrame ==
  ASSUME Typed, AtCallback
  PROVE  /\ Passed \in DispatchFrame /\ Passed.ev = Top.ev /\ Passed.snapshot = Top.snapshot
         /\ Passed.next = Top.next + 1 /\ Passed.evaluate = {} /\ Passed.due = Top.due
         /\ Passed.got = Append(Top.got, Top.snapshot[Top.next])
<1>1. /\ Top \in DispatchFrame /\ Top.snapshot[Top.next] \in Callback
      /\ Top.evaluate = {}
  BY AtCallbackFacts
<1>2. PICK f, g, x : f = Top /\ g = Passed /\ x = Append(Top.got, Top.snapshot[Top.next])
  OBVIOUS
<1>3. f \in DispatchFrame /\ x \in Seq(Callback)
  BY <1>1, <1>2 DEF DispatchFrame
<1>4. PICK h : h = [f EXCEPT !.next = @ + 1]
  OBVIOUS
<1>5. /\ h \in DispatchFrame /\ h.ev = f.ev /\ h.snapshot = f.snapshot
      /\ h.next = f.next + 1 /\ h.evaluate = f.evaluate
      /\ h.due = f.due /\ h.got = f.got
  BY <1>3, <1>4, SkippedFrame
<1>6. g = [h EXCEPT !.got = x]
  BY <1>2, <1>4 DEF Passed, Walked
<1>7. /\ g \in DispatchFrame /\ g.ev = h.ev /\ g.snapshot = h.snapshot
      /\ g.next = h.next /\ g.evaluate = h.evaluate
      /\ g.due = h.due /\ g.got = x
  BY <1>3, <1>5, <1>6, GotFrame
<1> QED BY <1>1, <1>2, <1>5, <1>7

\* A delivery calls an observer, and will evaluate it.
LEMMA DeliverDoes ==
  ASSUME Typed, DeliverNext
  PROVE  \E g \in DispatchFrame :
           /\ Becomes(g) /\ g.ev = Top.ev /\ g.snapshot = Top.snapshot
           /\ g.next = Top.next + 1 /\ g.due = Top.due
           /\ g.evaluate = IF Top.ev.kind \in {"Added", "Removed"} /\ HasMatchEvents(Callee)
                           THEN {Callee} ELSE {}
           /\ g.got = Append(Top.got, Top.snapshot[Top.next])
<1> DEFINE S == IF Top.ev.kind \in {"Added", "Removed"} /\ HasMatchEvents(Callee)
                THEN {Callee} ELSE {}
           g == [Passed EXCEPT !.evaluate = S]
<1>1. AtCallback /\ Callee \in Observer /\ CallFrom(g, UserCode(Callee))
  BY DEF DeliverNext
<1>2. stack # <<>>
  BY <1>1, AtCallbackFacts
<1>3. S \in SUBSET Observer
  BY <1>1
<1>4. /\ Passed \in DispatchFrame /\ Passed.ev = Top.ev /\ Passed.snapshot = Top.snapshot
      /\ Passed.next = Top.next + 1 /\ Passed.due = Top.due
      /\ Passed.got = Append(Top.got, Top.snapshot[Top.next])
  BY <1>1, PassedIsFrame
<1>0. g = [Passed EXCEPT !.evaluate = S]
  OBVIOUS
<1> HIDE DEF S, g
<1>5. /\ g \in DispatchFrame /\ g.ev = Passed.ev /\ g.snapshot = Passed.snapshot
      /\ g.next = Passed.next /\ g.evaluate = S /\ g.due = Passed.due /\ g.got = Passed.got
  <2>1. PICK f : f = Passed
    OBVIOUS
  <2>2. f \in DispatchFrame /\ g = [f EXCEPT !.evaluate = S]
    BY <1>0, <1>4, <2>1
  <2>3. /\ g \in DispatchFrame /\ g.ev = f.ev /\ g.snapshot = f.snapshot
        /\ g.next = f.next /\ g.evaluate = S /\ g.due = f.due /\ g.got = f.got
    BY <1>3, <2>2, EvaluatingFrame
  <2> QED BY <2>1, <2>3
<1>6. Becomes(g)
  BY <1>1, <1>2, <1>5, CallFromBecomes DEF Frame
<1> QED BY <1>4, <1>5, <1>6 DEF S

\* A delivery calls a subscription.
LEMMA FieldDoes ==
  ASSUME Typed, DeliverField
  PROVE  \E g \in DispatchFrame :
           /\ Becomes(g) /\ g.ev = Top.ev /\ g.snapshot = Top.snapshot
           /\ g.next = Top.next + 1 /\ g.evaluate = {} /\ g.due = Top.due
           /\ g.got = Append(Top.got, Top.snapshot[Top.next])
<1>1. AtCallback /\ Callee \in FieldSub /\ (CallFrom(Passed, UserCode(Callee)) \/ SetTop(Passed))
  BY DEF DeliverField
<1>2. stack # <<>>
  BY <1>1, AtCallbackFacts
<1>3. Becomes(Passed)
  BY <1>1, <1>2, PassedIsFrame, CallFromBecomes, SetTopBecomes DEF Frame
<1> QED BY <1>1, <1>3, PassedIsFrame

\* What evaluate_match() does to the membership of the observer, and to what it
\* has missed.
LEMMA EvaluateDoes ==
  ASSUME Typed, EvaluateMatch
  PROVE  \E o \in Top.evaluate, g \in DispatchFrame :
           /\ Becomes(g) /\ g.ev = Top.ev /\ g.snapshot = Top.snapshot /\ g.next = Top.next
           /\ g.evaluate = {} /\ g.due = Top.due /\ g.got = Top.got
           /\ IF o \in linked /\ Match[o] # {}
              THEN /\ membership' = [membership EXCEPT ![o] = Reevaluated(o, Top.ev.ent)]
                   /\ missed' = [missed EXCEPT ![o] = @ \ {Top.ev.ent}]
              ELSE UNCHANGED <<membership, missed>>
<1>1. stack # <<>> /\ Top \in DispatchFrame
  BY TopDispatch DEF EvaluateMatch
<1> DEFINE done == [Top EXCEPT !.evaluate = {}]
<1>2. /\ done \in DispatchFrame /\ done.ev = Top.ev /\ done.snapshot = Top.snapshot
      /\ done.next = Top.next /\ done.evaluate = {} /\ done.due = Top.due /\ done.got = Top.got
  <2>1. PICK f, S : f = Top /\ S = {}
    OBVIOUS
  <2>2. f \in DispatchFrame /\ S \in SUBSET Observer /\ done = [f EXCEPT !.evaluate = S]
    BY <1>1, <2>1
  <2> HIDE DEF done
  <2>3. /\ done \in DispatchFrame /\ done.ev = f.ev /\ done.snapshot = f.snapshot
        /\ done.next = f.next /\ done.evaluate = S /\ done.due = f.due /\ done.got = f.got
    BY <2>2, EvaluatingFrame
  <2> QED BY <2>1, <2>3
<1>3. PICK o \in Top.evaluate :
        /\ IF o \in linked /\ Match[o] # {}
           THEN /\ membership' = [membership EXCEPT ![o] = Reevaluated(o, Top.ev.ent)]
                /\ missed' = [missed EXCEPT ![o] = @ \ {Top.ev.ent}]
           ELSE UNCHANGED <<membership, missed>>
        /\ CallFrom(done, UserCode(o)) \/ SetTop(done)
  BY DEF EvaluateMatch
<1>4. o \in Observer
  BY <1>1 DEF DispatchFrame
<1> HIDE DEF done
<1>5. Becomes(done)
  BY <1>1, <1>2, <1>3, <1>4, CallFromBecomes, SetTopBecomes DEF Frame
<1> QED BY <1>2, <1>3, <1>5

\* The rest of destroy_entity() fires the next event, or ends.
LEMMA RemovalDoes ==
  ASSUME Typed, NextRemoval
  PROVE  /\ stack # <<>> /\ Len(stack) \in DOMAIN stack
         /\ Top = stack[Len(stack)] /\ Top \in RemovalsFrame
         /\ IF Top.todo = <<>> THEN Ends
            ELSE \E g \in RemovalsFrame, d \in DispatchFrame :
                   /\ g.ent = Top.ent /\ g.todo = Tail(Top.todo)
                   /\ d = Dispatch(Event("Removed", Top.ent, Head(Top.todo)))
                   /\ stack' \in Seq(Frame)
                   /\ DOMAIN stack' = DOMAIN stack \cup {Len(stack) + 1}
                   /\ \A i \in DOMAIN stack : i # Len(stack) => stack'[i] = stack[i]
                   /\ stack'[Len(stack)] = g /\ stack'[Len(stack) + 1] = d
                   /\ Event("Removed", Top.ent, Head(Top.todo)) \in EntityEvent
<1>1. /\ stack # <<>> /\ Len(stack) \in DOMAIN stack
      /\ Top = stack[Len(stack)] /\ Top \in RemovalsFrame
  BY TopIsFrame, FrameKinds DEF NextRemoval, Running
<1>2. CASE Top.todo = <<>>
  BY <1>1, <1>2, ReturnEnds DEF NextRemoval
<1>3. CASE Top.todo # <<>>
  <2> DEFINE g == [Top EXCEPT !.todo = Tail(@)]
             ev == Event("Removed", Top.ent, Head(Top.todo))
             d == Dispatch(ev)
  <2>1. g \in RemovalsFrame /\ g.ent = Top.ent /\ g.todo = Tail(Top.todo)
    BY <1>1, <1>3, RemovalsNextFrame
  <2>2. Top.todo \in Seq(Comp) /\ Top.ent \in Entity
    BY <1>1 DEF RemovalsFrame
  <2>3. Head(Top.todo) \in Comp
    BY <1>3, <2>2
  <2>4. ev \in EntityEvent /\ ev \in AnyEvent
    BY <2>2, <2>3, EventIsEvent
  <2>5. d \in DispatchFrame /\ d \in Frame
    <3> HIDE DEF ev
    <3> QED BY <2>4, DispatchIsFrame
  <2>6. stack' = Append([stack EXCEPT ![Len(stack)] = g], d) /\ stack \in Seq(Frame)
    BY <1>3 DEF NextRemoval, CallFrom, Typed
  <2>7. d = Dispatch(Event("Removed", Top.ent, Head(Top.todo)))
    OBVIOUS
  <2>8. Event("Removed", Top.ent, Head(Top.todo)) \in EntityEvent
    BY <2>4
  <2>9. g \in Frame
    BY <2>1 DEF Frame
  <2> HIDE DEF g, d, ev
  <2>10. /\ stack' \in Seq(Frame) /\ DOMAIN stack' = DOMAIN stack \cup {Len(stack) + 1}
         /\ \A i \in DOMAIN stack : i # Len(stack) => stack'[i] = stack[i]
         /\ stack'[Len(stack)] = g /\ stack'[Len(stack) + 1] = d
    BY <1>1, <2>5, <2>6, <2>9, CallFromFacts
  <2> QED BY <1>1, <1>3, <2>1, <2>5, <2>7, <2>8, <2>10
<1> QED BY <1>1, <1>2, <1>3

\* The walk of seed_membership() ends, goes on to the next archetype, or comes
\* to the next row.
LEMMA SeedDoes ==
  ASSUME Typed, SeedNext
  PROVE  /\ stack # <<>> /\ Len(stack) \in DOMAIN stack
         /\ Top = stack[Len(stack)] /\ Top \in SeedFrame
         /\ \/ Top.todo = <<>> /\ Ends /\ UNCHANGED <<membership, missed>>
            \/ /\ Top.todo # <<>> /\ Top.row > Len(tables[Head(Top.todo)])
               /\ UNCHANGED <<membership, missed>>
               /\ \E g \in SeedFrame :
                    Becomes(g) /\ g.obs = Top.obs /\ g.row = 1 /\ g.todo = Tail(Top.todo)
            \/ /\ Top.todo # <<>> /\ Top.row \in DOMAIN tables[Head(Top.todo)]
               /\ LET e == tables[Head(Top.todo)][Top.row]
                  IN /\ membership' = [membership EXCEPT ![Top.obs] = @ \cup {e}]
                     /\ missed' = [missed EXCEPT ![Top.obs] = @ \ {e}]
               /\ \E g \in SeedFrame :
                    Becomes(g) /\ g.obs = Top.obs /\ g.row = Top.row + 1 /\ g.todo = Top.todo
<1>1. /\ stack # <<>> /\ Len(stack) \in DOMAIN stack
      /\ Top = stack[Len(stack)] /\ Top \in SeedFrame
  BY TopIsFrame, FrameKinds DEF SeedNext, Running
<1>2. Top.obs \in Observer /\ Top.row \in Nat \ {0} /\ Top.todo \in Seq(SUBSET Comp)
  BY <1>1 DEF SeedFrame
<1>3. CASE Top.todo = <<>>
  BY <1>1, <1>3, ReturnEnds DEF SeedNext
<1>4. CASE Top.todo # <<>> /\ Top.row > Len(tables[Head(Top.todo)])
  <2> DEFINE g == [Top EXCEPT !.todo = Tail(@), !.row = 1]
  <2>1. g \in SeedFrame /\ g.obs = Top.obs /\ g.row = 1 /\ g.todo = Tail(Top.todo)
    BY <1>1, <1>4, SeedTableFrame
  <2>2. SetTop(g) /\ UNCHANGED <<membership, missed>>
    BY <1>4 DEF SeedNext
  <2> HIDE DEF g
  <2>3. Becomes(g)
    BY <1>1, <2>1, <2>2, SetTopBecomes DEF Frame
  <2> QED BY <1>1, <1>4, <2>1, <2>2, <2>3
<1>5. CASE Top.todo # <<>> /\ ~(Top.row > Len(tables[Head(Top.todo)]))
  <2> DEFINE g == [Top EXCEPT !.row = @ + 1]
             H == Head(Top.todo)
             e == tables[H][Top.row]
  <2>1. g \in SeedFrame /\ g.obs = Top.obs /\ g.row = Top.row + 1 /\ g.todo = Top.todo
    BY <1>1, SeedRowFrame
  <2>2. /\ membership' = [membership EXCEPT ![Top.obs] = @ \cup {e}]
        /\ missed' = [missed EXCEPT ![Top.obs] = @ \ {e}]
        /\ SetTop(g) \/ CallFrom(g, UserCode(Top.obs))
    BY <1>5 DEF SeedNext
  <2>3. H \in SUBSET Comp
    BY <1>2, <1>5
  <2>4. Top.row \in DOMAIN tables[H]
    <3>1. tables[H] \in Seq(Entity)
      BY <2>3 DEF Typed, TablesOK
    <3>2. ~(Top.row > Len(tables[H]))
      BY <1>5
    <3> HIDE DEF H
    <3> QED BY <1>2, <3>1, <3>2
  <2> HIDE DEF g
  <2>5. Becomes(g)
    BY <1>1, <1>2, <2>1, <2>2, SetTopBecomes, CallFromBecomes DEF Frame
  <2> QED BY <1>1, <1>5, <2>1, <2>2, <2>4, <2>5
<1> QED BY <1>3, <1>4, <1>5

(***************************************************************************)
(* Types are kept by delivery.                                             *)
(***************************************************************************)

\* A callable returns.
LEMMA ReturnTyped ==
  ASSUME Typed, UserReturns
  PROVE  Typed' /\ Ends /\ stack # <<>> /\ stack[Len(stack)] \in UserFrame
<1>1. stack # <<>> /\ stack[Len(stack)] \in UserFrame
  BY TopIsFrame, FrameKinds DEF UserReturns, Running
<1>2. Ends
  BY <1>1, ReturnEnds DEF UserReturns
<1> QED
  BY <1>1, <1>2 DEF Typed, Ends, UserReturns, worldVars, dispatchVars, observerVars, subVars

\* A delivery ends.
LEMMA EndTyped ==
  ASSUME Typed, EndDelivery
  PROVE  Typed' /\ Ends /\ stack # <<>> /\ stack[Len(stack)] \in DispatchFrame
<1>1. stack # <<>> /\ stack[Len(stack)] \in DispatchFrame
  BY TopDispatch DEF EndDelivery
<1>2. Ends
  BY <1>1, ReturnEnds DEF EndDelivery
<1> QED
  BY <1>1, <1>2 DEF Typed, Ends, EndDelivery, worldVars, dispatchVars, observerVars, subVars

\* The rest of destroy_entity() keeps the types.
LEMMA RemovalTyped ==
  ASSUME Typed, NextRemoval
  PROVE  Typed'
<1>1. stack' \in Seq(Frame)
  BY RemovalDoes DEF Ends
<1> QED BY <1>1 DEF Typed, NextRemoval, worldVars, dispatchVars, observerVars, subVars

\* Passing a callback keeps the types.
LEMMA SkipTyped ==
  ASSUME Typed, SkipNext
  PROVE  Typed'
<1>1. stack' \in Seq(Frame)
  BY SkipDoes DEF Becomes
<1> QED BY <1>1 DEF Typed, SkipNext, worldVars, dispatchVars, observerVars, subVars

\* Calling an observer keeps the types.
LEMMA DeliverTyped ==
  ASSUME Typed, DeliverNext
  PROVE  Typed'
<1>1. stack' \in Seq(Frame)
  BY DeliverDoes DEF Becomes
<1> QED BY <1>1 DEF Typed, DeliverNext, worldVars, dispatchVars, observerVars, subVars

\* An entity that has components is alive.
LEMMA HasIsEntity ==
  ASSUME Typed, NEW e, NEW T, Has(e, T)
  PROVE  e \in Entity
BY TableOfAlive DEF Typed, Has

\* What a subscription has seen after another value.
LEMMA RememberFacts ==
  ASSUME Typed, NEW s \in FieldSub, NEW e \in Entity, NEW m, m = Remember(s, e)
  PROVE  /\ m \in Memory /\ e \in DOMAIN m /\ m[e] = value[e]
         /\ \A x \in DOMAIN cached[s] : x \in DOMAIN m /\ (x # e => m[x] = cached[s][x])
<1>1. PICK S \in SUBSET Entity : cached[s] \in [S -> Value]
  BY DEF Typed, Memory
<1>2. value[e] \in Value
  BY DEF Typed
<1>3. m = [x \in S \cup {e} |-> IF x = e THEN value[e] ELSE cached[s][x]]
  BY <1>1 DEF Remember
<1>4. m \in [S \cup {e} -> Value] /\ S \cup {e} \in SUBSET Entity
  BY <1>1, <1>2, <1>3
<1>5. m \in Memory
  BY <1>4 DEF Memory
<1> QED BY <1>1, <1>3, <1>5

\* Calling a subscription keeps the types.
LEMMA FieldTyped ==
  ASSUME Typed, DeliverField
  PROVE  Typed'
<1>1. stack' \in Seq(Frame)
  BY FieldDoes DEF Becomes
<1>2. cached' \in [FieldSub -> Memory]
  <2>1. CASE cached' = cached
    BY <2>1 DEF Typed
  <2>2. CASE cached' # cached
    <3>1. /\ Callee \in FieldSub /\ Has(Top.ev.ent, {Watched})
          /\ cached' = [cached EXCEPT ![Callee] = Remember(Callee, Top.ev.ent)]
      BY <2>2 DEF DeliverField
    <3>2. Remember(Callee, Top.ev.ent) \in Memory
      BY <3>1, HasIsEntity, RememberFacts
    <3> QED BY <3>1, <3>2 DEF Typed
  <2> QED BY <2>1, <2>2
<1>3. UNCHANGED <<worldVars, dispatchVars, observerVars, made, subId, written, calls, missed>>
  BY DEF DeliverField
<1> QED BY <1>1, <1>2, <1>3 DEF Typed, worldVars, dispatchVars, observerVars

\* evaluate_match() keeps the types.
LEMMA EvaluateTyped ==
  ASSUME Typed, EvaluateMatch
  PROVE  Typed'
<1>1. Top \in DispatchFrame
  BY TopDispatch DEF EvaluateMatch
<1>2. PICK o \in Top.evaluate :
        /\ stack' \in Seq(Frame)
        /\ IF o \in linked /\ Match[o] # {}
           THEN /\ membership' = [membership EXCEPT ![o] = Reevaluated(o, Top.ev.ent)]
                /\ missed' = [missed EXCEPT ![o] = @ \ {Top.ev.ent}]
           ELSE UNCHANGED <<membership, missed>>
  BY EvaluateDoes DEF Becomes
<1>3. o \in Observer
  BY <1>1 DEF DispatchFrame
<1>4. Reevaluated(o, Top.ev.ent) \in SUBSET Entity
  BY <1>3, HasIsEntity DEF Reevaluated, Typed
<1>5. membership' \in [Observer -> SUBSET Entity] /\ missed' \in [Observer -> SUBSET Entity]
  <2>1. membership \in [Observer -> SUBSET Entity] /\ missed \in [Observer -> SUBSET Entity]
    BY DEF Typed
  <2>2. PICK R : R = Reevaluated(o, Top.ev.ent)
    OBVIOUS
  <2>3. CASE o \in linked /\ Match[o] # {}
    <3>1. membership' = [membership EXCEPT ![o] = R]
      BY <1>2, <2>2, <2>3
    <3>2. missed' = [missed EXCEPT ![o] = @ \ {Top.ev.ent}]
      BY <1>2, <2>3
    <3>3. R \in SUBSET Entity
      BY <1>4, <2>2
    <3>4. membership' \in [Observer -> SUBSET Entity]
      BY <2>1, <3>1, <3>3
    <3> QED BY <2>1, <3>2, <3>4
  <2>4. CASE ~(o \in linked /\ Match[o] # {})
    BY <1>2, <2>1, <2>4
  <2> QED BY <2>3, <2>4
<1>6. UNCHANGED <<worldVars, dispatchVars, observerId, linked, freed, again, subVars, calls>>
  BY DEF EvaluateMatch
<1> QED BY <1>2, <1>5, <1>6 DEF Typed, worldVars, dispatchVars, subVars

\* seed_membership() keeps the types.
LEMMA SeedTyped ==
  ASSUME Typed, SeedNext
  PROVE  Typed'
<1>1. stack' \in Seq(Frame)
  BY SeedDoes DEF Ends, Becomes
<1>2. membership' \in [Observer -> SUBSET Entity] /\ missed' \in [Observer -> SUBSET Entity]
  <2>1. CASE UNCHANGED <<membership, missed>>
    BY <2>1 DEF Typed
  <2>2. CASE ~UNCHANGED <<membership, missed>>
    <3> DEFINE H == Head(Top.todo)
               e == tables[H][Top.row]
    <3>1. /\ Top \in SeedFrame /\ Top.todo # <<>> /\ Top.row \in DOMAIN tables[H]
          /\ membership' = [membership EXCEPT ![Top.obs] = @ \cup {e}]
          /\ missed' = [missed EXCEPT ![Top.obs] = @ \ {e}]
      BY <2>2, SeedDoes
    <3>2. H \in SUBSET Comp
      BY <3>1 DEF SeedFrame
    <3>3. e \in Entity
      <4>1. tables[H] \in Seq(Entity)
        BY <3>2 DEF Typed, TablesOK
      <4> HIDE DEF H
      <4> QED BY <3>1, <4>1
    <3> HIDE DEF e
    <3> QED BY <3>1, <3>3 DEF Typed
  <2> QED BY <2>1, <2>2
<1>3. UNCHANGED <<worldVars, dispatchVars, observerId, linked, freed, again, subVars, calls>>
  BY DEF SeedNext
<1> QED BY <1>1, <1>2, <1>3 DEF Typed, worldVars, dispatchVars, subVars

(***************************************************************************)
(* The list of callbacks agrees with what observers and subscriptions know *)
(* of themselves.                                                          *)
(***************************************************************************)

\* A callback as its owner knows it, if it has no other.
Owned(cb) ==
  /\ cb.id < nextId
  /\ cb.obs \in Observer \ again =>
       cb.id = observerId[cb.obs] /\ cb.obs \in linked /\ cb.obs \notin freed
  /\ cb.obs \in FieldSub => cb.id = subId[cb.obs] /\ cb.obs \in made

Listed == Growing(callbacks) /\ \A i \in DOMAIN callbacks : Owned(callbacks[i])

\* Every step keeps the types.
LEMMA TypedStep ==
  ASSUME Typed, Listed, Next
  PROVE  Typed'
<1>1. Growing(callbacks)
  BY DEF Listed
<1>2. CASE WorldCall
  BY <1>2, CreateTyped, DestroyTyped, ComponentTyped, WriteTyped, ClearTyped DEF WorldCall
<1>3. CASE ObserverCall
  BY <1>1, <1>3, AddObserverTyped, RemoveObserverTyped, FreeObserverTyped, SubscribeTyped,
     OffTyped, ShutdownTyped DEF ObserverCall
<1>4. CASE DeliveryStep
  BY <1>4, ReturnTyped, RemovalTyped, SeedTyped, SkipTyped, DeliverTyped, FieldTyped,
     EvaluateTyped, EndTyped DEF DeliveryStep
<1> QED BY <1>2, <1>3, <1>4 DEF Next

\* A callback of the list, and what it belongs to.
LEMMA CallbackFacts ==
  ASSUME Typed, NEW i \in DOMAIN callbacks
  PROVE  /\ callbacks[i] \in Callback /\ callbacks[i].id \in 1..MaxCalls
         /\ callbacks[i].obs \in Observer \cup FieldSub
<1>1. callbacks[i] \in Callback
  BY DEF Typed
<1> QED BY <1>1 DEF Callback

\* A new callback comes last, with the greatest id.
LEMMA RegisterGrows ==
  ASSUME Typed, Listed, Call, NEW o \in Observer \cup FieldSub,
         callbacks' = Append(callbacks, [id |-> nextId, obs |-> o])
  PROVE  Growing(callbacks')
<1>1. \A i \in DOMAIN callbacks : callbacks[i].id < nextId
  BY DEF Listed, Owned
<1>2. callbacks \in Seq(Callback)
  BY DEF Typed
<1> QED BY <1>1, <1>2, RegisterFacts DEF Listed, Growing

\* What to show of a list after a step.
LEMMA ListedIf ==
  ASSUME Growing(callbacks'), callbacks' \in Seq(Callback),
         \A cb \in Callback : \A i \in DOMAIN callbacks' : callbacks'[i] = cb => Owned(cb)'
  PROVE  Listed'
<1>1. \A i \in DOMAIN callbacks' : callbacks'[i] \in Callback
  OBVIOUS
<1> QED BY <1>1 DEF Listed, Owned

\* A new callback belongs to the observer that has just been added.
LEMMA AddObserverListed ==
  ASSUME Typed, Listed, NEW o \in Observer, AddObserver(o)
  PROVE  Listed'
<1>1. Growing(callbacks')
  BY RegisterGrows DEF AddObserver
<1>2. /\ nextId' = nextId + 1 /\ nextId \in Int
      /\ observerId' = [observerId EXCEPT ![o] = nextId]
      /\ observerId \in [Observer -> 0..MaxCalls]
      /\ linked' = linked \cup {o} /\ freed' = freed /\ o \notin freed
      /\ again \subseteq again' /\ (Registered(o) => o \in again')
      /\ subId' = subId /\ made' = made
  BY DEF AddObserver, Typed, subVars
<1>3. /\ DOMAIN callbacks' = DOMAIN callbacks \cup {Len(callbacks) + 1}
      /\ \A i \in DOMAIN callbacks : callbacks'[i] = callbacks[i]
      /\ callbacks'[Len(callbacks) + 1].id = nextId
      /\ callbacks'[Len(callbacks) + 1].obs = o
  BY RegisterFacts DEF AddObserver
<1>4. ASSUME NEW cb \in Callback, Owned(cb), cb.obs # o \/ Registered(o)
      PROVE  Owned(cb)'
  BY <1>2, <1>4 DEF Owned, Callback
<1>5. ASSUME NEW cb \in Callback, cb.id = nextId, cb.obs = o
      PROVE  Owned(cb)'
  BY <1>2, <1>5, ObserversAssumption DEF Owned
<1>6. \A i \in DOMAIN callbacks :
        /\ callbacks[i] \in Callback /\ Owned(callbacks[i])
        /\ callbacks[i].obs # o \/ Registered(o)
  BY CallbackFacts DEF Listed, Registered
<1>7. callbacks' \in Seq(Callback)
  BY RegisterFacts DEF AddObserver
<1>8. ASSUME NEW cb \in Callback, NEW i \in DOMAIN callbacks', callbacks'[i] = cb
      PROVE  Owned(cb)'
  BY <1>3, <1>4, <1>5, <1>6, <1>8
<1> QED BY <1>1, <1>7, <1>8, ListedIf

\* A removed observer owned no callback that is left.
LEMMA UnregisterListed ==
  ASSUME Typed, Listed, NEW o \in Observer, Unregister(o), nextId' = nextId,
         subId' = subId, made' = made, again' = again, freed' \subseteq freed \cup {o}
  PROVE  Listed'
<1>1. /\ callbacks' \in Seq(Callback) /\ Growing(callbacks')
      /\ \A i \in DOMAIN callbacks' :
           /\ callbacks'[i].id # observerId[o]
           /\ \E j \in DOMAIN callbacks : callbacks[j] = callbacks'[i]
      /\ observerId' = [observerId EXCEPT ![o] = 0]
      /\ linked' = linked \ {o}
  BY UnregisterFacts DEF Listed
<1>2. ASSUME NEW cb \in Callback, NEW i \in DOMAIN callbacks', callbacks'[i] = cb
      PROVE  Owned(cb)'
  <2>1. Owned(cb) /\ cb.id # observerId[o]
    BY <1>1, <1>2 DEF Listed
  <2>2. observerId \in [Observer -> 0..MaxCalls]
    BY DEF Typed
  <2> QED BY <1>1, <2>1, <2>2 DEF Owned
<1> QED BY <1>1, <1>2, ListedIf

\* An observer that goes takes its callback with it.
LEMMA FreeListed ==
  ASSUME Typed, Listed, NEW o \in Observer, FreeObserver(o)
  PROVE  Listed'
<1>1. CASE o \in linked
  BY <1>1, UnregisterListed DEF FreeObserver, subVars
<1>2. CASE o \notin linked
  <2>1. /\ UNCHANGED <<callbacks, nextId, observerId, linked, again, subId, made>>
        /\ freed' = freed \cup {o}
    BY <1>2 DEF FreeObserver, subVars
  <2>2. ASSUME NEW cb, Owned(cb)
        PROVE  Owned(cb)'
    BY <1>2, <2>1, <2>2 DEF Owned
  <2>3. callbacks \in Seq(Callback)
    BY DEF Typed
  <2> QED BY <2>1, <2>2, <2>3, ListedIf DEF Listed
<1> QED BY <1>1, <1>2

\* A new callback belongs to the subscription that has just been made.
LEMMA SubscribeListed ==
  ASSUME Typed, Listed, NEW s \in FieldSub, Subscribe(s)
  PROVE  Listed'
<1>1. Growing(callbacks')
  BY RegisterGrows DEF Subscribe
<1>2. /\ nextId' = nextId + 1 /\ nextId \in Int /\ nextId \in 0..MaxCalls
      /\ UNCHANGED <<observerId, linked, freed, again>> /\ made' = made \cup {s} /\ s \notin made
  BY CallCounts DEF Subscribe, Typed, observerVars
<1>3. /\ callbacks' \in Seq(Callback)
      /\ DOMAIN callbacks' = DOMAIN callbacks \cup {Len(callbacks) + 1}
      /\ \A i \in DOMAIN callbacks : callbacks'[i] = callbacks[i]
      /\ callbacks'[Len(callbacks) + 1].id = nextId
      /\ callbacks'[Len(callbacks) + 1].obs = s
  BY RegisterFacts DEF Subscribe
<1>4. subId'[s] = nextId /\ \A u \in FieldSub : u # s => subId'[u] = subId[u]
  BY <1>2, ForgetFacts DEF Subscribe
<1>5. ASSUME NEW cb \in Callback, Owned(cb)
      PROVE  Owned(cb)'
  BY <1>2, <1>4, <1>5 DEF Owned, Callback
<1>6. ASSUME NEW cb \in Callback, cb.id = nextId, cb.obs = s
      PROVE  Owned(cb)'
  BY <1>2, <1>4, <1>6, ObserversAssumption DEF Owned
<1>7. \A i \in DOMAIN callbacks : callbacks[i] \in Callback /\ Owned(callbacks[i])
  BY CallbackFacts DEF Listed
<1>8. ASSUME NEW cb \in Callback, NEW i \in DOMAIN callbacks', callbacks'[i] = cb
      PROVE  Owned(cb)'
  BY <1>3, <1>5, <1>6, <1>7, <1>8
<1> QED BY <1>1, <1>3, <1>8, ListedIf

\* A subscription that is erased takes its callback with it.
LEMMA OffListed ==
  ASSUME Typed, Listed, NEW s \in FieldSub, Off(s)
  PROVE  Listed'
<1>1. UNCHANGED <<nextId, observerId, linked, freed, again, made>>
  BY DEF Off, observerVars
<1>2. /\ callbacks' \in Seq(Callback) /\ Growing(callbacks')
      /\ \A i \in DOMAIN callbacks' :
           /\ callbacks'[i].id # subId[s]
           /\ \E j \in DOMAIN callbacks : callbacks[j] = callbacks'[i]
  BY WithoutFacts DEF Off, Typed, Listed
<1>3. \A u \in FieldSub : u # s => subId'[u] = subId[u]
  BY CallCounts, ForgetFacts DEF Off
<1>4. ASSUME NEW cb \in Callback, NEW i \in DOMAIN callbacks', callbacks'[i] = cb
      PROVE  Owned(cb)'
  <2>1. Owned(cb) /\ cb.id # subId[s]
    BY <1>2, <1>4 DEF Listed
  <2> QED BY <1>1, <1>3, <2>1 DEF Owned
<1> QED BY <1>2, <1>4, ListedIf

\* After shutdown() the list is empty.
LEMMA ShutdownListed ==
  ASSUME Typed, Shutdown
  PROVE  Listed'
BY DEF Shutdown, Listed, Growing

\* Every step keeps the agreement.
LEMMA ListedStep ==
  ASSUME Typed, Listed, Next
  PROVE  Listed'
<1>1. ASSUME UNCHANGED <<callbacks, nextId, observerId, linked, freed, again, subId, made>>
      PROVE  Listed'
  <2>1. ASSUME NEW cb, Owned(cb)
        PROVE  Owned(cb)'
    BY <1>1, <2>1 DEF Owned
  <2>2. callbacks \in Seq(Callback)
    BY DEF Typed
  <2> QED BY <1>1, <2>1, <2>2, ListedIf DEF Listed
<1>2. ASSUME WorldCall
      PROVE  Listed'
  BY <1>1, <1>2 DEF WorldCall, CreateEntity, DestroyEntity, AddComponent, RemoveComponent,
     WriteField, Clear, dispatchVars, observerVars, subVars
<1>3. ASSUME ObserverCall
      PROVE  Listed'
  <2>1. ASSUME NEW o \in Observer, RemoveObserver(o)
        PROVE  Listed'
    BY <2>1, UnregisterListed DEF RemoveObserver, subVars
  <2> QED BY <1>3, <2>1, AddObserverListed, FreeListed, SubscribeListed, OffListed,
          ShutdownListed DEF ObserverCall
<1>4. ASSUME DeliveryStep
      PROVE  Listed'
  BY <1>1, <1>4 DEF DeliveryStep, UserReturns, NextRemoval, SeedNext, SkipNext, DeliverNext,
     DeliverField, EvaluateMatch, EndDelivery, dispatchVars, observerVars, subVars
<1> QED BY <1>2, <1>3, <1>4 DEF Next

(***************************************************************************)
(* What a delivery has called so far.                                      *)
(***************************************************************************)

\* cb is at place j of the snapshot, and wants the event.
Reached(f, cb, j) == j \in DOMAIN f.snapshot /\ f.snapshot[j] = cb /\ Accepts(cb.obs, f.ev)

DeliveryOK(f) ==
  /\ Growing(f.snapshot) /\ Growing(f.got)
  /\ \A cb : cb \in f.due <=> \E j \in Int : Reached(f, cb, j)
  /\ \A cb : (\E k \in DOMAIN f.got : f.got[k] = cb)
               <=> \E j \in Int : j < f.next /\ Reached(f, cb, j)
  /\ \A o, p \in f.evaluate : o = p

Deliveries == \A i \in DOMAIN stack : stack[i].kind = "dispatch" => DeliveryOK(stack[i])

\* A delivery that starts has called nobody.
LEMMA FreshDelivery ==
  ASSUME Typed, Growing(callbacks), NEW ev
  PROVE  DeliveryOK(Dispatch(ev))
<1> DEFINE f == Dispatch(ev)
<1>1. /\ f.snapshot = callbacks /\ f.next = 1 /\ f.ev = ev /\ f.evaluate = {} /\ f.got = <<>>
      /\ f.due = {cb \in ToSet(callbacks) : Accepts(cb.obs, ev)}
  BY DEF Dispatch, Wanting
<1>2. callbacks \in Seq(Callback)
  BY DEF Typed
<1> HIDE DEF f
<1>3. \A cb : cb \in f.due <=> \E j \in Int : Reached(f, cb, j)
  BY <1>1, <1>2 DEF Reached, ToSet
<1>4. \A cb, j : Reached(f, cb, j) => ~(j < f.next)
  BY <1>1, <1>2 DEF Reached
<1>5. \A cb : (\E k \in DOMAIN f.got : f.got[k] = cb)
                <=> \E j \in Int : j < f.next /\ Reached(f, cb, j)
  BY <1>1, <1>4
<1>6. Growing(f.snapshot) /\ Growing(f.got)
  BY <1>1 DEF Growing
<1> QED BY <1>1, <1>3, <1>5, <1>6 DEF DeliveryOK, f

\* A delivery passes a callback that does not want the event.
LEMMA SkippedOK ==
  ASSUME NEW f \in DispatchFrame, DeliveryOK(f), NEW g \in DispatchFrame,
         g.ev = f.ev, g.snapshot = f.snapshot, g.next = f.next + 1, g.evaluate = {},
         g.due = f.due, g.got = f.got,
         ~Accepts(f.snapshot[f.next].obs, f.ev)
  PROVE  DeliveryOK(g)
<1>1. \A cb, j : Reached(g, cb, j) <=> Reached(f, cb, j)
  BY DEF Reached
<1>2. f.next \in Int
  BY DEF DispatchFrame
<1>3. \A cb : \A j \in Int : Reached(f, cb, j) => (j < g.next <=> j < f.next)
  BY <1>2 DEF Reached
<1> QED BY <1>1, <1>3 DEF DeliveryOK

\* A delivery calls a callback: it is the next in the order of registration.
LEMMA CalledOK ==
  ASSUME NEW f \in DispatchFrame, DeliveryOK(f), NEW g \in DispatchFrame,
         g.ev = f.ev, g.snapshot = f.snapshot, g.next = f.next + 1,
         \A o, p \in g.evaluate : o = p,
         g.due = f.due, g.got = Append(f.got, f.snapshot[f.next]),
         f.next \in DOMAIN f.snapshot, Accepts(f.snapshot[f.next].obs, f.ev)
  PROVE  DeliveryOK(g)
<1> DEFINE c == f.snapshot[f.next]
<1>1. \A cb, j : Reached(g, cb, j) <=> Reached(f, cb, j)
  BY DEF Reached
<1>2. f.next \in Int /\ f.got \in Seq(Callback) /\ f.snapshot \in Seq(Callback)
  BY DEF DispatchFrame
<1>3. Reached(f, c, f.next) /\ c \in Callback
  BY <1>2 DEF Reached
<1>4. \A cb : Reached(f, cb, f.next) => cb = c
  BY DEF Reached
<1> HIDE DEF c
<1>5. /\ DOMAIN g.got = DOMAIN f.got \cup {Len(f.got) + 1}
      /\ \A k \in DOMAIN f.got : g.got[k] = f.got[k]
      /\ g.got[Len(f.got) + 1] = c
  <2>1. g.got = Append(f.got, c)
    BY DEF c
  <2> QED BY <1>2, <1>3, <2>1
<1>6. ASSUME NEW cb
      PROVE  (\E k \in DOMAIN g.got : g.got[k] = cb)
               <=> \E j \in Int : j < g.next /\ Reached(g, cb, j)
  <2>1. (\E k \in DOMAIN g.got : g.got[k] = cb)
          <=> cb = c \/ \E k \in DOMAIN f.got : f.got[k] = cb
    BY <1>5
  <2>2. (\E j \in Int : j < g.next /\ Reached(g, cb, j))
          <=> cb = c \/ \E j \in Int : j < f.next /\ Reached(f, cb, j)
    BY <1>1, <1>2, <1>3, <1>4
  <2> QED BY <2>1, <2>2 DEF DeliveryOK
<1>7. ASSUME NEW k \in DOMAIN f.got
      PROVE  f.got[k].id < c.id
  <2>1. PICK j \in Int : j < f.next /\ Reached(f, f.got[k], j)
    BY DEF DeliveryOK
  <2>2. j \in DOMAIN f.snapshot /\ f.snapshot[j] = f.got[k]
    BY <2>1 DEF Reached
  <2> QED BY <2>1, <2>2 DEF DeliveryOK, Growing, c
<1>8. Growing(g.got)
  <2> SUFFICES ASSUME NEW i \in DOMAIN g.got, NEW j \in DOMAIN g.got, i < j
               PROVE  g.got[i].id < g.got[j].id
    BY DEF Growing
  <2>1. i \in DOMAIN f.got
    BY <1>2, <1>5
  <2>2. CASE j \in DOMAIN f.got
    BY <1>5, <2>1, <2>2 DEF DeliveryOK, Growing
  <2>3. CASE j \notin DOMAIN f.got
    BY <1>5, <1>7, <2>1, <2>3
  <2> QED BY <2>2, <2>3
<1> QED BY <1>1, <1>6, <1>8 DEF DeliveryOK

\* The stack after a step.
LEMMA StartsDeliveries ==
  ASSUME Deliveries, NEW f, Starts(f), f.kind = "dispatch" => DeliveryOK(f)
  PROVE  Deliveries'
BY DEF Deliveries, Starts

\* The innermost delivery moves on.
LEMMA BecomesDeliveries ==
  ASSUME Typed, Deliveries, NEW g, Becomes(g), g.kind = "dispatch" => DeliveryOK(g)
  PROVE  Deliveries'
<1> SUFFICES ASSUME NEW i \in DOMAIN stack', stack'[i].kind = "dispatch"
             PROVE  DeliveryOK(stack'[i])
  BY DEF Deliveries
<1>1. CASE i = Len(stack)
  BY <1>1 DEF Becomes
<1>2. CASE i # Len(stack) /\ i \in DOMAIN stack
  BY <1>2 DEF Becomes, Deliveries
<1>3. CASE i \notin DOMAIN stack
  BY <1>3 DEF Becomes, UserFrame
<1> QED BY <1>1, <1>2, <1>3

\* A call ends, and the others are as they were.
LEMMA EndsDeliveries ==
  ASSUME Deliveries, Ends
  PROVE  Deliveries'
BY DEF Deliveries, Ends

\* Every step keeps what deliveries have called.
LEMMA DeliveriesStep ==
  ASSUME Typed, Listed, Deliveries, Next
  PROVE  Deliveries'
<1>1. ASSUME NEW ev
      PROVE  DeliveryOK(Dispatch(ev))
  BY FreshDelivery DEF Listed
<1>2. ASSUME stack' = stack
      PROVE  Deliveries'
  BY <1>2 DEF Deliveries
<1>3. ASSUME WorldCall
      PROVE  Deliveries'
  <2>1. ASSUME NEW ev, Starts(Dispatch(ev))
        PROVE  Deliveries'
    BY <1>1, <2>1, StartsDeliveries
  <2>2. ASSUME NEW e \in Entity, CreateEntity(e)
        PROVE  Deliveries'
    BY <1>2, <2>2 DEF CreateEntity
  <2>3. ASSUME NEW e \in Entity, DestroyEntity(e)
        PROVE  Deliveries'
    <3>1. Removals(e, SetToSeq(TableOf(e))).kind # "dispatch"
      BY DEF Removals
    <3> QED BY <2>3, <3>1, WorldCallStarts, StartsDeliveries
  <2> QED BY <1>3, <2>1, <2>2, <2>3, WorldCallStarts DEF WorldCall
<1>4. ASSUME ObserverCall
      PROVE  Deliveries'
  <2>1. ASSUME NEW o \in Observer, AddObserver(o)
        PROVE  Deliveries'
    <3>1. Seeding(o).kind # "dispatch"
      BY DEF Seeding
    <3> QED BY <1>2, <2>1, <3>1, AddObserverStarts, StartsDeliveries
  <2> QED BY <1>2, <1>4, <2>1 DEF ObserverCall, RemoveObserver, FreeObserver, Subscribe, Off,
          Shutdown
<1>5. ASSUME UserReturns \/ EndDelivery
      PROVE  Deliveries'
  BY <1>5, ReturnTyped, EndTyped, EndsDeliveries
<1>6. ASSUME NextRemoval
      PROVE  Deliveries'
  <2>1. CASE Top.todo = <<>>
    BY <1>6, <2>1, RemovalDoes, EndsDeliveries
  <2>2. CASE Top.todo # <<>>
    <3>1. PICK g \in RemovalsFrame, d \in DispatchFrame :
            /\ d = Dispatch(Event("Removed", Top.ent, Head(Top.todo)))
            /\ DOMAIN stack' = DOMAIN stack \cup {Len(stack) + 1}
            /\ \A i \in DOMAIN stack : i # Len(stack) => stack'[i] = stack[i]
            /\ stack'[Len(stack)] = g /\ stack'[Len(stack) + 1] = d
      BY <1>6, <2>2, RemovalDoes
    <3>2. DeliveryOK(d) /\ g.kind # "dispatch"
      BY <1>1, <3>1 DEF RemovalsFrame
    <3> QED BY <3>1, <3>2 DEF Deliveries
  <2> QED BY <2>1, <2>2
<1>7. ASSUME Running("dispatch")
      PROVE  Top \in DispatchFrame /\ DeliveryOK(Top)
  BY <1>7, TopDispatch DEF Deliveries, DispatchFrame
<1>8. ASSUME SkipNext
      PROVE  Deliveries'
  <2>1. /\ Top \in DispatchFrame /\ DeliveryOK(Top)
        /\ ~Accepts(Top.snapshot[Top.next].obs, Top.ev)
    BY <1>7, <1>8, AtCallbackFacts DEF SkipNext, AtCallback
  <2>2. PICK g \in DispatchFrame :
           /\ Becomes(g) /\ g.ev = Top.ev /\ g.snapshot = Top.snapshot
           /\ g.next = Top.next + 1 /\ g.evaluate = {} /\ g.due = Top.due /\ g.got = Top.got
    BY <1>8, SkipDoes
  <2>3. DeliveryOK(g)
    BY <2>1, <2>2, SkippedOK
  <2> QED BY <2>2, <2>3, BecomesDeliveries
<1>9. ASSUME DeliverNext \/ DeliverField
      PROVE  Deliveries'
  <2>1. /\ Top \in DispatchFrame /\ DeliveryOK(Top) /\ Top.next \in DOMAIN Top.snapshot
        /\ Accepts(Top.snapshot[Top.next].obs, Top.ev)
    BY <1>7, <1>9, AtCallbackFacts DEF DeliverNext, DeliverField, AtCallback
  <2>2. PICK g \in DispatchFrame :
           /\ Becomes(g) /\ g.ev = Top.ev /\ g.snapshot = Top.snapshot
           /\ g.next = Top.next + 1 /\ g.due = Top.due
           /\ \A o, p \in g.evaluate : o = p
           /\ g.got = Append(Top.got, Top.snapshot[Top.next])
    BY <1>9, DeliverDoes, FieldDoes
  <2>3. DeliveryOK(g)
    BY <2>1, <2>2, CalledOK
  <2> QED BY <2>2, <2>3, BecomesDeliveries
<1>10. ASSUME EvaluateMatch
       PROVE  Deliveries'
  <2>1. DeliveryOK(Top)
    BY <1>7, <1>10 DEF EvaluateMatch
  <2>2. PICK g \in DispatchFrame :
           /\ Becomes(g) /\ g.ev = Top.ev /\ g.snapshot = Top.snapshot /\ g.next = Top.next
           /\ g.evaluate = {} /\ g.due = Top.due /\ g.got = Top.got
    BY <1>10, EvaluateDoes
  <2>3. DeliveryOK(g)
    BY <2>1, <2>2 DEF DeliveryOK, Reached
  <2> QED BY <2>2, <2>3, BecomesDeliveries
<1>11. ASSUME SeedNext
       PROVE  Deliveries'
  <2>1. Ends \/ \E g \in SeedFrame : Becomes(g)
    BY <1>11, SeedDoes
  <2> QED BY <2>1, EndsDeliveries, BecomesDeliveries DEF SeedFrame
<1> QED BY <1>3, <1>4, <1>5, <1>6, <1>8, <1>9, <1>10, <1>11 DEF Next, DeliveryStep

\* When a delivery ends it has called everybody it had to.
LEMMA DeliveryEnds ==
  ASSUME Typed, Deliveries, EndDelivery
  PROVE  /\ ToSet(Top.got) = Top.due
         /\ \A i, j \in DOMAIN Top.got : i < j => Top.got[i].id < Top.got[j].id
<1>1. /\ Top \in DispatchFrame /\ DeliveryOK(Top)
      /\ Top.next > Len(Top.snapshot)
  BY TopDispatch DEF EndDelivery, Deliveries, DispatchFrame, Walked
<1>2. Top.snapshot \in Seq(Callback) /\ Top.next \in Int
  BY <1>1 DEF DispatchFrame
<1>3. \A cb : \A j \in Int : Reached(Top, cb, j) => j < Top.next
  BY <1>1, <1>2 DEF Reached
<1>4. \A cb : cb \in Top.due <=> \E k \in DOMAIN Top.got : Top.got[k] = cb
  BY <1>1, <1>3 DEF DeliveryOK
<1> QED BY <1>1, <1>4 DEF DeliveryOK, Growing, ToSet

(***************************************************************************)
(* What subscriptions have seen.                                           *)
(***************************************************************************)

Told(s, e) == e \in DOMAIN cached[s] /\ cached[s][e] = value[e]

\* A delivery of a write to e has s before it.
Reaches(f, s, e) ==
  /\ f.kind = "dispatch" /\ f.ev.kind = "Changed" /\ f.ev.comp = Watched /\ f.ev.ent = e
  /\ \E j \in DOMAIN f.snapshot : j >= f.next /\ f.snapshot[j].obs = s

Fields ==
  \A s \in FieldSub : Registered(s) =>
    \A e \in written[s] :
      /\ HasIn(tables, e, {Watched})
      /\ Told(s, e) \/ \E i \in DOMAIN stack : Reaches(stack[i], s, e)

KeepsCalls == \A i \in DOMAIN stack : i \in DOMAIN stack' /\ stack'[i] = stack[i]

\* An operation keeps the calls under way.
LEMMA CallKeepsCalls ==
  ASSUME Typed, WorldCall \/ ObserverCall
  PROVE  KeepsCalls
<1>1. ASSUME NEW f, Starts(f)
      PROVE  KeepsCalls
  BY <1>1 DEF Starts, KeepsCalls
<1>2. ASSUME stack' = stack
      PROVE  KeepsCalls
  BY <1>2 DEF KeepsCalls
<1>3. ASSUME WorldCall
      PROVE  KeepsCalls
  BY <1>1, <1>2, <1>3, WorldCallStarts DEF WorldCall, CreateEntity
<1>4. ASSUME ObserverCall
      PROVE  KeepsCalls
  BY <1>1, <1>2, <1>4, AddObserverStarts DEF ObserverCall, RemoveObserver, FreeObserver,
     Subscribe, Off, Shutdown
<1> QED BY <1>3, <1>4

\* Where nothing is written and no entity that was loses the component, what
\* subscriptions have seen or will be told stays.
LEMMA FieldsKept ==
  ASSUME Typed, Fields, KeepsCalls,
         \A s \in FieldSub : Registered(s)' =>
           \/ written'[s] = {}
           \/ /\ Registered(s) /\ written'[s] \subseteq written[s] /\ cached'[s] = cached[s]
              /\ \A e \in written'[s] :
                   /\ value'[e] = value[e]
                   /\ HasIn(tables, e, {Watched}) => HasIn(tables', e, {Watched})
  PROVE  Fields'
<1> SUFFICES ASSUME NEW s \in FieldSub, Registered(s)', NEW e \in written'[s]
             PROVE  /\ HasIn(tables', e, {Watched})
                    /\ Told(s, e)' \/ \E i \in DOMAIN stack' : Reaches(stack'[i], s, e)
  BY DEF Fields
<1>1. /\ Registered(s) /\ e \in written[s] /\ cached'[s] = cached[s]
      /\ value'[e] = value[e]
      /\ HasIn(tables, e, {Watched}) => HasIn(tables', e, {Watched})
  OBVIOUS
<1>2. /\ HasIn(tables, e, {Watched})
      /\ Told(s, e) \/ \E i \in DOMAIN stack : Reaches(stack[i], s, e)
  BY <1>1 DEF Fields
<1>3. Told(s, e) => Told(s, e)'
  BY <1>1 DEF Told
<1>4. ASSUME NEW i \in DOMAIN stack, Reaches(stack[i], s, e)
      PROVE  \E k \in DOMAIN stack' : Reaches(stack'[k], s, e)
  BY <1>4 DEF KeepsCalls
<1> QED BY <1>1, <1>2, <1>3, <1>4

\* A write reaches every subscription that is registered.
LEMMA WriteFields ==
  ASSUME Typed, Fields, NEW e \in Entity, NEW v \in Value, WriteField(e, v)
  PROVE  Fields'
<1> DEFINE f == Dispatch(Event("Changed", e, Watched))
<1>1. Starts(f)
  BY WorldCallStarts
<1>2. /\ UNCHANGED <<tables, callbacks, subId, cached>>
      /\ value' = [value EXCEPT ![e] = v]
      /\ written' = [s \in FieldSub |-> IF subId[s] = 0 THEN {} ELSE written[s] \cup {e}]
      /\ Has(e, {Watched})
  BY DEF WriteField, dispatchVars
<1>3. HasIn(tables, e, {Watched})
  BY <1>2, HasIsHasIn DEF Typed
<1>4. /\ f.kind = "dispatch" /\ f.ev.kind = "Changed" /\ f.ev.comp = Watched /\ f.ev.ent = e
      /\ f.snapshot = callbacks /\ f.next = 1
  BY DEF Dispatch, Event
<1> HIDE DEF f
<1>5. ASSUME NEW s \in FieldSub, Registered(s)
      PROVE  Reaches(f, s, e)
  <2>1. PICK j \in DOMAIN callbacks : callbacks[j].obs = s
    BY <1>5 DEF Registered
  <2>2. j >= 1
    BY DEF Typed
  <2> QED BY <1>4, <2>1, <2>2 DEF Reaches
<1> SUFFICES ASSUME NEW s \in FieldSub, Registered(s)', NEW x \in written'[s]
             PROVE  /\ HasIn(tables', x, {Watched})
                    /\ Told(s, x)' \/ \E i \in DOMAIN stack' : Reaches(stack'[i], s, x)
  BY DEF Fields
<1>6. Registered(s)
  BY <1>2 DEF Registered
<1>7. CASE x = e
  BY <1>1, <1>2, <1>3, <1>5, <1>6, <1>7 DEF Starts
<1>8. CASE x # e
  <2>1. x \in written[s] /\ x \in Entity
    BY <1>2, <1>8 DEF Typed
  <2>2. /\ HasIn(tables, x, {Watched})
        /\ Told(s, x) \/ \E i \in DOMAIN stack : Reaches(stack[i], s, x)
    BY <1>6, <2>1 DEF Fields
  <2>3. Told(s, x) => Told(s, x)'
    <3>1. value'[x] = value[x]
      BY <1>2, <1>8, <2>1 DEF Typed
    <3> QED BY <1>2, <3>1 DEF Told
  <2>4. ASSUME NEW i \in DOMAIN stack, Reaches(stack[i], s, x)
        PROVE  \E k \in DOMAIN stack' : Reaches(stack'[k], s, x)
    BY <1>1, <2>4 DEF Starts
  <2> QED BY <1>2, <2>2, <2>3, <2>4
<1> QED BY <1>7, <1>8

\* A delivery moves on: what it was to tell it tells now, or later.
LEMMA BecomesFields ==
  ASSUME Typed, Fields, NEW g, Becomes(g),
         UNCHANGED <<tables, value, written, callbacks>>,
         \A s \in FieldSub, e \in Entity : Told(s, e) => Told(s, e)',
         \A s \in FieldSub, e \in Entity :
           Registered(s) /\ e \in written[s] /\ Reaches(stack[Len(stack)], s, e)
             => Reaches(g, s, e) \/ Told(s, e)'
  PROVE  Fields'
<1> SUFFICES ASSUME NEW s \in FieldSub, Registered(s)', NEW e \in written'[s]
             PROVE  /\ HasIn(tables', e, {Watched})
                    /\ Told(s, e)' \/ \E i \in DOMAIN stack' : Reaches(stack'[i], s, e)
  BY DEF Fields
<1>1. Registered(s) /\ e \in written[s] /\ e \in Entity
  BY DEF Registered, Typed
<1>2. /\ HasIn(tables, e, {Watched})
      /\ Told(s, e) \/ \E i \in DOMAIN stack : Reaches(stack[i], s, e)
  BY <1>1 DEF Fields
<1>3. ASSUME NEW i \in DOMAIN stack, Reaches(stack[i], s, e)
      PROVE  Told(s, e)' \/ \E k \in DOMAIN stack' : Reaches(stack'[k], s, e)
  <2>1. CASE i = Len(stack)
    BY <1>1, <1>3, <2>1 DEF Becomes
  <2>2. CASE i # Len(stack)
    BY <1>3, <2>2 DEF Becomes
  <2> QED BY <2>1, <2>2
<1>4. HasIn(tables', e, {Watched})
  BY <1>2
<1> QED BY <1>1, <1>2, <1>3, <1>4

\* A call ends that had nothing more to tell.
LEMMA EndsFields ==
  ASSUME Typed, Fields, Ends, UNCHANGED <<tables, value, written, callbacks, cached>>,
         \A s \in FieldSub, e \in Entity : ~Reaches(stack[Len(stack)], s, e)
  PROVE  Fields'
<1> SUFFICES ASSUME NEW s \in FieldSub, Registered(s)', NEW e \in written'[s]
             PROVE  /\ HasIn(tables', e, {Watched})
                    /\ Told(s, e)' \/ \E i \in DOMAIN stack' : Reaches(stack'[i], s, e)
  BY DEF Fields
<1>1. Registered(s) /\ e \in written[s] /\ e \in Entity
  BY DEF Registered, Typed
<1>2. /\ HasIn(tables, e, {Watched})
      /\ Told(s, e) \/ \E i \in DOMAIN stack : Reaches(stack[i], s, e)
  BY <1>1 DEF Fields
<1>3. Told(s, e) => Told(s, e)'
  BY DEF Told
<1>4. ASSUME NEW i \in DOMAIN stack, Reaches(stack[i], s, e)
      PROVE  \E k \in DOMAIN stack' : Reaches(stack'[k], s, e)
  BY <1>1, <1>4 DEF Ends
<1>5. HasIn(tables', e, {Watched})
  BY <1>2
<1> QED BY <1>2, <1>3, <1>4, <1>5

\* Operations write nothing that a subscription is not told of.
LEMMA CallFields ==
  ASSUME Typed, Listed, Fields, WorldCall \/ ObserverCall
  PROVE  Fields'
<1>1. KeepsCalls
  BY CallKeepsCalls
<1>2. ASSUME NEW s \in FieldSub, UNCHANGED callbacks, Registered(s)'
      PROVE  Registered(s)
  BY <1>2 DEF Registered
<1>3. ASSUME NEW e \in Entity, CreateEntity(e)
      PROVE  Fields'
  <2>1. UNCHANGED <<value, callbacks, written, cached>>
    BY <1>3 DEF CreateEntity, dispatchVars, subVars
  <2>2. \A x : HasIn(tables', x, {Watched}) <=> HasIn(tables, x, {Watched})
    BY <1>3, CreateRows
  <2> QED BY <1>1, <1>2, <2>1, <2>2, FieldsKept
<1>4. ASSUME NEW e \in Entity, NEW t \in Comp, AddComponent(e, t) \/ RemoveComponent(e, t)
      PROVE  Fields'
  <2>1. /\ UNCHANGED <<callbacks, cached>>
        /\ IF t = Watched THEN FieldReset(e) ELSE UNCHANGED <<value, written>>
    BY <1>4 DEF AddComponent, RemoveComponent, dispatchVars
  <2>2. /\ \A x : x # e => (HasIn(tables', x, {Watched}) <=> HasIn(tables, x, {Watched}))
        /\ t # Watched => (HasIn(tables', e, {Watched}) <=> HasIn(tables, e, {Watched}))
    BY <1>4, ComponentRows DEF RowMoves
  <2>3. ASSUME NEW s \in FieldSub, NEW x \in written'[s]
        PROVE  /\ x \in written[s] /\ value'[x] = value[x]
               /\ HasIn(tables, x, {Watched}) => HasIn(tables', x, {Watched})
    <3>1. CASE t = Watched
      <4>1. x \in written[s] /\ x # e /\ x \in Entity
        BY <2>1, <2>3, <3>1, FieldResetFacts DEF Typed
      <4> QED BY <2>1, <2>2, <3>1, <4>1, FieldResetFacts
    <3>2. CASE t # Watched
      BY <2>1, <2>2, <2>3, <3>2
    <3> QED BY <3>1, <3>2
  <2>4. \A s \in FieldSub : cached'[s] = cached[s] /\ written'[s] \subseteq written[s]
    BY <2>1, <2>3
  <2> QED BY <1>1, <1>2, <2>1, <2>3, <2>4, FieldsKept
<1>5. ASSUME NEW e \in Entity, DestroyEntity(e)
      PROVE  Fields'
  <2>1. UNCHANGED <<callbacks, cached>> /\ FieldReset(e)
    BY <1>5 DEF DestroyEntity, dispatchVars
  <2>2. \A x : x # e => (HasIn(tables', x, {Watched}) <=> HasIn(tables, x, {Watched}))
    BY <1>5, DestroyRows DEF RowMoves
  <2>3. ASSUME NEW s \in FieldSub, NEW x \in written'[s]
        PROVE  /\ x \in written[s] /\ value'[x] = value[x]
               /\ HasIn(tables, x, {Watched}) => HasIn(tables', x, {Watched})
    <3>1. x \in written[s] /\ x # e /\ x \in Entity
      BY <2>1, <2>3, FieldResetFacts DEF Typed
    <3> QED BY <2>1, <2>2, <3>1, FieldResetFacts
  <2>4. \A s \in FieldSub : cached'[s] = cached[s] /\ written'[s] \subseteq written[s]
    BY <2>1, <2>3
  <2> QED BY <1>1, <1>2, <2>1, <2>3, <2>4, FieldsKept
<1>6. ASSUME Clear \/ Shutdown
      PROVE  Fields'
  <2>1. \A s \in FieldSub : written'[s] = {}
    BY <1>6 DEF Clear, Shutdown, Forget
  <2> QED BY <1>1, <2>1, FieldsKept
<1>7. ASSUME WorldCall
      PROVE  Fields'
  BY <1>3, <1>4, <1>5, <1>6, <1>7, WriteFields DEF WorldCall
<1>8. ASSUME UNCHANGED worldVars,
             \A s \in FieldSub : Registered(s)' =>
               \/ written'[s] = {}
               \/ Registered(s) /\ written'[s] = written[s] /\ cached'[s] = cached[s]
      PROVE  Fields'
  BY <1>1, <1>8, FieldsKept DEF worldVars
<1>9. ASSUME NEW o \in Observer, AddObserver(o)
      PROVE  Fields'
  <2>1. UNCHANGED <<worldVars, written, cached>>
    BY <1>9 DEF AddObserver, subVars
  <2>2. ASSUME NEW s \in FieldSub, Registered(s)'
        PROVE  Registered(s)
    <3>1. PICK i \in DOMAIN callbacks' : callbacks'[i].obs = s
      BY <2>2 DEF Registered
    <3>2. callbacks'[Len(callbacks) + 1].obs = o /\ o # s
      BY <1>9, RegisterFacts, ObserversAssumption DEF AddObserver
    <3>3. i \in DOMAIN callbacks /\ callbacks'[i] = callbacks[i]
      BY <1>9, <3>1, <3>2, RegisterFacts DEF AddObserver
    <3> QED BY <3>1, <3>3 DEF Registered
  <2> QED BY <1>8, <2>1, <2>2
<1>10. ASSUME \A i \in DOMAIN callbacks' : \E j \in DOMAIN callbacks : callbacks[j] = callbacks'[i]
       PROVE  \A s : Registered(s)' => Registered(s)
  BY <1>10 DEF Registered
<1>11. ASSUME NEW o \in Observer, RemoveObserver(o) \/ FreeObserver(o)
       PROVE  Fields'
  <2>1. UNCHANGED <<worldVars, written, cached>>
    BY <1>11 DEF RemoveObserver, FreeObserver, subVars
  <2>2. \A i \in DOMAIN callbacks' : \E j \in DOMAIN callbacks : callbacks[j] = callbacks'[i]
    BY <1>11, UnregisterFacts DEF RemoveObserver, FreeObserver, Listed
  <2> QED BY <1>8, <1>10, <2>1, <2>2
<1>12. ASSUME NEW u \in FieldSub, Subscribe(u)
       PROVE  Fields'
  <2>1. UNCHANGED worldVars /\ nextId \in 0..MaxCalls /\ Forget({u}, nextId)
    BY <1>12, CallCounts DEF Subscribe
  <2>2. \A s \in FieldSub : IF s = u THEN written'[s] = {}
                            ELSE written'[s] = written[s] /\ cached'[s] = cached[s]
    BY <2>1, ForgetFacts
  <2>3. ASSUME NEW s \in FieldSub, s # u, Registered(s)'
        PROVE  Registered(s)
    <3>1. PICK i \in DOMAIN callbacks' : callbacks'[i].obs = s
      BY <2>3 DEF Registered
    <3>2. callbacks'[Len(callbacks) + 1].obs = u
      BY <1>12, RegisterFacts DEF Subscribe
    <3>3. i \in DOMAIN callbacks /\ callbacks'[i] = callbacks[i]
      BY <1>12, <2>3, <3>1, <3>2, RegisterFacts DEF Subscribe
    <3> QED BY <3>1, <3>3 DEF Registered
  <2> QED BY <1>8, <2>1, <2>2, <2>3
<1>13. ASSUME NEW u \in FieldSub, Off(u)
       PROVE  Fields'
  <2>1. UNCHANGED worldVars /\ Forget({u}, 0)
    BY <1>13 DEF Off
  <2>2. \A s \in FieldSub : IF s = u THEN written'[s] = {}
                            ELSE written'[s] = written[s] /\ cached'[s] = cached[s]
    BY <1>13, <2>1, ForgetFacts, CallCounts DEF Off
  <2>3. \A i \in DOMAIN callbacks' : \E j \in DOMAIN callbacks : callbacks[j] = callbacks'[i]
    BY <1>13, WithoutFacts DEF Off, Typed, Listed
  <2> QED BY <1>8, <1>10, <2>1, <2>2, <2>3
<1>14. ASSUME ObserverCall
       PROVE  Fields'
  BY <1>6, <1>9, <1>11, <1>12, <1>13, <1>14 DEF ObserverCall
<1> QED BY <1>7, <1>14

\* A subscription that is on the list hears of a write to an entity: it has
\* seen the value then.
LEMMA FieldDelivered ==
  ASSUME Typed, Listed, Fields, DeliverField, NEW s \in FieldSub, NEW x \in Entity,
         Told(s, x) \/ (s = Callee /\ x = Top.ev.ent /\ Registered(s) /\ x \in written[s])
  PROVE  Told(s, x)'
<1>1. PICK c, e : c = Callee /\ e = Top.ev.ent
  OBVIOUS
<1> DEFINE Tells == /\ subId[c] # 0
                    /\ Has(e, {Watched})
                    /\ ~(e \in DOMAIN cached[c] /\ cached[c][e] = value[e])
<1>2. /\ c \in FieldSub /\ value' = value
      /\ IF Tells THEN cached' = [cached EXCEPT ![c] = Remember(c, e)] ELSE cached' = cached
  BY <1>1 DEF DeliverField, worldVars
<1>3. cached \in [FieldSub -> Memory]
  BY DEF Typed
<1>4. CASE Tells
  <2>1. e \in Entity
    BY <1>4, HasIsEntity
  <2>2. PICK m : m = Remember(c, e)
    OBVIOUS
  <2>3. /\ e \in DOMAIN m /\ m[e] = value[e]
        /\ \A y \in DOMAIN cached[c] : y \in DOMAIN m /\ (y # e => m[y] = cached[c][y])
    BY <1>2, <2>1, <2>2, RememberFacts
  <2>4. cached'[c] = m /\ (s # c => cached'[s] = cached[s])
    BY <1>2, <1>3, <1>4, <2>2
  <2>5. CASE s = c /\ x = e
    BY <1>2, <2>3, <2>4, <2>5 DEF Told
  <2>6. CASE s # c
    BY <1>1, <1>2, <2>4, <2>6 DEF Told
  <2>7. CASE s = c /\ x # e
    BY <1>1, <1>2, <2>3, <2>4, <2>7 DEF Told
  <2> QED BY <2>5, <2>6, <2>7
<1>5. CASE ~Tells
  <2>1. cached' = cached /\ value' = value
    BY <1>2, <1>5
  <2>2. ASSUME s = c, x = e, Registered(s), x \in written[s]
        PROVE  Told(s, x)
    <3>1. PICK i \in DOMAIN callbacks : callbacks[i].obs = s
      BY <2>2 DEF Registered
    <3>2. subId[c] = callbacks[i].id
      BY <2>2, <3>1 DEF Listed, Owned
    <3>3. subId[c] # 0
      BY <3>2, CallbackFacts
    <3>4. Has(e, {Watched})
      BY <2>2, HasIsHasIn DEF Fields, Typed
    <3> QED BY <1>5, <2>2, <3>3, <3>4 DEF Told
  <2>3. Told(s, x)
    BY <1>1, <2>2
  <2> QED BY <2>1, <2>3 DEF Told
<1> QED BY <1>4, <1>5

\* Delivery tells every subscription it comes to.
LEMMA DeliveryFields ==
  ASSUME Typed, Listed, Fields, DeliveryStep
  PROVE  Fields'
<1>1. ASSUME NEW g \in DispatchFrame, AtCallback, g.ev = Top.ev, g.snapshot = Top.snapshot,
             g.next = Top.next + 1, NEW s \in FieldSub, NEW e \in Entity,
             Reaches(stack[Len(stack)], s, e), Callee = s => ~Accepts(s, Top.ev)
      PROVE  Reaches(g, s, e)
  <2>1. Top = stack[Len(stack)] /\ Top \in DispatchFrame /\ Callee = Top.snapshot[Top.next].obs
    BY <1>1, AtCallbackFacts
  <2>2. PICK j \in DOMAIN Top.snapshot : j >= Top.next /\ Top.snapshot[j].obs = s
    BY <1>1, <2>1 DEF Reaches
  <2>3. Accepts(s, Top.ev)
    BY <1>1, <2>1 DEF Reaches, Accepts
  <2>4. j # Top.next
    BY <1>1, <2>1, <2>2, <2>3
  <2>5. Top.snapshot \in Seq(Callback) /\ Top.next \in Nat
    BY <2>1 DEF DispatchFrame
  <2>6. j >= g.next
    BY <1>1, <2>2, <2>4, <2>5
  <2>7. g.kind = "dispatch"
    BY DEF DispatchFrame
  <2> QED BY <1>1, <2>1, <2>2, <2>6, <2>7 DEF Reaches
<1>2. ASSUME UNCHANGED <<value, cached>>
      PROVE  \A s \in FieldSub, e \in Entity : Told(s, e) => Told(s, e)'
  BY <1>2 DEF Told
<1>3. ASSUME SkipNext
      PROVE  Fields'
  <2>1. PICK g \in DispatchFrame :
          Becomes(g) /\ g.ev = Top.ev /\ g.snapshot = Top.snapshot /\ g.next = Top.next + 1
    BY <1>3, SkipDoes
  <2>2. /\ AtCallback /\ ~Accepts(Callee, Top.ev)
        /\ UNCHANGED <<tables, value, written, callbacks, cached>>
    BY <1>3 DEF SkipNext, worldVars, dispatchVars, subVars
  <2>3. \A s \in FieldSub, e \in Entity : Reaches(stack[Len(stack)], s, e) => Reaches(g, s, e)
    BY <1>1, <2>1, <2>2
  <2> QED BY <1>2, <2>1, <2>2, <2>3, BecomesFields
<1>4. ASSUME DeliverNext
      PROVE  Fields'
  <2>1. PICK g \in DispatchFrame :
          Becomes(g) /\ g.ev = Top.ev /\ g.snapshot = Top.snapshot /\ g.next = Top.next + 1
    BY <1>4, DeliverDoes
  <2>2. /\ AtCallback /\ Callee \in Observer
        /\ UNCHANGED <<tables, value, written, callbacks, cached>>
    BY <1>4 DEF DeliverNext, worldVars, dispatchVars, subVars
  <2>3. \A s \in FieldSub : s # Callee
    BY <2>2, ObserversAssumption
  <2>4. \A s \in FieldSub, e \in Entity : Reaches(stack[Len(stack)], s, e) => Reaches(g, s, e)
    BY <1>1, <2>1, <2>2, <2>3
  <2> QED BY <1>2, <2>1, <2>2, <2>4, BecomesFields
<1>5. ASSUME DeliverField
      PROVE  Fields'
  <2>1. PICK g \in DispatchFrame :
          Becomes(g) /\ g.ev = Top.ev /\ g.snapshot = Top.snapshot /\ g.next = Top.next + 1
    BY <1>5, FieldDoes
  <2>2. AtCallback /\ UNCHANGED <<tables, value, written, callbacks>>
    BY <1>5 DEF DeliverField, worldVars, dispatchVars
  <2>3. \A s \in FieldSub, e \in Entity : Told(s, e) => Told(s, e)'
    BY <1>5, FieldDelivered
  <2>4. ASSUME NEW s \in FieldSub, NEW e \in Entity, Registered(s), e \in written[s],
               Reaches(stack[Len(stack)], s, e)
        PROVE  Reaches(g, s, e) \/ Told(s, e)'
    <3>1. CASE s # Callee
      BY <1>1, <2>1, <2>2, <2>4, <3>1
    <3>2. CASE s = Callee
      <4>1. e = Top.ev.ent
        BY <2>2, <2>4, AtCallbackFacts DEF Reaches
      <4> QED BY <1>5, <2>4, <3>2, <4>1, FieldDelivered
    <3> QED BY <3>1, <3>2
  <2> QED BY <2>1, <2>2, <2>3, <2>4, BecomesFields
<1>6. ASSUME EvaluateMatch
      PROVE  Fields'
  <2>1. PICK g \in DispatchFrame :
          Becomes(g) /\ g.ev = Top.ev /\ g.snapshot = Top.snapshot /\ g.next = Top.next
    BY <1>6, EvaluateDoes
  <2>2. /\ Top = stack[Len(stack)]
        /\ UNCHANGED <<tables, value, written, callbacks, cached>>
    BY <1>6, TopDispatch DEF EvaluateMatch, worldVars, dispatchVars, subVars
  <2>3. g.kind = "dispatch"
    BY <2>1 DEF DispatchFrame
  <2>4. \A s \in FieldSub, e \in Entity : Reaches(stack[Len(stack)], s, e) => Reaches(g, s, e)
    BY <2>1, <2>2, <2>3 DEF Reaches
  <2> QED BY <1>2, <2>1, <2>2, <2>4, BecomesFields
<1>7. ASSUME SeedNext
      PROVE  Fields'
  <2>1. /\ Top = stack[Len(stack)] /\ Top \in SeedFrame
        /\ Ends \/ \E g \in SeedFrame : Becomes(g)
    BY <1>7, SeedDoes
  <2>2. UNCHANGED <<tables, value, written, callbacks, cached>>
    BY <1>7 DEF SeedNext, worldVars, dispatchVars, subVars
  <2>3. \A s \in FieldSub, e \in Entity : ~Reaches(stack[Len(stack)], s, e)
    BY <2>1 DEF Reaches, SeedFrame
  <2> QED BY <1>2, <2>1, <2>2, <2>3, BecomesFields, EndsFields
<1>8. ASSUME NextRemoval
      PROVE  Fields'
  <2>1. UNCHANGED <<tables, value, written, callbacks, cached>>
    BY <1>8 DEF NextRemoval, worldVars, dispatchVars, subVars
  <2>2. Top = stack[Len(stack)] /\ Top \in RemovalsFrame
    BY <1>8, RemovalDoes
  <2>3. \A s \in FieldSub, e \in Entity : ~Reaches(stack[Len(stack)], s, e)
    BY <2>2 DEF Reaches, RemovalsFrame
  <2>4. CASE Top.todo = <<>>
    BY <1>8, <2>1, <2>3, <2>4, RemovalDoes, EndsFields
  <2>5. CASE Top.todo # <<>>
    <3>1. /\ DOMAIN stack' = DOMAIN stack \cup {Len(stack) + 1}
          /\ \A i \in DOMAIN stack : i # Len(stack) => stack'[i] = stack[i]
      BY <1>8, <2>5, RemovalDoes
    <3>2. \A s \in FieldSub, e \in Entity : \A i \in DOMAIN stack :
            Reaches(stack[i], s, e) => i \in DOMAIN stack' /\ Reaches(stack'[i], s, e)
      BY <2>3, <3>1
    <3>3. \A s \in FieldSub : Registered(s)' <=> Registered(s)
      BY <2>1 DEF Registered
    <3>4. \A s \in FieldSub : written[s] \subseteq Entity
      BY DEF Typed
    <3> QED BY <2>1, <3>2, <3>3, <3>4 DEF Fields, Told
  <2> QED BY <2>4, <2>5
<1>9. ASSUME UserReturns \/ EndDelivery
      PROVE  Fields'
  <2>1. Ends /\ stack[Len(stack)] \in Frame
    BY <1>9, ReturnTyped, EndTyped DEF Frame
  <2>2. UNCHANGED <<tables, value, written, callbacks, cached>>
    BY <1>9 DEF UserReturns, EndDelivery, worldVars, dispatchVars, subVars
  <2>3. CASE UserReturns
    <3>1. \A s \in FieldSub, e \in Entity : ~Reaches(stack[Len(stack)], s, e)
      BY <2>3, ReturnTyped DEF Reaches, UserFrame
    <3> QED BY <2>1, <2>2, <3>1, EndsFields
  <2>4. CASE EndDelivery
    <3>1. Top = stack[Len(stack)] /\ Top \in DispatchFrame /\ Top.next > Len(Top.snapshot)
      BY <2>4, TopDispatch DEF EndDelivery, Walked
    <3>2. \A j \in DOMAIN Top.snapshot : ~(j >= Top.next)
      BY <3>1 DEF DispatchFrame
    <3>3. \A s \in FieldSub, e \in Entity : ~Reaches(stack[Len(stack)], s, e)
      BY <3>1, <3>2 DEF Reaches
    <3> QED BY <2>1, <2>2, <3>3, EndsFields
  <2> QED BY <1>9, <2>3, <2>4
<1> QED BY <1>3, <1>4, <1>5, <1>6, <1>7, <1>8, <1>9 DEF DeliveryStep

\* Every step keeps what subscriptions have seen or will be told.
LEMMA FieldsStep ==
  ASSUME Typed, Listed, Fields, Next
  PROVE  Fields'
BY CallFields, DeliveryFields DEF Next

(***************************************************************************)
(* What observers know of the entities that match.                         *)
(***************************************************************************)

\* A seeding walks archetypes that match.
SeedOK(f) == f.kind = "seed" => \A k \in DOMAIN f.todo : Match[f.obs] \subseteq f.todo[k]

Seedings == \A i \in DOMAIN stack : SeedOK(stack[i])

\* Every step keeps that.
LEMMA SeedingsStep ==
  ASSUME Typed, Seedings, Next
  PROVE  Seedings'
<1>1. ASSUME NEW f, Starts(f), SeedOK(f)
      PROVE  Seedings'
  BY <1>1 DEF Starts, Seedings
<1>2. ASSUME stack' = stack
      PROVE  Seedings'
  BY <1>2 DEF Seedings
<1>3. ASSUME NEW f \in Frame, f.kind # "seed"
      PROVE  SeedOK(f)
  BY <1>3 DEF SeedOK
<1>4. ASSUME Ends
      PROVE  Seedings'
  BY <1>4 DEF Ends, Seedings
<1>5. ASSUME NEW g, Becomes(g), SeedOK(g)
      PROVE  Seedings'
  <2> SUFFICES ASSUME NEW i \in DOMAIN stack'
               PROVE  SeedOK(stack'[i])
    BY DEF Seedings
  <2>1. CASE i = Len(stack)
    BY <1>5, <2>1 DEF Becomes
  <2>2. CASE i # Len(stack) /\ i \in DOMAIN stack
    BY <1>5, <2>2 DEF Becomes, Seedings
  <2>3. CASE i \notin DOMAIN stack
    BY <1>5, <2>3 DEF Becomes, UserFrame, SeedOK
  <2> QED BY <2>1, <2>2, <2>3
<1>6. ASSUME NEW g \in DispatchFrame, Becomes(g)
      PROVE  Seedings'
  BY <1>5, <1>6 DEF SeedOK, DispatchFrame
<1>7. ASSUME WorldCall
      PROVE  Seedings'
  <2>1. ASSUME NEW ev, Starts(Dispatch(ev))
        PROVE  Seedings'
    <3>1. Dispatch(ev).kind # "seed"
      BY DEF Dispatch
    <3> QED BY <1>1, <2>1, <3>1 DEF SeedOK
  <2>2. ASSUME NEW e, NEW q, Starts(Removals(e, q))
        PROVE  Seedings'
    <3>1. Removals(e, q).kind # "seed"
      BY DEF Removals
    <3> QED BY <1>1, <2>2, <3>1 DEF SeedOK
  <2> QED BY <1>2, <1>7, <2>1, <2>2, WorldCallStarts DEF WorldCall, CreateEntity
<1>8. ASSUME ObserverCall
      PROVE  Seedings'
  <2>1. ASSUME NEW o \in Observer, AddObserver(o)
        PROVE  Seedings'
    <3>1. SeedOK(Seeding(o))
      BY SeedingIsFrame DEF SeedOK
    <3> QED BY <1>1, <1>2, <2>1, <3>1, AddObserverStarts
  <2> QED BY <1>2, <1>8, <2>1 DEF ObserverCall, RemoveObserver, FreeObserver, Subscribe, Off,
          Shutdown
<1>9. ASSUME NextRemoval
      PROVE  Seedings'
  <2>1. CASE Top.todo = <<>>
    BY <1>4, <1>9, <2>1, RemovalDoes
  <2>2. CASE Top.todo # <<>>
    <3>1. PICK g \in RemovalsFrame, d \in DispatchFrame :
            /\ DOMAIN stack' = DOMAIN stack \cup {Len(stack) + 1}
            /\ \A i \in DOMAIN stack : i # Len(stack) => stack'[i] = stack[i]
            /\ stack'[Len(stack)] = g /\ stack'[Len(stack) + 1] = d
      BY <1>9, <2>2, RemovalDoes
    <3>2. SeedOK(g) /\ SeedOK(d)
      BY DEF SeedOK, RemovalsFrame, DispatchFrame
    <3> QED BY <3>1, <3>2 DEF Seedings
  <2> QED BY <2>1, <2>2
<1>10. ASSUME SeedNext
       PROVE  Seedings'
  <2>1. Top \in SeedFrame /\ SeedOK(Top)
    BY <1>10, SeedDoes DEF Seedings
  <2>2. \A k \in DOMAIN Top.todo : Match[Top.obs] \subseteq Top.todo[k]
    BY <2>1 DEF SeedOK, SeedFrame
  <2>3. CASE Ends
    BY <1>4, <2>3
  <2>4. ASSUME NEW g \in SeedFrame, Becomes(g), g.obs = Top.obs, g.todo = Top.todo
        PROVE  Seedings'
    BY <1>5, <2>2, <2>4 DEF SeedOK
  <2>5. ASSUME NEW g \in SeedFrame, Becomes(g), g.obs = Top.obs, g.todo = Tail(Top.todo),
               Top.todo # <<>>
        PROVE  Seedings'
    <3>1. Top.todo \in Seq(SUBSET Comp)
      BY <2>1 DEF SeedFrame
    <3>2. \A k \in DOMAIN g.todo : k + 1 \in DOMAIN Top.todo /\ g.todo[k] = Top.todo[k + 1]
      BY <2>5, <3>1
    <3> QED BY <1>5, <2>2, <2>5, <3>2 DEF SeedOK
  <2> QED BY <1>10, <2>3, <2>4, <2>5, SeedDoes
<1>11. ASSUME UserReturns \/ EndDelivery
       PROVE  Seedings'
  BY <1>4, <1>11, ReturnTyped, EndTyped
<1>12. ASSUME SkipNext \/ DeliverNext \/ DeliverField \/ EvaluateMatch
       PROVE  Seedings'
  BY <1>6, <1>12, SkipDoes, DeliverDoes, FieldDoes, EvaluateDoes
<1> QED BY <1>7, <1>8, <1>9, <1>10, <1>11, <1>12 DEF Next, DeliveryStep

Follows(o) == Tracks(o) /\ Hears(o)

Agrees(o, x) == x \in membership[o] <=> HasIn(tables, x, Match[o])

\* A delivery will evaluate x for o.
Comes(o, x, f) ==
  /\ f.kind = "dispatch" /\ f.ev.kind \in {"Added", "Removed"} /\ f.ev.ent = x
  /\ \/ o \in f.evaluate
     \/ /\ Accepts(o, f.ev)
        /\ \E j \in DOMAIN f.snapshot : j >= f.next /\ f.snapshot[j].obs = o

\* x has been destroyed, and an event that o follows is still to be fired.
Goes(o, x, f) ==
  /\ f.kind = "removals" /\ f.ent = x
  /\ \E k \in DOMAIN f.todo : f.todo[k] \in Match[o]

\* The seeding of o has the row of x before it.
Ahead(o, x, f) ==
  /\ f.kind = "seed" /\ f.obs = o
  /\ \E k \in DOMAIN f.todo : \E i \in DOMAIN tables[f.todo[k]] :
       tables[f.todo[k]][i] = x /\ (k = 1 => i >= f.row)

Awaits(o, x, f) == Comes(o, x, f) \/ Goes(o, x, f) \/ Ahead(o, x, f)

Expected(o, x) == \E i \in DOMAIN stack : Awaits(o, x, stack[i])

\* o is right about x, or will be put right, or could not hear of it.
Fine(o, x) == x \in missed[o] \/ Agrees(o, x) \/ Expected(o, x)

Members == \A o \in Observer, x \in Entity : Follows(o) => Fine(o, x)

\* What a call awaits under which rows stay where they are.
LEMMA AwaitsKept ==
  ASSUME Typed, NEW o \in Observer, NEW x \in Entity, NEW f \in Frame, Awaits(o, x, f),
         f.kind = "seed" /\ f.obs = o => RowsStay(tables', missed'[o])
  PROVE  x \in missed'[o] \/ Awaits(o, x, f)'
<1>1. CASE Comes(o, x, f) \/ Goes(o, x, f)
  BY <1>1 DEF Awaits, Comes, Goes
<1>2. CASE Ahead(o, x, f)
  <2>1. f \in SeedFrame /\ f.obs = o /\ f.kind = "seed"
    BY <1>2, FrameKinds DEF Ahead
  <2>2. PICK k \in DOMAIN f.todo : \E i \in DOMAIN tables[f.todo[k]] :
               tables[f.todo[k]][i] = x /\ (k = 1 => i >= f.row)
    BY <1>2 DEF Ahead
  <2>3. PICK i \in DOMAIN tables[f.todo[k]] :
               tables[f.todo[k]][i] = x /\ (k = 1 => i >= f.row)
    BY <2>2
  <2>4. f.todo[k] \in SUBSET Comp
    BY <2>1 DEF SeedFrame
  <2>5. RowsStay(tables', missed'[o])
    BY <2>1
  <2>6. \/ x \in missed'[o]
        \/ i \in DOMAIN tables'[f.todo[k]] /\ tables'[f.todo[k]][i] = x
    BY <2>3, <2>4, <2>5 DEF RowsStay
  <2>7. x \in missed'[o] \/ Ahead(o, x, f)'
    BY <2>1, <2>3, <2>6 DEF Ahead
  <2> QED BY <2>7 DEF Awaits
<1> QED BY <1>1, <1>2 DEF Awaits

\* Calls under way still await what they did.
LEMMA ExpectedKept ==
  ASSUME Typed, KeepsCalls, NEW o \in Observer, NEW x \in Entity, Expected(o, x),
         IsSeeding(o) => RowsStay(tables', missed'[o])
  PROVE  x \in missed'[o] \/ Expected(o, x)'
<1>1. PICK i \in DOMAIN stack : Awaits(o, x, stack[i])
  BY DEF Expected
<1>2. PICK f : f = stack[i]
  OBVIOUS
<1>3. f \in Frame /\ Awaits(o, x, f)
  BY <1>1, <1>2 DEF Typed
<1>4. f.kind = "seed" /\ f.obs = o => RowsStay(tables', missed'[o])
  BY <1>2 DEF IsSeeding
<1>5. x \in missed'[o] \/ Awaits(o, x, f)'
  BY <1>3, <1>4, AwaitsKept
<1>6. i \in DOMAIN stack' /\ stack'[i] = f
  BY <1>2 DEF KeepsCalls
<1> QED BY <1>5, <1>6 DEF Expected

\* Where the rows of an entity stay, what an observer knows of it does.
LEMMA FineKept ==
  ASSUME Typed, KeepsCalls, NEW o \in Observer, NEW x \in Entity, Fine(o, x),
         membership'[o] = membership[o], missed[o] \subseteq missed'[o],
         IsSeeding(o) => RowsStay(tables', missed'[o]),
         Agrees(o, x) => (HasIn(tables', x, Match[o]) <=> HasIn(tables, x, Match[o]))
  PROVE  Fine(o, x)'
<1>1. Agrees(o, x) => Agrees(o, x)'
  BY DEF Agrees
<1> QED BY <1>1, ExpectedKept DEF Fine

\* An operation that moves or destroys an entity keeps what is known of the
\* others.
LEMMA OthersFine ==
  ASSUME Typed, KeepsCalls, NEW e \in Entity, RowMoves(e), UNCHANGED membership,
         NEW o \in Observer, NEW x \in Entity, Fine(o, x),
         x # e \/ (HasIn(tables', x, Match[o]) <=> HasIn(tables, x, Match[o]))
  PROVE  Fine(o, x)'
<1>1. HasIn(tables', x, Match[o]) <=> HasIn(tables, x, Match[o])
  BY DEF RowMoves
<1>2. missed[o] \subseteq missed'[o] /\ (IsSeeding(o) => RowsStay(tables', missed'[o]))
  BY DEF RowMoves
<1> QED BY <1>1, <1>2, FineKept

\* Observers that follow are on the list.
LEMMA FollowsHears ==
  ASSUME NEW o \in Observer, UNCHANGED <<callbacks, linked>>
  PROVE  Follows(o)' <=> Follows(o)
BY DEF Follows, Hears, Registered, Tracks

\* An event that o follows comes to it, if it is on the list.
LEMMA EventComes ==
  ASSUME Typed, NEW o \in Observer, Tracks(o), Registered(o), NEW x \in Entity,
         NEW t \in Match[o], NEW k \in {"Added", "Removed"}
  PROVE  Comes(o, x, Dispatch(Event(k, x, t)))
<1> DEFINE ev == Event(k, x, t)
<1>1. ev.kind = k /\ ev.ent = x /\ ev.comp = t
  BY DEF Event
<1>2. o \notin FieldSub
  BY ObserversAssumption
<1>3. Accepts(o, ev)
  BY <1>1, <1>2 DEF Accepts, Tracks
<1>4. PICK j \in DOMAIN callbacks : callbacks[j].obs = o
  BY DEF Registered
<1>5. j >= 1
  BY DEF Typed
<1>6. PICK f : f = Dispatch(ev)
  OBVIOUS
<1>7. f.kind = "dispatch" /\ f.ev = ev /\ f.snapshot = callbacks /\ f.next = 1
  BY <1>6 DEF Dispatch
<1> HIDE DEF ev
<1>8. Comes(o, x, f)
  BY <1>1, <1>3, <1>4, <1>5, <1>7 DEF Comes
<1> QED BY <1>6, <1>8 DEF ev

\* Operations on the world: an entity that matches, or no longer does, is
\* followed by an event.
LEMMA WorldCallMembers ==
  ASSUME Typed, Members, WorldCall
  PROVE  Members'
<1>1. KeepsCalls
  BY CallKeepsCalls
<1>2. UNCHANGED <<callbacks, linked, membership>>
  BY DEF WorldCall, CreateEntity, DestroyEntity, AddComponent, RemoveComponent, WriteField,
     Clear, dispatchVars, observerVars
<1> SUFFICES ASSUME NEW o \in Observer, NEW x \in Entity, Follows(o)'
             PROVE  Fine(o, x)'
  BY DEF Members
<1>3. /\ Follows(o) /\ Fine(o, x) /\ membership'[o] = membership[o]
      /\ Tracks(o) /\ Hears(o) /\ Registered(o) /\ Match[o] # {} /\ Match[o] \subseteq Comp
  BY <1>2, FollowsHears, ObserversAssumption DEF Members, Follows, Hears, Tracks
<1>4. ASSUME NEW f, Starts(f), Comes(o, x, f) \/ Goes(o, x, f)
      PROVE  Fine(o, x)'
  <2>1. Awaits(o, x, f)'
    BY <1>4 DEF Awaits, Comes, Goes
  <2>2. Len(stack) + 1 \in DOMAIN stack' /\ stack'[Len(stack) + 1] = f
    BY <1>4 DEF Starts
  <2> QED BY <2>1, <2>2 DEF Fine, Expected
<1>5. ASSUME NEW e \in Entity, CreateEntity(e)
      PROVE  Fine(o, x)'
  <2>1. /\ HasIn(tables', x, Match[o]) <=> HasIn(tables, x, Match[o])
        /\ RowsStay(tables', missed'[o])
    BY <1>3, <1>5, CreateRows DEF RowsStay
  <2>2. missed' = missed
    BY <1>5 DEF CreateEntity
  <2> QED BY <1>1, <1>3, <2>1, <2>2, FineKept
<1>6. ASSUME NEW e \in Entity, NEW t \in Comp, NEW k \in {"Added", "Removed"},
             AddComponent(e, t) \/ RemoveComponent(e, t),
             Starts(Dispatch(Event(k, e, t)))
      PROVE  Fine(o, x)'
  <2>1. RowMoves(e) /\ \A T : t \notin T => (HasIn(tables', e, T) <=> HasIn(tables, e, T))
    BY <1>6, ComponentRows
  <2>2. CASE x = e /\ t \in Match[o]
    BY <1>3, <1>4, <1>6, <2>2, EventComes
  <2>3. CASE x # e \/ t \notin Match[o]
    BY <1>1, <1>2, <1>3, <2>1, <2>3, OthersFine
  <2> QED BY <2>2, <2>3
<1>7. ASSUME NEW e \in Entity, DestroyEntity(e)
      PROVE  Fine(o, x)'
  <2>1. /\ RowMoves(e) /\ ~HasIn(tables', e, Match[o])
        /\ HasIn(tables, e, Match[o]) <=> Match[o] \subseteq TableOf(e)
        /\ TableOf(e) \in SUBSET Comp
    BY <1>7, DestroyRows
  <2>2. CASE x = e /\ Match[o] \subseteq TableOf(e)
    <3>1. PICK t : t \in Match[o]
      BY <1>3
    <3>2. PICK f : f = Removals(e, SetToSeq(TableOf(e)))
      OBVIOUS
    <3>3. f.kind = "removals" /\ f.ent = e /\ f.todo = SetToSeq(TableOf(e))
      BY <3>2 DEF Removals
    <3>4. \E k \in DOMAIN f.todo : f.todo[k] = t
      BY <2>1, <2>2, <3>1, <3>3, RemovalsIsFrame
    <3>5. Goes(o, x, f)
      BY <2>2, <3>1, <3>3, <3>4 DEF Goes
    <3> QED BY <1>4, <1>7, <3>2, <3>5, WorldCallStarts
  <2>3. CASE x # e \/ ~(Match[o] \subseteq TableOf(e))
    BY <1>1, <1>2, <1>3, <2>1, <2>3, OthersFine
  <2> QED BY <2>2, <2>3
<1>8. ASSUME NEW e \in Entity, NEW v \in Value, WriteField(e, v)
      PROVE  Fine(o, x)'
  <2>1. UNCHANGED <<tables, missed>>
    BY <1>8 DEF WriteField
  <2>2. RowsStay(tables', missed'[o])
    BY <2>1 DEF RowsStay
  <2> QED BY <1>1, <1>3, <2>1, <2>2, FineKept
<1>9. ASSUME Clear
      PROVE  Fine(o, x)'
  <2>1. /\ ~HasIn(tables', x, Match[o])
        /\ missed[o] \subseteq missed'[o] /\ \A y : HasIn(tables, y, {}) => y \in missed'[o]
    BY <1>9, ClearRows
  <2>2. \A A \in SUBSET Comp : \A i \in DOMAIN tables[A] : tables[A][i] \in missed'[o]
    BY <2>1 DEF HasIn
  <2>3. RowsStay(tables', missed'[o])
    BY <2>2 DEF RowsStay
  <2>4. CASE HasIn(tables, x, Match[o])
    <3>1. HasIn(tables, x, {})
      BY <2>4 DEF HasIn
    <3> QED BY <2>1, <3>1 DEF Fine
  <2>5. CASE ~HasIn(tables, x, Match[o])
    BY <1>1, <1>3, <2>1, <2>3, <2>5, FineKept
  <2> QED BY <2>4, <2>5
<1> QED BY <1>5, <1>6, <1>7, <1>8, <1>9, WorldCallStarts DEF WorldCall

\* add_observer(): what the observer knew is checked against nothing, and its
\* seeding has every entity that matches before it.
LEMMA AddObserverFine ==
  ASSUME Typed, NEW o \in Observer, AddObserver(o), Tracks(o), NEW x \in Entity
  PROVE  Fine(o, x)'
<1>1. /\ UNCHANGED <<tables, membership>>
      /\ missed'[o] = membership[o] \ Matching(o)
  BY DEF AddObserver, worldVars, Typed
<1>2. x \in Matching(o) <=> HasIn(tables, x, Match[o])
  BY HasIsHasIn DEF Matching, Typed
<1>3. CASE x \in membership[o] \/ ~HasIn(tables, x, Match[o])
  <2>1. x \in missed'[o] \/ Agrees(o, x)'
    BY <1>1, <1>2, <1>3 DEF Agrees
  <2> QED BY <2>1 DEF Fine
<1>4. CASE HasIn(tables, x, Match[o])
  <2>1. PICK f : f = Seeding(o)
    OBVIOUS
  <2>2. Starts(f)
    BY <2>1, AddObserverStarts DEF Tracks
  <2>3. PICK A \in SUBSET Comp :
          Match[o] \subseteq A /\ \E i \in DOMAIN tables[A] : tables[A][i] = x
    BY <1>4 DEF HasIn
  <2>4. PICK i \in DOMAIN tables[A] : tables[A][i] = x
    BY <2>3
  <2>5. f.obs = o /\ f.row = 1 /\ f.kind = "seed"
    BY <2>1, SeedingIsFrame DEF SeedFrame
  <2>6. PICK k \in DOMAIN f.todo : f.todo[k] = A
    BY <2>1, <2>3, SeedingIsFrame
  <2>7. i >= 1
    BY <2>4 DEF Typed, TablesOK
  <2>8. Ahead(o, x, f)'
    BY <1>1, <2>4, <2>5, <2>6, <2>7 DEF Ahead
  <2> QED BY <2>2, <2>8 DEF Fine, Expected, Awaits, Starts
<1> QED BY <1>3, <1>4

\* Observers come and go: those that stay know what they knew.
LEMMA ObserverCallMembers ==
  ASSUME Typed, Listed, Members, ObserverCall
  PROVE  Members'
<1>1. KeepsCalls
  BY CallKeepsCalls
<1>2. /\ UNCHANGED <<tables, membership>>
  BY DEF ObserverCall, AddObserver, RemoveObserver, FreeObserver, Subscribe, Off, Shutdown,
     worldVars, observerVars
<1> SUFFICES ASSUME NEW o \in Observer, NEW x \in Entity, Follows(o)'
             PROVE  Fine(o, x)'
  BY DEF Members
<1>3. ASSUME linked' \subseteq linked, Registered(o)' => Registered(o),
             missed[o] \subseteq missed'[o]
      PROVE  Fine(o, x)'
  <2>1. Fine(o, x)
    BY <1>3 DEF Members, Follows, Tracks, Hears
  <2>2. RowsStay(tables', missed'[o])
    BY <1>2 DEF RowsStay
  <2> QED BY <1>1, <1>2, <1>3, <2>1, <2>2, FineKept
<1>4. ASSUME NEW p \in Observer, AddObserver(p)
      PROVE  Fine(o, x)'
  <2>1. CASE p = o
    BY <1>4, <2>1, AddObserverFine DEF Follows, Tracks
  <2>2. CASE p # o
    <3>1. linked' = linked \cup {p} /\ missed'[o] = missed[o]
      BY <1>4, <2>2 DEF AddObserver, Typed
    <3>2. Registered(o)
      <4>1. PICK i \in DOMAIN callbacks' : callbacks'[i].obs = o
        BY DEF Follows, Hears, Registered
      <4>2. i \in DOMAIN callbacks /\ callbacks'[i] = callbacks[i]
        BY <1>4, <2>2, <4>1, RegisterFacts DEF AddObserver
      <4> QED BY <4>1, <4>2 DEF Registered
    <3>3. Fine(o, x)
      BY <2>2, <3>1, <3>2 DEF Members, Follows, Tracks, Hears
    <3>4. RowsStay(tables', missed'[o])
      BY <1>2 DEF RowsStay
    <3> QED BY <1>1, <1>2, <3>1, <3>3, <3>4, FineKept
  <2> QED BY <2>1, <2>2
<1>5. ASSUME \A i \in DOMAIN callbacks' : \E j \in DOMAIN callbacks : callbacks[j] = callbacks'[i]
      PROVE  Registered(o)' => Registered(o)
  BY <1>5 DEF Registered
<1>6. ASSUME NEW p \in Observer, RemoveObserver(p) \/ FreeObserver(p)
      PROVE  Fine(o, x)'
  <2>1. CASE Unregister(p)
    <3>1. linked' \subseteq linked /\ missed[o] \subseteq missed'[o]
      BY <2>1, UnregisterFacts DEF Listed
    <3>2. \A i \in DOMAIN callbacks' : \E j \in DOMAIN callbacks : callbacks[j] = callbacks'[i]
      BY <2>1, UnregisterFacts DEF Listed
    <3> QED BY <1>3, <1>5, <3>1, <3>2
  <2>2. CASE UNCHANGED <<callbacks, linked, missed>>
    BY <1>3, <1>5, <2>2
  <2> QED BY <1>6, <2>1, <2>2 DEF RemoveObserver, FreeObserver
<1>7. ASSUME NEW s \in FieldSub, Subscribe(s)
      PROVE  Fine(o, x)'
  <2>1. UNCHANGED <<linked, missed>>
    BY <1>7 DEF Subscribe, observerVars
  <2>2. ASSUME Registered(o)'
        PROVE  Registered(o)
    <3>1. PICK i \in DOMAIN callbacks' : callbacks'[i].obs = o
      BY <2>2 DEF Registered
    <3>2. i \in DOMAIN callbacks /\ callbacks'[i] = callbacks[i]
      BY <1>7, <3>1, RegisterFacts, ObserversAssumption DEF Subscribe
    <3> QED BY <3>1, <3>2 DEF Registered
  <2> QED BY <1>3, <2>1, <2>2
<1>8. ASSUME NEW s \in FieldSub, Off(s)
      PROVE  Fine(o, x)'
  <2>1. UNCHANGED <<linked, missed>>
    BY <1>8 DEF Off, observerVars
  <2>2. \A i \in DOMAIN callbacks' : \E j \in DOMAIN callbacks : callbacks[j] = callbacks'[i]
    BY <1>8, WithoutFacts DEF Off, Typed, Listed
  <2> QED BY <1>3, <1>5, <2>1, <2>2
<1>9. ASSUME Shutdown
      PROVE  Fine(o, x)'
  <2>1. linked' = linked /\ callbacks' = <<>> /\ missed[o] \subseteq missed'[o]
    BY <1>9, NoteDeafFacts DEF Shutdown, observerVars
  <2> QED BY <1>3, <1>5, <2>1
<1> QED BY <1>4, <1>6, <1>7, <1>8, <1>9 DEF ObserverCall

\* A delivery, a destruction or a seeding moves on: what it was to put right is
\* right, or is still awaited.
LEMMA MovesOnFine ==
  ASSUME Typed, NEW o \in Observer, NEW x \in Entity, Fine(o, x), UNCHANGED tables,
         x \in missed[o] \/ Agrees(o, x) => x \in missed'[o] \/ Agrees(o, x)',
         \A i \in DOMAIN stack : i # Len(stack) => i \in DOMAIN stack' /\ stack'[i] = stack[i],
         Awaits(o, x, stack[Len(stack)]) => Fine(o, x)'
  PROVE  Fine(o, x)'
<1>1. \A f : Awaits(o, x, f) => Awaits(o, x, f)'
  BY DEF Awaits, Comes, Goes, Ahead
<1>2. ASSUME NEW i \in DOMAIN stack, Awaits(o, x, stack[i])
      PROVE  Fine(o, x)'
  <2>1. CASE i = Len(stack)
    BY <1>2, <2>1
  <2>2. CASE i # Len(stack)
    <3>1. i \in DOMAIN stack' /\ stack'[i] = stack[i]
      BY <2>2
    <3>2. Awaits(o, x, stack[i])'
      <4>1. PICK f : f = stack[i]
        OBVIOUS
      <4>2. Awaits(o, x, f)'
        BY <1>1, <1>2, <4>1
      <4> QED BY <3>1, <4>1, <4>2
    <3> QED BY <3>1, <3>2 DEF Fine, Expected
  <2> QED BY <2>1, <2>2
<1> QED BY <1>2 DEF Fine, Expected

\* A delivery that goes past a callback has evaluated, or will evaluate, the
\* observer if that was the one.
LEMMA PassedComes ==
  ASSUME Typed, AtCallback, NEW o \in Observer, NEW x, Awaits(o, x, stack[Len(stack)]),
         NEW g \in DispatchFrame, g.ev = Top.ev, g.snapshot = Top.snapshot,
         g.next = Top.next + 1,
         Callee = o /\ Accepts(o, Top.ev) /\ Top.ev.kind \in {"Added", "Removed"}
           => o \in g.evaluate
  PROVE  Comes(o, x, g)
<1>1. /\ Top = stack[Len(stack)] /\ Top \in DispatchFrame /\ Top.evaluate = {}
      /\ Callee = Top.snapshot[Top.next].obs
  BY AtCallbackFacts
<1>2. Comes(o, x, Top)
  BY <1>1 DEF Awaits, Goes, Ahead, DispatchFrame
<1>3. Accepts(o, Top.ev)
  BY <1>1, <1>2 DEF Comes
<1>4. PICK j \in DOMAIN Top.snapshot : j >= Top.next /\ Top.snapshot[j].obs = o
  BY <1>1, <1>2 DEF Comes
<1>5. Top.snapshot \in Seq(Callback) /\ Top.next \in Nat /\ g.kind = "dispatch"
  BY <1>1 DEF DispatchFrame
<1>6. CASE j = Top.next
  BY <1>1, <1>2, <1>3, <1>4, <1>5, <1>6 DEF Comes
<1>7. CASE j # Top.next
  <2>1. j >= g.next
    BY <1>4, <1>5, <1>7
  <2> QED BY <1>2, <1>3, <1>4, <1>5, <2>1 DEF Comes
<1> QED BY <1>6, <1>7

\* evaluate_match() puts the observer right about the entity.
LEMMA EvaluateFine ==
  ASSUME Typed, Deliveries, EvaluateMatch, NEW o \in Observer, Follows(o),
         NEW x \in Entity, Fine(o, x)
  PROVE  Fine(o, x)'
<1>1. PICK p \in Top.evaluate, g \in DispatchFrame :
        /\ Becomes(g) /\ g.ev = Top.ev /\ g.snapshot = Top.snapshot /\ g.next = Top.next
        /\ IF p \in linked /\ Match[p] # {}
           THEN /\ membership' = [membership EXCEPT ![p] = Reevaluated(p, Top.ev.ent)]
                /\ missed' = [missed EXCEPT ![p] = @ \ {Top.ev.ent}]
           ELSE UNCHANGED <<membership, missed>>
  BY EvaluateDoes
<1>2. /\ Top = stack[Len(stack)] /\ Top \in DispatchFrame /\ UNCHANGED tables
      /\ Len(stack) \in DOMAIN stack
  BY TopDispatch DEF EvaluateMatch, worldVars
<1>3. \A q \in Top.evaluate : p = q
  BY <1>1, <1>2 DEF Deliveries, DeliveryOK, DispatchFrame
<1>4. /\ o \in linked /\ Match[o] # {}
      /\ membership \in [Observer -> SUBSET Entity] /\ missed \in [Observer -> SUBSET Entity]
  BY DEF Follows, Hears, Tracks, Typed
<1>5. PICK e : e = Top.ev.ent
  OBVIOUS
<1>6. Has(e, Match[o]) <=> HasIn(tables, e, Match[o])
  BY HasIsHasIn DEF Typed
<1>7. CASE p = o /\ x = e
  <2>1. x \in membership'[o] <=> HasIn(tables, x, Match[o])
    BY <1>1, <1>4, <1>5, <1>6, <1>7 DEF Reevaluated
  <2> QED BY <1>2, <2>1 DEF Fine, Agrees
<1>8. CASE p # o \/ x # e
  <2>1. /\ x \in missed'[o] <=> x \in missed[o]
        /\ x \in membership'[o] <=> x \in membership[o]
    <3>1. CASE p # o
      BY <1>1, <1>4, <3>1
    <3>2. CASE p = o /\ x # e
      BY <1>1, <1>4, <1>5, <3>2 DEF Reevaluated
    <3> QED BY <1>8, <3>1, <3>2
  <2>2. x \in missed[o] \/ Agrees(o, x) => x \in missed'[o] \/ Agrees(o, x)'
    BY <1>2, <2>1 DEF Agrees
  <2>3. \A i \in DOMAIN stack : i # Len(stack) => i \in DOMAIN stack' /\ stack'[i] = stack[i]
    BY <1>1 DEF Becomes
  <2>4. ASSUME Awaits(o, x, Top)
        PROVE  Fine(o, x)'
    <3>1. Comes(o, x, Top)
      BY <1>2, <2>4 DEF Awaits, Goes, Ahead, DispatchFrame
    <3>2. o \notin Top.evaluate
      BY <1>3, <1>5, <1>8, <3>1 DEF Comes
    <3>3. g.kind = "dispatch"
      BY DEF DispatchFrame
    <3>4. Comes(o, x, g)
      BY <1>1, <3>1, <3>2, <3>3 DEF Comes
    <3>5. Awaits(o, x, g)'
      BY <3>4 DEF Awaits, Comes
    <3> QED BY <1>1, <3>5 DEF Fine, Expected, Becomes
  <2> QED BY <1>2, <2>2, <2>3, <2>4, MovesOnFine
<1> QED BY <1>7, <1>8

\* The seeding adds whom it comes to, and everybody after that is ahead still.
LEMMA SeedFine ==
  ASSUME Typed, Seedings, SeedNext, NEW o \in Observer, NEW x \in Entity, Fine(o, x)
  PROVE  Fine(o, x)'
<1>1. /\ Len(stack) \in DOMAIN stack /\ Top = stack[Len(stack)] /\ Top \in SeedFrame
      /\ UNCHANGED tables
  BY SeedDoes DEF SeedNext, worldVars
<1>2. PICK q : q = Top.todo
  OBVIOUS
<1>3. q \in Seq(SUBSET Comp) /\ Top.row \in Nat \ {0}
  BY <1>1, <1>2 DEF SeedFrame
<1>4. ASSUME Awaits(o, x, Top)
      PROVE  /\ Top.obs = o
             /\ \E k \in DOMAIN q : \E i \in DOMAIN tables[q[k]] :
                  tables[q[k]][i] = x /\ (k = 1 => i >= Top.row)
  BY <1>1, <1>2, <1>4 DEF Awaits, Comes, Goes, Ahead, SeedFrame
<1>5. CASE q = <<>> /\ Ends /\ UNCHANGED <<membership, missed>>
  <2>1. ~Awaits(o, x, Top)
    BY <1>4, <1>5
  <2>2. \A i \in DOMAIN stack : i # Len(stack) => i \in DOMAIN stack' /\ stack'[i] = stack[i]
    BY <1>5 DEF Ends
  <2>3. x \in missed[o] \/ Agrees(o, x) => x \in missed'[o] \/ Agrees(o, x)'
    BY <1>1, <1>5 DEF Agrees
  <2> QED BY <1>1, <2>1, <2>2, <2>3, MovesOnFine
<1>6. CASE /\ q # <<>> /\ Top.row > Len(tables[Head(q)])
           /\ UNCHANGED <<membership, missed>>
           /\ \E g \in SeedFrame : Becomes(g) /\ g.obs = Top.obs /\ g.row = 1 /\ g.todo = Tail(q)
  <2>1. PICK g \in SeedFrame : Becomes(g) /\ g.obs = Top.obs /\ g.row = 1 /\ g.todo = Tail(q)
    BY <1>6
  <2>2. \A i \in DOMAIN stack : i # Len(stack) => i \in DOMAIN stack' /\ stack'[i] = stack[i]
    BY <2>1 DEF Becomes
  <2>3. x \in missed[o] \/ Agrees(o, x) => x \in missed'[o] \/ Agrees(o, x)'
    BY <1>1, <1>6 DEF Agrees
  <2>4. ASSUME Awaits(o, x, Top)
        PROVE  Fine(o, x)'
    <3>1. PICK k \in DOMAIN q : \E i \in DOMAIN tables[q[k]] :
                 tables[q[k]][i] = x /\ (k = 1 => i >= Top.row)
      BY <1>4, <2>4
    <3>2. PICK i \in DOMAIN tables[q[k]] : tables[q[k]][i] = x /\ (k = 1 => i >= Top.row)
      BY <3>1
    <3>3. tables[q[k]] \in Seq(Entity)
      BY <1>3 DEF Typed, TablesOK
    <3>4. k # 1
      <4>1. ASSUME k = 1
            PROVE  FALSE
        <5>1. q[k] = Head(q)
          BY <1>3, <1>6, <4>1
        <5>2. i <= Len(tables[q[k]]) /\ i \in Nat /\ Len(tables[q[k]]) \in Nat
          BY <3>2, <3>3
        <5> QED BY <1>3, <1>6, <3>2, <4>1, <5>1, <5>2
      <4> QED BY <4>1
    <3>5. k - 1 \in DOMAIN g.todo /\ g.todo[k - 1] = q[k]
      BY <1>3, <1>6, <2>1, <3>1, <3>4
    <3>6. i >= 1
      BY <3>2, <3>3
    <3>7. g.kind = "seed" /\ g.obs = o
      BY <1>4, <2>1, <2>4 DEF SeedFrame
    <3>8. Ahead(o, x, g)'
      BY <1>1, <2>1, <3>2, <3>5, <3>6, <3>7 DEF Ahead
    <3> QED BY <2>1, <3>8 DEF Fine, Expected, Becomes, Awaits
  <2> QED BY <1>1, <2>2, <2>3, <2>4, MovesOnFine
<1>7. CASE /\ q # <<>> /\ Top.row \in DOMAIN tables[Head(q)]
           /\ LET e == tables[Head(q)][Top.row]
              IN /\ membership' = [membership EXCEPT ![Top.obs] = @ \cup {e}]
                 /\ missed' = [missed EXCEPT ![Top.obs] = @ \ {e}]
           /\ \E g \in SeedFrame :
                Becomes(g) /\ g.obs = Top.obs /\ g.row = Top.row + 1 /\ g.todo = q
  <2>1. PICK g \in SeedFrame :
          Becomes(g) /\ g.obs = Top.obs /\ g.row = Top.row + 1 /\ g.todo = q
    BY <1>7
  <2>2. PICK A, e : A = Head(q) /\ e = tables[A][Top.row]
    OBVIOUS
  <2>3. /\ membership' = [membership EXCEPT ![Top.obs] = @ \cup {e}]
        /\ missed' = [missed EXCEPT ![Top.obs] = @ \ {e}]
        /\ Top.row \in DOMAIN tables[A]
    BY <1>7, <2>2
  <2>4. membership \in [Observer -> SUBSET Entity] /\ missed \in [Observer -> SUBSET Entity]
    BY DEF Typed
  <2>5. 1 \in DOMAIN q /\ A = q[1] /\ A \in SUBSET Comp
    BY <1>3, <1>7, <2>2
  <2>6. Match[Top.obs] \subseteq A
    BY <1>1, <1>2, <2>5 DEF Seedings, SeedOK, SeedFrame
  <2>7. \A i \in DOMAIN stack : i # Len(stack) => i \in DOMAIN stack' /\ stack'[i] = stack[i]
    BY <2>1 DEF Becomes
  <2>8. CASE Top.obs = o /\ x = e
    <3>1. HasIn(tables, x, Match[o])
      BY <2>2, <2>3, <2>5, <2>6, <2>8 DEF HasIn
    <3>2. x \in membership'[o]
      BY <2>3, <2>4, <2>8
    <3> QED BY <1>1, <3>1, <3>2 DEF Fine, Agrees
  <2>9. CASE Top.obs # o \/ x # e
    <3>1. /\ x \in missed'[o] <=> x \in missed[o]
          /\ x \in membership'[o] <=> x \in membership[o]
      <4>1. CASE Top.obs # o
        BY <2>3, <2>4, <4>1
      <4>2. CASE Top.obs = o /\ x # e
        BY <2>3, <2>4, <4>2
      <4> QED BY <2>9, <4>1, <4>2
    <3>2. x \in missed[o] \/ Agrees(o, x) => x \in missed'[o] \/ Agrees(o, x)'
      BY <1>1, <3>1 DEF Agrees
    <3>3. ASSUME Awaits(o, x, Top)
          PROVE  Fine(o, x)'
      <4>1. PICK k \in DOMAIN q : \E i \in DOMAIN tables[q[k]] :
                   tables[q[k]][i] = x /\ (k = 1 => i >= Top.row)
        BY <1>4, <3>3
      <4>2. PICK i \in DOMAIN tables[q[k]] : tables[q[k]][i] = x /\ (k = 1 => i >= Top.row)
        BY <4>1
      <4>3. tables[q[k]] \in Seq(Entity)
        BY <1>3 DEF Typed, TablesOK
      <4>4. k = 1 => i # Top.row
        BY <1>4, <2>2, <2>5, <2>9, <3>3, <4>2
      <4>5. k = 1 => i >= g.row
        BY <1>3, <2>1, <4>2, <4>3, <4>4
      <4>6. g.kind = "seed" /\ g.obs = o
        BY <1>4, <2>1, <3>3 DEF SeedFrame
      <4>7. Ahead(o, x, g)'
        BY <1>1, <2>1, <4>1, <4>2, <4>5, <4>6 DEF Ahead
      <4> QED BY <2>1, <4>7 DEF Fine, Expected, Becomes, Awaits
    <3> QED BY <1>1, <2>7, <3>2, <3>3, MovesOnFine
  <2> QED BY <2>8, <2>9
<1> QED BY <1>2, <1>5, <1>6, <1>7, SeedDoes

\* The next event of an entity that is gone, or the end of them.
LEMMA RemovalFine ==
  ASSUME Typed, NextRemoval, NEW o \in Observer, Follows(o), NEW x \in Entity, Fine(o, x)
  PROVE  Fine(o, x)'
<1>1. /\ Len(stack) \in DOMAIN stack /\ Top = stack[Len(stack)] /\ Top \in RemovalsFrame
      /\ UNCHANGED <<tables, membership, missed>>
  BY RemovalDoes DEF NextRemoval, worldVars, observerVars
<1>2. x \in missed[o] \/ Agrees(o, x) => x \in missed'[o] \/ Agrees(o, x)'
  BY <1>1 DEF Agrees
<1>3. PICK q : q = Top.todo
  OBVIOUS
<1>4. q \in Seq(Comp)
  BY <1>1, <1>3 DEF RemovalsFrame
<1>5. ASSUME Awaits(o, x, Top)
      PROVE  Top.ent = x /\ \E k \in DOMAIN q : q[k] \in Match[o]
  BY <1>1, <1>3, <1>5 DEF Awaits, Comes, Goes, Ahead, RemovalsFrame
<1>6. CASE q = <<>>
  <2>1. \A i \in DOMAIN stack : i # Len(stack) => i \in DOMAIN stack' /\ stack'[i] = stack[i]
    BY <1>3, <1>6, RemovalDoes DEF Ends
  <2>2. ~Awaits(o, x, Top)
    BY <1>5, <1>6
  <2> QED BY <1>1, <1>2, <2>1, <2>2, MovesOnFine
<1>7. CASE q # <<>>
  <2>1. PICK g \in RemovalsFrame, d \in DispatchFrame :
          /\ g.ent = Top.ent /\ g.todo = Tail(q)
          /\ d = Dispatch(Event("Removed", Top.ent, Head(q)))
          /\ DOMAIN stack' = DOMAIN stack \cup {Len(stack) + 1}
          /\ \A i \in DOMAIN stack : i # Len(stack) => stack'[i] = stack[i]
          /\ stack'[Len(stack)] = g /\ stack'[Len(stack) + 1] = d
    BY <1>3, <1>7, RemovalDoes
  <2>2. ASSUME Awaits(o, x, Top)
        PROVE  Fine(o, x)'
    <3>1. PICK k \in DOMAIN q : q[k] \in Match[o]
      BY <1>5, <2>2
    <3>2. CASE k = 1
      <4>1. Head(q) \in Match[o] /\ Top.ent = x
        BY <1>4, <1>5, <1>7, <2>2, <3>1, <3>2
      <4>2. Comes(o, x, d)
        BY <2>1, <4>1, EventComes DEF Follows, Hears
      <4>3. Awaits(o, x, d)'
        BY <4>2 DEF Awaits, Comes
      <4> QED BY <2>1, <4>3 DEF Fine, Expected
    <3>3. CASE k # 1
      <4>1. k - 1 \in DOMAIN g.todo /\ g.todo[k - 1] = q[k]
        BY <1>4, <1>7, <2>1, <3>1, <3>3
      <4>2. g.kind = "removals" /\ g.ent = x
        BY <1>5, <2>1, <2>2 DEF RemovalsFrame
      <4>3. Goes(o, x, g)
        BY <3>1, <4>1, <4>2 DEF Goes
      <4>4. Awaits(o, x, g)'
        BY <4>3 DEF Awaits, Goes
      <4> QED BY <1>1, <2>1, <4>4 DEF Fine, Expected
    <3> QED BY <3>2, <3>3
  <2>3. \A i \in DOMAIN stack : i # Len(stack) => i \in DOMAIN stack' /\ stack'[i] = stack[i]
    BY <2>1
  <2> QED BY <1>1, <1>2, <2>2, <2>3, MovesOnFine
<1> QED BY <1>6, <1>7

\* A delivery that goes to the next callback.
LEMMA PassFine ==
  ASSUME Typed, SkipNext \/ DeliverNext \/ DeliverField, NEW o \in Observer, Follows(o),
         NEW x \in Entity, Fine(o, x)
  PROVE  Fine(o, x)'
<1>1. /\ Len(stack) \in DOMAIN stack /\ AtCallback
      /\ UNCHANGED <<tables, membership, missed>>
  BY AtCallbackFacts DEF SkipNext, DeliverNext, DeliverField, worldVars, observerVars
<1>2. x \in missed[o] \/ Agrees(o, x) => x \in missed'[o] \/ Agrees(o, x)'
  BY <1>1 DEF Agrees
<1>3. ASSUME NEW g \in DispatchFrame, Becomes(g), g.ev = Top.ev, g.snapshot = Top.snapshot,
             g.next = Top.next + 1,
             Callee = o /\ Accepts(o, Top.ev) /\ Top.ev.kind \in {"Added", "Removed"}
               => o \in g.evaluate
      PROVE  Fine(o, x)'
  <2>1. ASSUME Awaits(o, x, stack[Len(stack)])
        PROVE  Fine(o, x)'
    <3>1. Comes(o, x, g)
      BY <1>1, <1>3, <2>1, PassedComes
    <3>2. Awaits(o, x, g)'
      BY <3>1 DEF Awaits, Comes
    <3> QED BY <1>3, <3>2 DEF Fine, Expected, Becomes
  <2>2. \A i \in DOMAIN stack : i # Len(stack) => i \in DOMAIN stack' /\ stack'[i] = stack[i]
    BY <1>3 DEF Becomes
  <2> QED BY <1>1, <1>2, <2>1, <2>2, MovesOnFine
<1>4. CASE SkipNext
  <2>1. PICK g \in DispatchFrame :
          Becomes(g) /\ g.ev = Top.ev /\ g.snapshot = Top.snapshot /\ g.next = Top.next + 1
    BY <1>4, SkipDoes
  <2>2. ~Accepts(Callee, Top.ev)
    BY <1>4 DEF SkipNext
  <2> QED BY <1>3, <2>1, <2>2
<1>5. CASE DeliverNext
  <2>1. PICK g \in DispatchFrame :
          /\ Becomes(g) /\ g.ev = Top.ev /\ g.snapshot = Top.snapshot /\ g.next = Top.next + 1
          /\ g.evaluate = IF Top.ev.kind \in {"Added", "Removed"} /\ HasMatchEvents(Callee)
                          THEN {Callee} ELSE {}
    BY <1>5, DeliverDoes
  <2>2. HasMatchEvents(o)
    BY DEF Follows, Tracks
  <2> QED BY <1>3, <2>1, <2>2
<1>6. CASE DeliverField
  <2>1. PICK g \in DispatchFrame :
          Becomes(g) /\ g.ev = Top.ev /\ g.snapshot = Top.snapshot /\ g.next = Top.next + 1
    BY <1>6, FieldDoes
  <2>2. Callee # o
    BY <1>6, ObserversAssumption DEF DeliverField
  <2> QED BY <1>3, <2>1, <2>2
<1> QED BY <1>4, <1>5, <1>6

\* A call that ends had nothing more to put right.
LEMMA EndFine ==
  ASSUME Typed, UserReturns \/ EndDelivery, NEW o \in Observer, NEW x \in Entity, Fine(o, x)
  PROVE  Fine(o, x)'
<1>1. Ends /\ stack # <<>> /\ UNCHANGED <<tables, membership, missed>>
  BY ReturnTyped, EndTyped DEF UserReturns, EndDelivery, worldVars, observerVars
<1>2. x \in missed[o] \/ Agrees(o, x) => x \in missed'[o] \/ Agrees(o, x)'
  BY <1>1 DEF Agrees
<1>3. \A i \in DOMAIN stack : i # Len(stack) => i \in DOMAIN stack' /\ stack'[i] = stack[i]
  BY <1>1 DEF Ends
<1>4. ~Awaits(o, x, stack[Len(stack)])
  <2>1. CASE UserReturns
    BY <2>1, ReturnTyped DEF Awaits, Comes, Goes, Ahead, UserFrame
  <2>2. CASE EndDelivery
    <3>1. /\ Top = stack[Len(stack)] /\ Top \in DispatchFrame
          /\ Top.evaluate = {} /\ Top.next > Len(Top.snapshot)
      BY <2>2, TopDispatch DEF EndDelivery, Walked
    <3>2. \A j \in DOMAIN Top.snapshot : ~(j >= Top.next)
      BY <3>1 DEF DispatchFrame
    <3> QED BY <3>1, <3>2 DEF Awaits, Comes, Goes, Ahead, DispatchFrame
  <2> QED BY <2>1, <2>2
<1> QED BY <1>1, <1>2, <1>3, <1>4, MovesOnFine

\* Every step keeps what observers know, or will be told, of who matches.
LEMMA MembersStep ==
  ASSUME Typed, Listed, Deliveries, Seedings, Members, Next
  PROVE  Members'
<1>1. CASE WorldCall
  BY <1>1, WorldCallMembers
<1>2. CASE ObserverCall
  BY <1>2, ObserverCallMembers
<1>3. CASE DeliveryStep
  <2>1. UNCHANGED <<callbacks, linked>>
    BY <1>3 DEF DeliveryStep, UserReturns, NextRemoval, SeedNext, SkipNext, DeliverNext,
       DeliverField, EvaluateMatch, EndDelivery, dispatchVars, observerVars
  <2> SUFFICES ASSUME NEW o \in Observer, NEW x \in Entity, Follows(o)'
               PROVE  Fine(o, x)'
    BY DEF Members
  <2>2. Follows(o) /\ Fine(o, x)
    BY <2>1, FollowsHears DEF Members
  <2> QED BY <1>3, <2>2, EndFine, RemovalFine, SeedFine, PassFine, EvaluateFine
          DEF DeliveryStep
<1> QED BY <1>1, <1>2, <1>3 DEF Next

(***************************************************************************)
(* The invariant, and what it says.                                        *)
(***************************************************************************)

ObserversInv == Typed /\ Listed /\ Deliveries /\ Fields /\ Seedings /\ Members

\* The invariant holds in a world without observers.
LEMMA InitInv ==
  ASSUME Init
  PROVE  ObserversInv
<1>1. stack = <<>> /\ callbacks = <<>> /\ linked = {}
  BY DEF Init
<1>2. TablesOK(tables)
  <2>1. /\ tables \in [SUBSET Comp -> BoundedSeq(Entity, Cardinality(Entity))]
        /\ \A A, B \in SUBSET Comp : \A i \in DOMAIN tables[A], j \in DOMAIN tables[B] :
             tables[A][i] = tables[B][j] => A = B /\ i = j
    BY DEF Init, InitialTables
  <2>2. BoundedSeq(Entity, Cardinality(Entity)) \subseteq Seq(Entity)
    BY DEF BoundedSeq, SeqOf
  <2>3. tables \in [SUBSET Comp -> Seq(Entity)]
    BY <2>1, <2>2
  <2> QED BY <2>1, <2>3 DEF TablesOK
<1>3. cached \in [FieldSub -> Memory]
  <2>1. <<>> \in [{} -> Value]
    OBVIOUS
  <2>2. [{} -> Value] \subseteq Memory
    BY DEF Memory
  <2> QED BY <2>1, <2>2 DEF Init
<1>4. /\ value \in [Entity -> Value] /\ subId \in [FieldSub -> 0..MaxCalls]
      /\ observerId \in [Observer -> 0..MaxCalls] /\ calls \in 0..MaxCalls
      /\ nextId \in 1..calls + 1
  BY ObserversAssumption DEF Init, FirstId
<1>5. Typed
  BY <1>1, <1>2, <1>3, <1>4 DEF Typed, Init
<1>6. \A o : ~Registered(o)
  BY <1>1 DEF Registered
<1> QED BY <1>1, <1>5, <1>6 DEF ObserversInv, Listed, Growing, Deliveries, Fields, Seedings,
        Members, Follows, Hears

\* Every step keeps it.
LEMMA NextInv ==
  ASSUME ObserversInv, [Next]_vars
  PROVE  ObserversInv'
<1>1. CASE Next
  BY <1>1, TypedStep, ListedStep, DeliveriesStep, FieldsStep, SeedingsStep, MembersStep
     DEF ObserversInv
<1>2. CASE UNCHANGED vars
  <2>1. /\ UNCHANGED <<tables, value, callbacks, nextId, observerId, linked, freed, again>>
        /\ UNCHANGED <<membership, made, subId, cached, written, stack, calls, missed>>
    BY <1>2 DEF vars, worldVars, dispatchVars, observerVars, subVars
  <2>2. Typed'
    BY <2>1 DEF ObserversInv, Typed
  <2>3. Listed' /\ Deliveries' /\ Seedings'
    BY <2>1 DEF ObserversInv, Listed, Owned, Deliveries, Seedings
  <2>4. Fields'
    BY <2>1 DEF ObserversInv, Fields, Registered, Told
  <2>5. Members'
    <3>1. \A o, x : Fine(o, x) => Fine(o, x)'
      BY <2>1 DEF Fine, Agrees, Expected, Awaits, Comes, Goes, Ahead
    <3> QED BY <2>1, <3>1, FollowsHears DEF ObserversInv, Members
  <2> QED BY <2>2, <2>3, <2>4, <2>5 DEF ObserversInv
<1> QED BY <1>1, <1>2

\* The invariant: types, agreement of the list with its owners, and of every
\* call under way what it has done and has still to do.
THEOREM ObserversInvariant == Spec => []ObserversInv
<1>1. Init => ObserversInv
  BY InitInv
<1>2. ObserversInv /\ [Next]_vars => ObserversInv'
  BY NextInv
<1> QED BY <1>1, <1>2, PTL DEF Spec

\* Ids, memberships and memories of subscriptions stay of their types, whatever
\* callbacks call.
THEOREM ObserversTypeOK == Spec => []TypeOK
<1>1. ObserversInv => TypeOK
  <2> SUFFICES ASSUME ObserversInv
               PROVE  TypeOK
    OBVIOUS
  <2>1. Typed
    BY DEF ObserversInv
  <2>2. nextId \in 1..MaxCalls + 1
    BY <2>1, ObserversAssumption DEF Typed
  <2>3. tables \in [SUBSET Comp -> Seq(Entity)]
    BY <2>1 DEF Typed, TablesOK
  <2>4. ASSUME NEW s \in FieldSub
        PROVE  DOMAIN cached[s] \subseteq Entity /\ Range(cached[s]) \subseteq Value
    <3>1. PICK S \in SUBSET Entity : cached[s] \in [S -> Value]
      BY <2>1 DEF Typed, Memory
    <3> QED BY <3>1 DEF Range
  <2>5. \A f \in Frame : f.kind \in {"user", "dispatch", "removals", "seed"}
    BY DEF Frame, UserFrame, SeedFrame, RemovalsFrame, DispatchFrame
  <2>6. \A i \in DOMAIN stack : stack[i] \in Frame
    BY <2>1 DEF Typed
  <2> QED BY <2>1, <2>2, <2>3, <2>4, <2>5, <2>6 DEF TypeOK, Typed
<1> QED BY <1>1, ObserversInvariant, PTL

\* An observer that is gone is not on the list for events to come, unless it was
\* added while it was there: the claim of free() (vecs_world.h:106) for every
\* number of observers, calls and restarts of the ids.
THEOREM FreedStaysOffTheList == Spec => []FreedNotRegistered
<1>1. ObserversInv => FreedNotRegistered
  BY ObserversAssumption DEF ObserversInv, Listed, Owned, FreedNotRegistered, Typed
<1> QED BY <1>1, ObserversInvariant, PTL

\* A delivery has called whom it had to, once and in order, when it ends.
THEOREM DeliveriesReachAll == Spec => EachCalledOnce
<1>1. ObserversInv /\ [Next]_vars =>
        [EndDelivery =>
           /\ ToSet(Top.got) = Top.due
           /\ \A i, j \in DOMAIN Top.got : i < j => Top.got[i].id < Top.got[j].id]_vars
  BY DeliveryEnds DEF ObserversInv
<1> QED BY <1>1, ObserversInvariant, PTL DEF Spec, EachCalledOnce

\* When all calls have returned, a subscription has seen the value that the field
\* of an entity written under it has.
THEOREM SubscriptionsUpToDate == Spec => []FieldSubsUpToDate
<1>1. ObserversInv => FieldSubsUpToDate
  BY DEF ObserversInv, Fields, Told, FieldSubsUpToDate
<1> QED BY <1>1, ObserversInvariant, PTL

\* When all calls have returned, an observer that follows knows exactly who
\* matches, but for the entities it could not hear of.
THEOREM MembershipStaysTrue == Spec => []MembershipFollowsWorld
<1>1. ObserversInv => MembershipFollowsWorld
  <2> SUFFICES ASSUME ObserversInv, stack = <<>>, NEW o \in Observer, Tracks(o), Hears(o)
               PROVE  membership[o] \ missed[o] = Matching(o) \ missed[o]
    BY DEF MembershipFollowsWorld
  <2>1. \A x \in Entity : x \in missed[o] \/ Agrees(o, x)
    BY DEF ObserversInv, Members, Follows, Fine, Expected
  <2>2. \A x \in Entity : Has(x, Match[o]) <=> HasIn(tables, x, Match[o])
    BY HasIsHasIn DEF ObserversInv, Typed
  <2>3. membership[o] \subseteq Entity
    BY DEF ObserversInv, Typed
  <2> QED BY <2>1, <2>2, <2>3 DEF Agrees, Matching
<1> QED BY <1>1, ObserversInvariant, PTL
=============================================================================

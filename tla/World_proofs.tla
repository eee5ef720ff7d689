----------------------------- MODULE World_proofs -----------------------------
(***************************************************************************)
(* Locations, rows and archetypes agree whatever rows a removal moves, no  *)
(* row moves under a walk, and World implements EntityStore, for every     *)
(* number of slots, generations, component types and values.               *)
(***************************************************************************)
EXTENDS World, SequenceTheorems, FiniteSetTheorems, TLAPS

Allocator == INSTANCE EntityIds_proofs WITH live <- Alive

(***************************************************************************)
(* The inductive invariant.                                                *)
(***************************************************************************)

DataType(A) == [A -> Val]
RowType(A) == [ent : Ids!Entity, data : DataType(A)]

\* An archetype on its own: entity_to_row inverts the rows.
WellFormed(a, A) ==
  /\ a = [rows |-> a.rows, rowOf |-> a.rowOf]
  /\ a.rows \in Seq(RowType(A))
  /\ a.rowOf \in [DOMAIN a.rowOf -> 1..Len(a.rows)]
  /\ \A e \in DOMAIN a.rowOf : a.rows[a.rowOf[e]].ent = e
  /\ \A r \in 1..Len(a.rows) :
       a.rows[r].ent \in DOMAIN a.rowOf /\ a.rowOf[a.rows[r].ent] = r

\* Archetypes and locations: an entity is in the archetype of its location and
\* in no other, in the row that archetype has for it.
Placed ==
  /\ {} \in DOMAIN arches /\ DOMAIN arches \subseteq SUBSET Comp
  /\ loc \in [Alive -> [arch : DOMAIN arches, row : Nat]]
  /\ \A A \in DOMAIN arches :
       /\ WellFormed(arches[A], A)
       /\ DOMAIN arches[A].rowOf = {e \in Alive : loc[e].arch = A}
       /\ \A e \in DOMAIN arches[A].rowOf : loc[e].row = arches[A].rowOf[e]

(***************************************************************************)
(* An archetype when a row is added and when one is removed.               *)
(***************************************************************************)

\* Archetype::add_entity() gives the entity a row of its own and moves nobody.
LEMMA AppendAddsRow ==
  ASSUME NEW A, NEW a, WellFormed(a, A), NEW e \in Ids!Entity, e \notin DOMAIN a.rowOf,
         NEW data \in DataType(A)
  PROVE  LET b == AppendRow(a, e, data) IN
         /\ WellFormed(b, A)
         /\ DOMAIN b.rowOf = DOMAIN a.rowOf \cup {e}
         /\ b.rowOf[e] = Len(a.rows) + 1
         /\ b.rows[b.rowOf[e]].data = data
         /\ \A x \in DOMAIN a.rowOf :
              b.rowOf[x] = a.rowOf[x] /\ b.rows[b.rowOf[x]] = a.rows[a.rowOf[x]]
<1> DEFINE row == [ent |-> e, data |-> data]
           b == AppendRow(a, e, data)
<1>1. /\ b = [rows |-> b.rows, rowOf |-> b.rowOf]
      /\ b.rows = Append(a.rows, row)
      /\ b.rowOf = With(a.rowOf, e, Len(a.rows) + 1)
  BY DEF AppendRow
<1>2. row \in RowType(A) /\ row.ent = e /\ row.data = data
  BY DEF RowType
<1> HIDE DEF b, row
<1>3. a.rows \in Seq(RowType(A)) /\ Len(a.rows) \in Nat
  BY LenProperties DEF WellFormed
<1>4. /\ b.rows \in Seq(RowType(A)) /\ Len(b.rows) = Len(a.rows) + 1
      /\ \A r \in 1..Len(a.rows) : b.rows[r] = a.rows[r]
      /\ b.rows[Len(a.rows) + 1] = row
  BY <1>1, <1>2, <1>3, AppendProperties
<1>5. /\ DOMAIN b.rowOf = DOMAIN a.rowOf \cup {e}
      /\ b.rowOf[e] = Len(a.rows) + 1
      /\ \A x \in DOMAIN a.rowOf : b.rowOf[x] = a.rowOf[x]
      /\ b.rowOf = [x \in DOMAIN b.rowOf |-> b.rowOf[x]]
  BY <1>1 DEF With
<1>6. \A x \in DOMAIN a.rowOf :
        /\ b.rowOf[x] \in 1..Len(a.rows)
        /\ b.rows[b.rowOf[x]] = a.rows[a.rowOf[x]]
        /\ b.rows[b.rowOf[x]].ent = x
  BY <1>4, <1>5 DEF WellFormed
<1>7. b.rowOf \in [DOMAIN b.rowOf -> 1..Len(b.rows)]
  <2>1. \A x \in DOMAIN b.rowOf : b.rowOf[x] \in 1..Len(b.rows)
    BY <1>3, <1>4, <1>5, <1>6
  <2> QED BY <1>5, <2>1
<1>8. \A r \in 1..Len(b.rows) :
        b.rows[r].ent \in DOMAIN b.rowOf /\ b.rowOf[b.rows[r].ent] = r
  BY <1>2, <1>3, <1>4, <1>5 DEF WellFormed
<1>9. WellFormed(b, A)
  BY <1>1, <1>2, <1>4, <1>5, <1>6, <1>7, <1>8 DEF WellFormed
<1> QED BY <1>2, <1>4, <1>5, <1>6, <1>9 DEF b

\* Archetype::remove_entity() takes one entity out, and the one that fills the
\* hole keeps its components.
LEMMA SwapRemoveKeepsOthers ==
  ASSUME NEW A, NEW a, WellFormed(a, A), NEW e \in DOMAIN a.rowOf
  PROVE  LET b == SwapRemove(a, e) IN
         /\ WellFormed(b, A)
         /\ DOMAIN b.rowOf = DOMAIN a.rowOf \ {e}
         /\ \A x \in DOMAIN b.rowOf :
              /\ b.rowOf[x] = IF x = LastEntity(a) THEN a.rowOf[e] ELSE a.rowOf[x]
              /\ b.rows[b.rowOf[x]] = a.rows[a.rowOf[x]]
<1> DEFINE row == a.rowOf[e]
           last == Len(a.rows)
           filled == [a.rows EXCEPT ![row] = a.rows[last]]
           b == SwapRemove(a, e)
<1>1. /\ b = [rows |-> b.rows, rowOf |-> b.rowOf]
      /\ b.rows = SubSeq(filled, 1, last - 1)
      /\ b.rowOf = [x \in DOMAIN a.rowOf \ {e} |->
                      IF x = LastEntity(a) THEN row ELSE a.rowOf[x]]
  BY DEF SwapRemove
<1> HIDE DEF b
<1>2. /\ a.rows \in Seq(RowType(A)) /\ last \in Nat \ {0}
      /\ row \in 1..last /\ a.rows[row].ent = e
      /\ a.rows[last] \in RowType(A)
      /\ LastEntity(a) \in DOMAIN a.rowOf /\ a.rowOf[LastEntity(a)] = last
  <2>1. a.rows \in Seq(RowType(A)) /\ row \in 1..last /\ a.rows[row].ent = e
    BY DEF WellFormed
  <2>2. last \in Nat /\ last \in 1..last
    BY <2>1, LenProperties
  <2> QED BY <2>1, <2>2, ElementOfSeq DEF WellFormed, LastEntity
<1>3. /\ filled \in Seq(RowType(A)) /\ Len(filled) = last
      /\ \A r \in 1..last : filled[r] = IF r = row THEN a.rows[last] ELSE a.rows[r]
  BY <1>2, ExceptSeq
<1> HIDE DEF filled
<1>4. \A r \in 1..last : filled[r] \in RowType(A)
  BY <1>3, ElementOfSeq
<1>5. /\ b.rows \in Seq(RowType(A)) /\ Len(b.rows) = last - 1
      /\ \A r \in 1..last - 1 : b.rows[r] = filled[r]
  <2>1. /\ SubSeq(filled, 1, last - 1) \in Seq(RowType(A))
        /\ Len(SubSeq(filled, 1, last - 1)) = IF 1 <= last - 1 THEN (last - 1) - 1 + 1 ELSE 0
        /\ \A r \in 1..(last - 1) - 1 + 1 : SubSeq(filled, 1, last - 1)[r] = filled[1 + r - 1]
    <3>1. \A r \in 1..last - 1 : filled[r] \in RowType(A)
      BY <1>2, <1>4
    <3> QED BY <1>2, <3>1, SubSeqProperties
  <2> QED BY <1>1, <1>2, <2>1
<1>6. /\ DOMAIN b.rowOf = DOMAIN a.rowOf \ {e}
      /\ \A x \in DOMAIN b.rowOf :
           b.rowOf[x] = IF x = LastEntity(a) THEN row ELSE a.rowOf[x]
      /\ b.rowOf = [x \in DOMAIN b.rowOf |-> b.rowOf[x]]
  BY <1>1
<1>7. \A x \in DOMAIN b.rowOf :
        /\ b.rowOf[x] \in 1..last - 1
        /\ b.rows[b.rowOf[x]] = a.rows[a.rowOf[x]]
        /\ b.rows[b.rowOf[x]].ent = x
  <2> SUFFICES ASSUME NEW x \in DOMAIN b.rowOf
               PROVE  /\ b.rowOf[x] \in 1..last - 1
                      /\ b.rows[b.rowOf[x]] = a.rows[a.rowOf[x]]
                      /\ b.rows[b.rowOf[x]].ent = x
    OBVIOUS
  <2>1. /\ x \in DOMAIN a.rowOf /\ x # e
        /\ a.rowOf[x] \in 1..last /\ a.rows[a.rowOf[x]].ent = x
    BY <1>6 DEF WellFormed
  <2>2. a.rowOf[x] # row
    BY <1>2, <2>1
  <2>3. CASE x = LastEntity(a)
    <3>1. row # last /\ b.rowOf[x] = row /\ a.rowOf[x] = last
      BY <1>2, <1>6, <2>2, <2>3
    <3>2. row \in 1..last - 1
      BY <1>2, <3>1
    <3>3. b.rows[row] = a.rows[last]
      BY <1>2, <1>3, <1>5, <3>2
    <3> QED BY <2>1, <3>1, <3>2, <3>3
  <2>4. CASE x # LastEntity(a)
    <3>1. a.rowOf[x] # last /\ b.rowOf[x] = a.rowOf[x]
      BY <1>6, <2>1, <2>4 DEF LastEntity
    <3>2. a.rowOf[x] \in 1..last - 1
      BY <1>2, <2>1, <3>1
    <3>3. b.rows[a.rowOf[x]] = a.rows[a.rowOf[x]]
      BY <1>2, <1>3, <1>5, <2>1, <2>2, <3>2
    <3> QED BY <2>1, <3>1, <3>2, <3>3
  <2> QED BY <2>3, <2>4
<1>8. \A r \in 1..last - 1 : b.rows[r].ent \in DOMAIN b.rowOf /\ b.rowOf[b.rows[r].ent] = r
  <2> SUFFICES ASSUME NEW r \in 1..last - 1
               PROVE  b.rows[r].ent \in DOMAIN b.rowOf /\ b.rowOf[b.rows[r].ent] = r
    OBVIOUS
  <2>1. r \in 1..last /\ r # last /\ b.rows[r] = filled[r]
    BY <1>2, <1>5
  <2>2. CASE r = row
    <3>1. b.rows[r].ent = LastEntity(a) /\ LastEntity(a) # e
      BY <1>2, <1>3, <2>1, <2>2 DEF LastEntity
    <3> QED BY <1>2, <1>6, <2>2, <3>1
  <2>3. CASE r # row
    <3>1. b.rows[r] = a.rows[r] /\ a.rows[r].ent \in DOMAIN a.rowOf /\ a.rowOf[a.rows[r].ent] = r
      BY <1>3, <2>1, <2>3 DEF WellFormed
    <3>2. a.rows[r].ent # e /\ a.rows[r].ent # LastEntity(a)
      BY <1>2, <2>1, <2>3, <3>1
    <3> QED BY <1>6, <3>1, <3>2
  <2> QED BY <2>2, <2>3
<1>9. b.rowOf \in [DOMAIN b.rowOf -> 1..Len(b.rows)]
  BY <1>5, <1>6, <1>7
<1>10. WellFormed(b, A)
  BY <1>1, <1>5, <1>7, <1>8, <1>9 DEF WellFormed
<1> QED BY <1>6, <1>7, <1>10 DEF b

\* A component write changes one cell of one row and no row's entity.
WithCell(a, r, t, v) == [a EXCEPT !.rows[r].data[t] = v]

\* A value is overwritten in its row, and nothing moves.
LEMMA CellOverwritten ==
  ASSUME NEW A, NEW a, WellFormed(a, A), NEW r \in 1..Len(a.rows), NEW t \in A, NEW v \in Val
  PROVE  LET b == WithCell(a, r, t, v) IN
         /\ WellFormed(b, A)
         /\ b.rowOf = a.rowOf /\ Len(b.rows) = Len(a.rows)
         /\ b.rows[r].data = [a.rows[r].data EXCEPT ![t] = v]
         /\ \A i \in 1..Len(a.rows) :
              /\ b.rows[i].ent = a.rows[i].ent
              /\ i # r => b.rows[i] = a.rows[i]
<1> DEFINE data == [a.rows[r].data EXCEPT ![t] = v]
           cell == [ent |-> a.rows[r].ent, data |-> data]
           b == WithCell(a, r, t, v)
<1>1. a = [rows |-> a.rows, rowOf |-> a.rowOf] /\ a.rows \in Seq(RowType(A))
  BY DEF WellFormed
<1>2. a.rows[r] \in RowType(A)
  BY <1>1, ElementOfSeq
<1>3. data \in DataType(A)
  BY <1>2 DEF RowType, DataType
<1>4. cell \in RowType(A) /\ cell.ent = a.rows[r].ent /\ cell.data = data
  BY <1>2, <1>3 DEF RowType
<1>5. b.rowOf = a.rowOf /\ b.rows = [a.rows EXCEPT ![r] = cell]
      /\ b = [rows |-> b.rows, rowOf |-> b.rowOf]
  <2>1. [a.rows[r] EXCEPT !.data[t] = v] = cell
    BY <1>2 DEF RowType
  <2>2. [a.rows EXCEPT ![r].data[t] = v] = [a.rows EXCEPT ![r] = cell]
    BY <2>1
  <2>3. b = [a EXCEPT !.rows = [a.rows EXCEPT ![r] = cell]]
    BY <2>2 DEF WithCell
  <2>4. \A q : [a EXCEPT !.rows = q] = [rows |-> q, rowOf |-> a.rowOf]
    BY <1>1
  <2> HIDE DEF b, cell
  <2>5. b = [rows |-> [a.rows EXCEPT ![r] = cell], rowOf |-> a.rowOf]
    BY <2>3, <2>4
  <2> QED BY <2>5
<1> HIDE DEF cell, data, b
<1>6. /\ b.rows \in Seq(RowType(A)) /\ Len(b.rows) = Len(a.rows)
      /\ \A i \in 1..Len(a.rows) : b.rows[i] = IF i = r THEN cell ELSE a.rows[i]
  BY <1>1, <1>4, <1>5, ExceptSeq
<1>7. \A i \in 1..Len(a.rows) : b.rows[i].ent = a.rows[i].ent
  BY <1>4, <1>6
<1>8. /\ a.rowOf \in [DOMAIN a.rowOf -> 1..Len(a.rows)]
      /\ \A x \in DOMAIN a.rowOf : a.rowOf[x] \in 1..Len(a.rows) /\ a.rows[a.rowOf[x]].ent = x
      /\ \A i \in 1..Len(a.rows) :
           a.rows[i].ent \in DOMAIN a.rowOf /\ a.rowOf[a.rows[i].ent] = i
  BY DEF WellFormed
<1>9. \A x \in DOMAIN b.rowOf : b.rows[b.rowOf[x]].ent = x
  BY <1>5, <1>7, <1>8
<1>10. \A i \in 1..Len(b.rows) :
         b.rows[i].ent \in DOMAIN b.rowOf /\ b.rowOf[b.rows[i].ent] = i
  BY <1>5, <1>6, <1>7, <1>8
<1>11. WellFormed(b, A)
  BY <1>5, <1>6, <1>8, <1>9, <1>10 DEF WellFormed
<1> QED BY <1>4, <1>5, <1>6, <1>7, <1>11 DEF b, data

(***************************************************************************)
(* What the operations do to archetypes and locations together.            *)
(***************************************************************************)

\* An entity without components has no data.
LEMMA EmptyData == <<>> \in DataType({})
<1>1. <<>> \in [1..0 -> Val]
  BY EmptySeq, LenProperties
<1> QED BY <1>1 DEF DataType

\* The components of an entity are those of its archetype.
LEMMA DataInPlace ==
  ASSUME Placed, NEW e \in Alive
  PROVE  LET a == arches[loc[e].arch] IN
         /\ loc[e].arch \in DOMAIN arches /\ loc[e].arch \subseteq Comp
         /\ WellFormed(a, loc[e].arch)
         /\ e \in DOMAIN a.rowOf /\ a.rowOf[e] = loc[e].row
         /\ loc[e].row \in 1..Len(a.rows) /\ a.rows[loc[e].row].ent = e
         /\ DataOf(e) = a.rows[a.rowOf[e]].data
         /\ DataOf(e) \in DataType(loc[e].arch)
         /\ e \in Ids!Entity
<1> DEFINE A == loc[e].arch
           a == arches[A]
<1>1. A \in DOMAIN arches /\ A \subseteq Comp
  BY DEF Placed, Alive
<1>2. WellFormed(a, A) /\ e \in DOMAIN a.rowOf /\ a.rowOf[e] = loc[e].row
  BY <1>1 DEF Placed
<1>3. loc[e].row \in 1..Len(a.rows) /\ a.rows[loc[e].row].ent = e
  <2> HIDE DEF a, A
  <2>1. a.rowOf[e] \in 1..Len(a.rows) /\ a.rows[a.rowOf[e]].ent = e
    BY <1>2 DEF WellFormed
  <2> QED BY <1>2, <2>1
<1>4. a.rows[loc[e].row] \in RowType(A)
  BY Zenon, <1>2, <1>3, ElementOfSeq DEF WellFormed
<1> QED BY <1>1, <1>2, <1>3, <1>4 DEF DataOf, RowType

\* A new entity is appended to the empty archetype.
LEMMA CreationKeepsPlaces ==
  ASSUME Placed, NEW e \in Ids!Entity, e \notin Alive, AddToEmptyArchetype(e)
  PROVE  /\ Placed'
         /\ Alive' = Alive \cup {e}
         /\ DataOf(e)' = <<>>
         /\ \A x \in Alive : DataOf(x)' = DataOf(x)
<1> DEFINE a == arches[{}]
           b == AppendRow(a, e, <<>>)
<1>1. /\ {} \in DOMAIN arches /\ WellFormed(a, {})
      /\ DOMAIN a.rowOf = {x \in Alive : loc[x].arch = {}}
      /\ e \notin DOMAIN a.rowOf
  BY DEF Placed
<1>2. /\ WellFormed(b, {})
      /\ DOMAIN b.rowOf = DOMAIN a.rowOf \cup {e}
      /\ b.rowOf[e] = Len(a.rows) + 1
      /\ b.rows[b.rowOf[e]].data = <<>>
      /\ \A x \in DOMAIN a.rowOf :
           b.rowOf[x] = a.rowOf[x] /\ b.rows[b.rowOf[x]] = a.rows[a.rowOf[x]]
  BY <1>1, EmptyData, AppendAddsRow
<1>3. /\ DOMAIN arches' = DOMAIN arches
      /\ arches'[{}] = b
      /\ \A A \in DOMAIN arches : A # {} => arches'[A] = arches[A]
  BY <1>1 DEF AddToEmptyArchetype
<1> HIDE DEF b
<1>4. /\ Alive' = Alive \cup {e}
      /\ loc' = [x \in Alive' |-> loc'[x]]
      /\ loc'[e] = [arch |-> {}, row |-> Len(a.rows) + 1]
      /\ \A x \in Alive : loc'[x] = loc[x]
  BY DEF AddToEmptyArchetype, With, Alive
<1>5. loc' \in [Alive' -> [arch : DOMAIN arches', row : Nat]]
  <2>1. Len(a.rows) + 1 \in Nat
    BY <1>1, LenProperties DEF WellFormed
  <2>2. \A x \in Alive : loc[x] \in [arch : DOMAIN arches, row : Nat]
    BY DEF Placed
  <2>3. \A x \in Alive' : loc'[x] \in [arch : DOMAIN arches', row : Nat]
    <3>1. loc'[e] \in [arch : DOMAIN arches', row : Nat]
      BY <1>1, <1>3, <1>4, <2>1
    <3> QED BY <1>3, <1>4, <2>2, <3>1
  <2> QED BY <1>4, <2>3
<1>6. ASSUME NEW A \in DOMAIN arches'
      PROVE  /\ WellFormed(arches'[A], A)
             /\ DOMAIN arches'[A].rowOf = {x \in Alive' : loc'[x].arch = A}
             /\ \A x \in DOMAIN arches'[A].rowOf : loc'[x].row = arches'[A].rowOf[x]
  <2>1. CASE A = {}
    BY <1>1, <1>2, <1>3, <1>4, <2>1 DEF Placed
  <2>2. CASE A # {}
    BY <1>3, <1>4, <2>2 DEF Placed
  <2> QED BY <2>1, <2>2
<1>7. Placed'
  BY <1>1, <1>3, <1>5, <1>6 DEF Placed
<1>8. DataOf(e)' = <<>>
  BY <1>2, <1>3, <1>4 DEF DataOf
<1>9. \A x \in Alive : DataOf(x)' = DataOf(x)
  <2> SUFFICES ASSUME NEW x \in Alive PROVE DataOf(x)' = DataOf(x)
    OBVIOUS
  <2>1. loc'[x] = loc[x] /\ loc[x].arch \in DOMAIN arches
    BY <1>4, DataInPlace
  <2>2. CASE loc[x].arch = {}
    <3>1. x \in DOMAIN a.rowOf /\ a.rowOf[x] = loc[x].row
      BY <2>2, DataInPlace
    <3> QED BY <1>2, <1>3, <2>1, <2>2, <3>1 DEF DataOf
  <2>3. CASE loc[x].arch # {}
    BY <1>3, <2>1, <2>3 DEF DataOf
  <2> QED BY <2>2, <2>3
<1> QED BY <1>4, <1>7, <1>8, <1>9

\* The locations that Relocated() leaves are those of the archetype after the
\* removal.
LEMMA RelocatedFollows ==
  ASSUME Placed, NEW e \in Alive
  PROVE  LET a == arches[loc[e].arch]
             b == SwapRemove(a, e) IN
         /\ DOMAIN Relocated(e) = Alive
         /\ Relocated(e) \in [Alive -> [arch : DOMAIN arches, row : Nat]]
         /\ \A x \in Alive : Relocated(e)[x].arch = loc[x].arch
         /\ \A x \in Alive : loc[x].arch # loc[e].arch => Relocated(e)[x] = loc[x]
         /\ \A x \in DOMAIN b.rowOf : Relocated(e)[x].row = b.rowOf[x]
<1> DEFINE A == loc[e].arch
           a == arches[A]
           b == SwapRemove(a, e)
           l == LastEntity(a)
<1>1. /\ A \in DOMAIN arches /\ WellFormed(a, A)
      /\ e \in DOMAIN a.rowOf /\ a.rowOf[e] = loc[e].row
      /\ loc[e].row \in 1..Len(a.rows)
  BY DataInPlace
<1>2. DOMAIN a.rowOf = {x \in Alive : loc[x].arch = A}
  BY <1>1 DEF Placed
<1>3. \A x \in DOMAIN a.rowOf : loc[x].row = a.rowOf[x]
  BY <1>1 DEF Placed
<1>4. l \in DOMAIN a.rowOf /\ a.rowOf[l] = Len(a.rows)
  <2> HIDE DEF a
  <2>1. Len(a.rows) \in Nat
    BY <1>1, LenProperties DEF WellFormed
  <2>2. Len(a.rows) \in 1..Len(a.rows)
    BY <1>1, <2>1
  <2> QED BY <1>1, <2>2 DEF WellFormed, LastEntity
<1>5. /\ DOMAIN b.rowOf = DOMAIN a.rowOf \ {e}
      /\ \A x \in DOMAIN b.rowOf : b.rowOf[x] = IF x = l THEN a.rowOf[e] ELSE a.rowOf[x]
  BY <1>1, SwapRemoveKeepsOthers
<1>6. loc \in [Alive -> [arch : DOMAIN arches, row : Nat]]
  BY DEF Placed
<1> HIDE DEF b, l
<1>7. CASE a.rowOf[e] = Len(a.rows)
  <2>1. Relocated(e) = loc
    BY <1>7 DEF Relocated
  <2>2. e = l
    <3> HIDE DEF a
    <3>1. a.rows[a.rowOf[e]].ent = e /\ a.rows[a.rowOf[l]].ent = l
      BY <1>1, <1>4 DEF WellFormed
    <3> QED BY <1>4, <1>7, <3>1
  <2> QED BY <1>2, <1>3, <1>5, <1>6, <2>1, <2>2 DEF b
<1>8. CASE a.rowOf[e] # Len(a.rows)
  <2>1. Relocated(e) = [loc EXCEPT ![l].row = loc[e].row]
    BY <1>8 DEF Relocated, l
  <2>2. l \in Alive /\ loc[l].arch = A /\ loc[l] \in [arch : DOMAIN arches, row : Nat]
    BY <1>2, <1>4, <1>6
  <2>3. loc[e].row \in Nat
    BY <1>6
  <2>4. /\ DOMAIN Relocated(e) = Alive
        /\ \A x \in Alive : x # l => Relocated(e)[x] = loc[x]
        /\ Relocated(e)[l] = [arch |-> A, row |-> loc[e].row]
    BY <1>6, <2>1, <2>2
  <2>5. Relocated(e) \in [Alive -> [arch : DOMAIN arches, row : Nat]]
    BY <1>1, <1>6, <2>1, <2>2, <2>3, <2>4
  <2> QED BY <1>1, <1>2, <1>3, <1>5, <2>2, <2>4, <2>5 DEF b
<1> QED BY <1>7, <1>8

\* A removed entity leaves its row to the last one, whose location follows.
LEMMA RemovalKeepsPlaces ==
  ASSUME Placed, NEW e \in Alive, RemoveFromArchetype(e)
  PROVE  /\ Placed'
         /\ Alive' = Alive \ {e}
         /\ \A x \in Alive' : DataOf(x)' = DataOf(x)
<1> DEFINE A == loc[e].arch
           a == arches[A]
           b == SwapRemove(a, e)
<1>1. /\ A \in DOMAIN arches /\ WellFormed(a, A) /\ e \in DOMAIN a.rowOf
      /\ DOMAIN a.rowOf = {x \in Alive : loc[x].arch = A}
  BY DataInPlace DEF Placed
<1>2. /\ WellFormed(b, A)
      /\ DOMAIN b.rowOf = DOMAIN a.rowOf \ {e}
      /\ \A x \in DOMAIN b.rowOf : b.rows[b.rowOf[x]] = a.rows[a.rowOf[x]]
  BY <1>1, SwapRemoveKeepsOthers
<1>3. /\ DOMAIN arches' = DOMAIN arches
      /\ arches'[A] = b
      /\ \A B \in DOMAIN arches : B # A => arches'[B] = arches[B]
  BY <1>1 DEF RemoveFromArchetype
<1>4. /\ Relocated(e) \in [Alive -> [arch : DOMAIN arches, row : Nat]]
      /\ \A x \in Alive : Relocated(e)[x].arch = loc[x].arch
      /\ \A x \in Alive : loc[x].arch # A => Relocated(e)[x] = loc[x]
      /\ \A x \in DOMAIN b.rowOf : Relocated(e)[x].row = b.rowOf[x]
  BY RelocatedFollows
<1> HIDE DEF b
<1>5. /\ Alive' = Alive \ {e}
      /\ loc' = [x \in Alive \ {e} |-> Relocated(e)[x]]
  BY DEF RemoveFromArchetype, Restrict, Alive
<1>6. loc' \in [Alive' -> [arch : DOMAIN arches', row : Nat]]
  BY <1>3, <1>4, <1>5
<1>7. ASSUME NEW B \in DOMAIN arches'
      PROVE  /\ WellFormed(arches'[B], B)
             /\ DOMAIN arches'[B].rowOf = {x \in Alive' : loc'[x].arch = B}
             /\ \A x \in DOMAIN arches'[B].rowOf : loc'[x].row = arches'[B].rowOf[x]
  <2>1. CASE B = A
    BY <1>1, <1>2, <1>3, <1>4, <1>5, <2>1
  <2>2. CASE B # A
    <3>1. WellFormed(arches[B], B) /\ DOMAIN arches[B].rowOf = {x \in Alive : loc[x].arch = B}
          /\ \A x \in DOMAIN arches[B].rowOf : loc[x].row = arches[B].rowOf[x]
      BY <1>3 DEF Placed
    <3> QED BY <1>3, <1>4, <1>5, <2>2, <3>1
  <2> QED BY <2>1, <2>2
<1>8. Placed'
  BY <1>3, <1>6, <1>7 DEF Placed
<1>9. ASSUME NEW x \in Alive' PROVE DataOf(x)' = DataOf(x)
  <2>1. /\ x \in Alive /\ x # e /\ loc'[x] = Relocated(e)[x]
        /\ loc[x].arch \in DOMAIN arches
        /\ x \in DOMAIN arches[loc[x].arch].rowOf
        /\ DataOf(x) = arches[loc[x].arch].rows[arches[loc[x].arch].rowOf[x]].data
    BY <1>5, DataInPlace
  <2>2. CASE loc[x].arch = A
    <3>1. x \in DOMAIN b.rowOf
      BY <1>2, <2>1, <2>2
    <3>2. b.rows[b.rowOf[x]] = a.rows[a.rowOf[x]]
      BY <1>2, <3>1
    <3>3. loc'[x].arch = A /\ loc'[x].row = b.rowOf[x] /\ arches'[A] = b
      BY <1>2, <1>3, <1>4, <2>1, <2>2, <3>1
    <3>4. DataOf(x)' = b.rows[b.rowOf[x]].data
      BY <3>3 DEF DataOf
    <3> QED BY <2>1, <2>2, <3>2, <3>4
  <2>3. CASE loc[x].arch # A
    BY <1>3, <1>4, <2>1, <2>3 DEF DataOf
  <2> QED BY <2>2, <2>3
<1> QED BY <1>5, <1>8, <1>9

\* A new archetype.
LEMMA EmptyArchetypeWellFormed ==
  ASSUME NEW A
  PROVE  WellFormed(EmptyArchetype, A) /\ DOMAIN EmptyArchetype.rowOf = {}
<1>1. /\ EmptyArchetype.rows = <<>> /\ DOMAIN EmptyArchetype.rowOf = {}
      /\ EmptyArchetype = [rows |-> EmptyArchetype.rows, rowOf |-> EmptyArchetype.rowOf]
      /\ EmptyArchetype.rowOf = [x \in {} |-> 0]
  BY DEF EmptyArchetype
<1>2. <<>> \in Seq(RowType(A)) /\ 1..Len(<<>>) = {}
  BY EmptySeq
<1>3. EmptyArchetype.rowOf \in [{} -> 1..Len(<<>>)]
  BY <1>1
<1> QED BY <1>1, <1>2, <1>3 DEF WellFormed

\* _ensure_archetype() adds at most an archetype without rows.
LEMMA EnsuredArchetype ==
  ASSUME Placed, NEW A \in SUBSET Comp
  PROVE  LET known == WithArchetype(A) IN
         /\ DOMAIN known = DOMAIN arches \cup {A}
         /\ \A B \in DOMAIN arches : known[B] = arches[B]
         /\ WellFormed(known[A], A)
         /\ DOMAIN known[A].rowOf = {x \in Alive : loc[x].arch = A}
         /\ \A x \in DOMAIN known[A].rowOf : loc[x].row = known[A].rowOf[x]
<1>1. CASE A \in DOMAIN arches
  <2>1. WithArchetype(A) = arches
    BY <1>1 DEF WithArchetype
  <2> QED BY <1>1, <2>1 DEF Placed
<1>2. CASE A \notin DOMAIN arches
  <2> DEFINE known == WithArchetype(A)
  <2>1. /\ DOMAIN known = DOMAIN arches \cup {A}
        /\ \A B \in DOMAIN arches : known[B] = arches[B]
        /\ known[A] = EmptyArchetype
    BY <1>2 DEF WithArchetype, With
  <2>2. WellFormed(EmptyArchetype, A) /\ DOMAIN EmptyArchetype.rowOf = {}
    BY EmptyArchetypeWellFormed
  <2>3. {x \in Alive : loc[x].arch = A} = {}
    BY <1>2 DEF Placed
  <2> HIDE DEF known
  <2>4. /\ DOMAIN known = DOMAIN arches \cup {A}
        /\ \A B \in DOMAIN arches : known[B] = arches[B]
        /\ WellFormed(known[A], A)
        /\ DOMAIN known[A].rowOf = {x \in Alive : loc[x].arch = A}
        /\ \A x \in DOMAIN known[A].rowOf : loc[x].row = known[A].rowOf[x]
    BY <2>1, <2>2, <2>3
  <2> QED BY <2>4 DEF known
<1> QED BY <1>1, <1>2

\* _move_entity_to() takes the entity to its new archetype with the components
\* it is given and leaves everybody else's alone.
LEMMA MoveKeepsPlaces ==
  ASSUME Placed, NEW e \in Alive, NEW A \in SUBSET Comp, A # loc[e].arch,
         NEW data \in DataType(A), MoveEntityTo(e, A, data)
  PROVE  /\ Placed'
         /\ Alive' = Alive
         /\ DataOf(e)' = data
         /\ \A x \in Alive : x # e => DataOf(x)' = DataOf(x)
<1> DEFINE F == loc[e].arch
           known == WithArchetype(A)
           b == AppendRow(known[A], e, data)
           c == SwapRemove(arches[F], e)
<1>1. /\ F \in DOMAIN arches /\ F \in SUBSET Comp /\ WellFormed(arches[F], F)
      /\ e \in DOMAIN arches[F].rowOf
      /\ DOMAIN arches[F].rowOf = {x \in Alive : loc[x].arch = F}
      /\ e \in Ids!Entity
  BY DataInPlace DEF Placed
<1>2. /\ DOMAIN known = DOMAIN arches \cup {A}
      /\ \A B \in DOMAIN arches : known[B] = arches[B]
      /\ WellFormed(known[A], A)
      /\ DOMAIN known[A].rowOf = {x \in Alive : loc[x].arch = A}
      /\ \A x \in DOMAIN known[A].rowOf : loc[x].row = known[A].rowOf[x]
  BY EnsuredArchetype
<1>3. /\ WellFormed(c, F)
      /\ DOMAIN c.rowOf = DOMAIN arches[F].rowOf \ {e}
      /\ \A x \in DOMAIN c.rowOf : c.rows[c.rowOf[x]] = arches[F].rows[arches[F].rowOf[x]]
  BY <1>1, SwapRemoveKeepsOthers
<1>4. /\ Relocated(e) \in [Alive -> [arch : DOMAIN arches, row : Nat]]
      /\ \A x \in Alive : Relocated(e)[x].arch = loc[x].arch
      /\ \A x \in Alive : loc[x].arch # F => Relocated(e)[x] = loc[x]
      /\ \A x \in DOMAIN c.rowOf : Relocated(e)[x].row = c.rowOf[x]
  BY RelocatedFollows
<1>5. /\ loc' = [Relocated(e) EXCEPT ![e] = [arch |-> A, row |-> Len(known[A].rows) + 1]]
      /\ arches' = [known EXCEPT ![A] = b, ![F] = SwapRemove(@, e)]
  BY DEF MoveEntityTo
<1> HIDE DEF known
<1>6. e \notin DOMAIN known[A].rowOf
  BY <1>2
<1>7. /\ WellFormed(b, A)
      /\ DOMAIN b.rowOf = DOMAIN known[A].rowOf \cup {e}
      /\ b.rowOf[e] = Len(known[A].rows) + 1
      /\ b.rows[b.rowOf[e]].data = data
      /\ \A x \in DOMAIN known[A].rowOf :
           b.rowOf[x] = known[A].rowOf[x] /\ b.rows[b.rowOf[x]] = known[A].rows[known[A].rowOf[x]]
  BY <1>1, <1>2, <1>6, AppendAddsRow
<1> HIDE DEF b
<1>8. /\ DOMAIN arches' = DOMAIN arches \cup {A}
      /\ arches'[A] = b /\ arches'[F] = c
      /\ \A B \in DOMAIN arches : B # A /\ B # F => arches'[B] = arches[B]
  <2>1. known[F] = arches[F] /\ F # A /\ F \in DOMAIN known /\ A \in DOMAIN known
        /\ DOMAIN known = DOMAIN arches \cup {A}
    BY <1>1, <1>2
  <2>2. /\ DOMAIN arches' = DOMAIN known
        /\ arches'[A] = b
        /\ arches'[F] = SwapRemove(known[F], e)
        /\ \A B \in DOMAIN known : B # A /\ B # F => arches'[B] = known[B]
    BY <1>5, <2>1
  <2> QED BY <1>2, <2>1, <2>2
<1> HIDE DEF c
<1>9. /\ Alive' = Alive
      /\ loc' = [x \in Alive |-> loc'[x]]
      /\ loc'[e] = [arch |-> A, row |-> Len(known[A].rows) + 1]
      /\ \A x \in Alive : x # e => loc'[x] = Relocated(e)[x]
  <2>1. DOMAIN Relocated(e) = Alive
    BY <1>4
  <2>2. /\ DOMAIN loc' = Alive
        /\ loc' = [x \in Alive |-> loc'[x]]
        /\ loc'[e] = [arch |-> A, row |-> Len(known[A].rows) + 1]
        /\ \A x \in Alive : x # e => loc'[x] = Relocated(e)[x]
    BY <1>5, <2>1
  <2> QED BY <2>2 DEF Alive
<1>10. loc' \in [Alive' -> [arch : DOMAIN arches', row : Nat]]
  <2>1. Len(known[A].rows) + 1 \in Nat
    BY <1>2, LenProperties DEF WellFormed
  <2>2. loc'[e] \in [arch : DOMAIN arches', row : Nat]
    BY <1>8, <1>9, <2>1
  <2>3. \A x \in Alive : x # e => loc'[x] \in [arch : DOMAIN arches', row : Nat]
    BY <1>4, <1>8, <1>9
  <2> QED BY <1>9, <2>2, <2>3
<1>11. ASSUME NEW B \in DOMAIN arches'
       PROVE  /\ WellFormed(arches'[B], B)
              /\ DOMAIN arches'[B].rowOf = {x \in Alive' : loc'[x].arch = B}
              /\ \A x \in DOMAIN arches'[B].rowOf : loc'[x].row = arches'[B].rowOf[x]
  <2>1. CASE B = A
    <3>1. \A x \in Alive : x # e => (loc'[x].arch = A <=> loc[x].arch = A)
      BY <1>4, <1>9
    <3>2. DOMAIN b.rowOf = {x \in Alive' : loc'[x].arch = A}
      BY <1>2, <1>7, <1>9, <3>1
    <3>3. \A x \in DOMAIN known[A].rowOf : loc'[x] = loc[x]
      BY <1>2, <1>4, <1>6, <1>9
    <3> QED BY <1>2, <1>7, <1>8, <1>9, <2>1, <3>2, <3>3
  <2>2. CASE B = F
    <3>1. DOMAIN c.rowOf = {x \in Alive' : loc'[x].arch = F}
      BY <1>1, <1>3, <1>4, <1>9
    <3> QED BY <1>3, <1>4, <1>8, <1>9, <2>2, <3>1
  <2>3. CASE B # A /\ B # F
    <3>1. WellFormed(arches[B], B) /\ DOMAIN arches[B].rowOf = {x \in Alive : loc[x].arch = B}
          /\ \A x \in DOMAIN arches[B].rowOf : loc[x].row = arches[B].rowOf[x]
      BY <1>8, <2>3 DEF Placed
    <3>2. arches'[B] = arches[B]
      BY <1>8, <2>3
    <3>3. \A x \in Alive : loc'[x].arch = B <=> loc[x].arch = B
      BY <1>4, <1>9, <2>3
    <3>4. \A x \in Alive : loc[x].arch = B => loc'[x] = loc[x]
      BY <1>4, <1>9, <2>3
    <3> QED BY <1>9, <3>1, <3>2, <3>3, <3>4
  <2> QED BY <2>1, <2>2, <2>3
<1>12. Placed'
  <2>1. {} \in DOMAIN arches' /\ DOMAIN arches' \subseteq SUBSET Comp
    BY <1>8 DEF Placed
  <2> QED BY <1>10, <1>11, <2>1 DEF Placed
<1>13. DataOf(e)' = data
  BY <1>7, <1>8, <1>9 DEF DataOf
<1>14. ASSUME NEW x \in Alive, x # e PROVE DataOf(x)' = DataOf(x)
  <2>1. /\ loc'[x] = Relocated(e)[x]
        /\ loc[x].arch \in DOMAIN arches
        /\ x \in DOMAIN arches[loc[x].arch].rowOf
        /\ arches[loc[x].arch].rowOf[x] = loc[x].row
        /\ DataOf(x) = arches[loc[x].arch].rows[arches[loc[x].arch].rowOf[x]].data
    BY <1>9, <1>14, DataInPlace
  <2>2. CASE loc[x].arch = F
    <3>1. x \in DOMAIN c.rowOf
      BY <1>1, <1>3, <1>14, <2>2
    <3> QED BY <1>3, <1>4, <1>8, <2>1, <2>2, <3>1 DEF DataOf
  <2>3. CASE loc[x].arch = A
    <3>1. x \in DOMAIN known[A].rowOf /\ known[A] = arches[A] /\ loc'[x] = loc[x]
      BY <1>2, <1>4, <2>1, <2>3
    <3> QED BY <1>7, <1>8, <2>1, <2>3, <3>1 DEF DataOf
  <2>4. CASE loc[x].arch # F /\ loc[x].arch # A
    BY <1>4, <1>8, <2>1, <2>4 DEF DataOf
  <2> QED BY <2>2, <2>3, <2>4
<1> QED BY <1>9, <1>12, <1>13, <1>14

\* A component write in place changes that component of that entity alone, and
\* no row changes its entity.
LEMMA OverwriteKeepsPlaces ==
  ASSUME Placed, NEW e \in Alive, NEW t, NEW v \in Val, OverwriteComponent(e, t, v)
  PROVE  /\ Placed'
         /\ Alive' = Alive
         /\ DataOf(e)' = [DataOf(e) EXCEPT ![t] = v]
         /\ \A x \in Alive : x # e => DataOf(x)' = DataOf(x)
         /\ DOMAIN arches' = DOMAIN arches
         /\ \A A \in DOMAIN arches :
              /\ Len(arches'[A].rows) = Len(arches[A].rows)
              /\ \A r \in 1..Len(arches[A].rows) :
                   arches'[A].rows[r].ent = arches[A].rows[r].ent
<1> DEFINE A == loc[e].arch
           a == arches[A]
           r == loc[e].row
           b == WithCell(a, r, t, v)
<1>1. /\ A \in DOMAIN arches /\ WellFormed(a, A)
      /\ r \in 1..Len(a.rows) /\ a.rows[r].ent = e
      /\ DataOf(e) = a.rows[r].data
  BY DataInPlace DEF DataOf
<1>2. t \in A /\ UNCHANGED loc
      /\ arches' = [arches EXCEPT ![A].rows[r].data[t] = v]
  BY DEF OverwriteComponent
<1>3. /\ WellFormed(b, A)
      /\ b.rowOf = a.rowOf /\ Len(b.rows) = Len(a.rows)
      /\ b.rows[r].data = [a.rows[r].data EXCEPT ![t] = v]
      /\ \A i \in 1..Len(a.rows) :
           /\ b.rows[i].ent = a.rows[i].ent
           /\ i # r => b.rows[i] = a.rows[i]
  <2> HIDE DEF A, a, r
  <2> QED BY <1>1, <1>2, CellOverwritten
<1>4. /\ DOMAIN arches' = DOMAIN arches
      /\ arches'[A] = b
      /\ \A B \in DOMAIN arches : B # A => arches'[B] = arches[B]
  BY <1>1, <1>2 DEF WithCell
<1> HIDE DEF b
<1>5. Placed' /\ Alive' = Alive
  <2>1. Alive' = Alive
    BY <1>2 DEF Alive
  <2>2. loc' \in [Alive' -> [arch : DOMAIN arches', row : Nat]]
    BY <1>2, <1>4, <2>1 DEF Placed
  <2>3. ASSUME NEW B \in DOMAIN arches'
        PROVE  /\ WellFormed(arches'[B], B)
               /\ DOMAIN arches'[B].rowOf = {x \in Alive' : loc'[x].arch = B}
               /\ \A x \in DOMAIN arches'[B].rowOf : loc'[x].row = arches'[B].rowOf[x]
    <3>1. CASE B = A
      <4>1. /\ DOMAIN a.rowOf = {x \in Alive : loc[x].arch = A}
            /\ \A x \in DOMAIN a.rowOf : loc[x].row = a.rowOf[x]
        BY <1>1 DEF Placed
      <4>2. /\ DOMAIN arches'[B].rowOf = {x \in Alive : loc[x].arch = B}
            /\ \A x \in DOMAIN arches'[B].rowOf : loc[x].row = arches'[B].rowOf[x]
        <5> HIDE DEF a, A
        <5> QED BY <1>3, <1>4, <3>1, <4>1
      <4>3. WellFormed(arches'[B], B)
        BY <1>3, <1>4, <3>1
      <4> QED BY <1>2, <2>1, <4>2, <4>3
    <3>2. CASE B # A
      <4>1. B \in DOMAIN arches /\ arches'[B] = arches[B]
        BY <1>4, <3>2
      <4>2. /\ WellFormed(arches[B], B)
            /\ DOMAIN arches[B].rowOf = {x \in Alive : loc[x].arch = B}
            /\ \A x \in DOMAIN arches[B].rowOf : loc[x].row = arches[B].rowOf[x]
        BY <4>1 DEF Placed
      <4> QED BY <1>2, <2>1, <4>1, <4>2
    <3> QED BY <3>1, <3>2
  <2> QED BY <1>4, <2>1, <2>2, <2>3 DEF Placed
<1>6. DataOf(e)' = [DataOf(e) EXCEPT ![t] = v]
  BY Zenon, <1>1, <1>2, <1>3, <1>4 DEF DataOf
<1>7. ASSUME NEW x \in Alive, x # e PROVE DataOf(x)' = DataOf(x)
  <2>1. /\ loc[x].arch \in DOMAIN arches /\ loc[x].row \in 1..Len(arches[loc[x].arch].rows)
        /\ arches[loc[x].arch].rows[loc[x].row].ent = x
    BY DataInPlace
  <2>2. CASE loc[x].arch = A
    <3>1. loc[x].row # r /\ loc[x].row \in 1..Len(a.rows)
      BY <1>1, <1>7, <2>1, <2>2
    <3>2. b.rows[loc[x].row] = a.rows[loc[x].row]
      BY <1>3, <3>1
    <3>3. DataOf(x) = a.rows[loc[x].row].data /\ DataOf(x)' = b.rows[loc[x].row].data
      BY Zenon, <1>2, <1>4, <2>2 DEF DataOf
    <3> QED BY <3>2, <3>3
  <2>3. CASE loc[x].arch # A
    BY Zenon, <1>2, <1>4, <2>1, <2>3 DEF DataOf
  <2> QED BY <2>2, <2>3
<1> QED BY <1>3, <1>4, <1>5, <1>6, <1>7

\* compact() deletes archetypes nobody is in.
LEMMA CompactKeepsPlaces ==
  ASSUME Placed, Compact
  PROVE  /\ Placed'
         /\ Alive' = Alive
         /\ \A x \in Alive : DataOf(x)' = DataOf(x)
<1>1. /\ UNCHANGED loc /\ Alive' = Alive
      /\ DOMAIN arches' = {A \in DOMAIN arches : A = {} \/ arches[A].rows # <<>>}
      /\ \A A \in DOMAIN arches' : arches'[A] = arches[A]
  BY DEF Compact, Restrict, Alive
<1>2. ASSUME NEW x \in Alive PROVE loc[x].arch \in DOMAIN arches'
  <2>1. loc[x].arch \in DOMAIN arches /\ loc[x].row \in 1..Len(arches[loc[x].arch].rows)
    BY DataInPlace
  <2> QED BY <1>1, <2>1, EmptySeq
<1>3. loc' \in [Alive' -> [arch : DOMAIN arches', row : Nat]]
  BY <1>1, <1>2 DEF Placed
<1>4. Placed'
  BY <1>1, <1>3 DEF Placed
<1> QED BY <1>1, <1>2, <1>4 DEF DataOf

(***************************************************************************)
(* The allocator inside World takes the allocator's own steps.             *)
(***************************************************************************)

\* The allocator of the model and the one that is proved about are the same.
LEMMA SameAllocator ==
  /\ Ids!Entity = Allocator!Entity /\ Ids!Slots = Allocator!Slots
  /\ \A e : Ids!CreateEntity(e) <=> Allocator!CreateEntity(e)
  /\ \A e : Ids!CreateEntityPreassigned(e) <=> Allocator!CreateEntityPreassigned(e)
  /\ \A e : Ids!Unclaimed(e) <=> Allocator!Unclaimed(e)
  /\ \A e : Ids!CreateEntityPooled(e) <=> Allocator!CreateEntityPooled(e)
  /\ \A e : Ids!DestroyEntity(e) <=> Allocator!DestroyEntity(e)
  /\ \A e : Ids!DestroyEntityPooled(e) <=> Allocator!DestroyEntityPooled(e)
  /\ \A base : Ids!SetEntityRange(base) <=> Allocator!SetEntityRange(base)
  /\ Ids!BeginClear <=> Allocator!BeginClear
  /\ \A e : Ids!ClearOne(e) <=> Allocator!ClearOne(e)
  /\ Ids!EndClear <=> Allocator!EndClear
  /\ Ids!Reset <=> Allocator!Reset
<1>1. Ids!Entity = Allocator!Entity /\ Ids!Slots = Allocator!Slots
  BY DEF Ids!Entity, Allocator!Entity, Ids!Slots, Allocator!Slots,
         Ids!Generations, Allocator!Generations
<1>2. ASSUME NEW e PROVE Ids!CreateEntity(e) <=> Allocator!CreateEntity(e)
  BY DEF Ids!CreateEntity, Ids!AllocEntityId, Ids!OpenSlot, Ids!RecycleSlot, Ids!Top, Ids!Rest,
         Allocator!CreateEntity, Allocator!AllocEntityId, Allocator!OpenSlot,
         Allocator!RecycleSlot, Allocator!Top, Allocator!Rest
<1>3. ASSUME NEW e PROVE Ids!CreateEntityPreassigned(e) <=> Allocator!CreateEntityPreassigned(e)
  BY DEF Ids!CreateEntityPreassigned, Ids!Grown,
         Allocator!CreateEntityPreassigned, Allocator!Grown
<1>4. ASSUME NEW e PROVE Ids!Unclaimed(e) <=> Allocator!Unclaimed(e)
  <2>1. Ids!Pooled = Allocator!Pooled /\ (Ids!IsFree(e.slot) <=> Allocator!IsFree(e.slot))
    BY DEF Ids!IsFree, Ids!Pooled, Ids!Range, Allocator!IsFree, Allocator!Pooled, Allocator!Range
  <2> QED BY <2>1 DEF Ids!Unclaimed, Allocator!Unclaimed
<1>5. ASSUME NEW e PROVE Ids!CreateEntityPooled(e) <=> Allocator!CreateEntityPooled(e)
  BY <1>2 DEF Ids!CreateEntityPooled, Ids!CreateFromPool, Ids!Top, Ids!Rest,
         Allocator!CreateEntityPooled, Allocator!CreateFromPool, Allocator!Top, Allocator!Rest
<1>6. ASSUME NEW e PROVE Ids!FreeEntityId(e) <=> Allocator!FreeEntityId(e)
  BY DEF Ids!FreeEntityId, Allocator!FreeEntityId
<1>7. ASSUME NEW e PROVE /\ Ids!DestroyEntity(e) <=> Allocator!DestroyEntity(e)
                         /\ Ids!ClearOne(e) <=> Allocator!ClearOne(e)
  BY <1>6 DEF Ids!DestroyEntity, Ids!ClearOne, Allocator!DestroyEntity, Allocator!ClearOne
<1>8. ASSUME NEW e PROVE Ids!DestroyEntityPooled(e) <=> Allocator!DestroyEntityPooled(e)
  BY DEF Ids!DestroyEntityPooled, Allocator!DestroyEntityPooled
<1>9. ASSUME NEW base PROVE Ids!SetEntityRange(base) <=> Allocator!SetEntityRange(base)
  BY DEF Ids!SetEntityRange, Ids!Grown, Allocator!SetEntityRange, Allocator!Grown
<1>10. /\ Ids!BeginClear <=> Allocator!BeginClear
       /\ Ids!EndClear <=> Allocator!EndClear
       /\ Ids!Reset <=> Allocator!Reset
  BY DEF Ids!BeginClear, Allocator!BeginClear, Ids!EndClear, Allocator!EndClear,
         Ids!Reset, Allocator!Reset
<1> QED BY <1>1, <1>2, <1>3, <1>4, <1>5, <1>7, <1>8, <1>9, <1>10

\* So are their properties.
LEMMA SamePromises ==
  /\ Ids!TypeOK <=> Allocator!TypeOK
  /\ Ids!FreeSlotsUnowned <=> Allocator!FreeSlotsUnowned
  /\ Ids!StaleHandlesRejected <=> Allocator!StaleHandlesRejected
<1>1. Ids!Entity = Allocator!Entity /\ Ids!Generations = Allocator!Generations
  BY SameAllocator DEF Ids!Generations, Allocator!Generations
<1>2. /\ Ids!Pooled = Allocator!Pooled
      /\ \A s : Ids!IsFree(s) <=> Allocator!IsFree(s)
      /\ Ids!IsInjective(freeSlots) <=> Allocator!IsInjective(freeSlots)
  BY DEF Ids!IsFree, Ids!Pooled, Ids!Range, Ids!IsInjective,
         Allocator!IsFree, Allocator!Pooled, Allocator!Range, Allocator!IsInjective
<1>3. Ids!TypeOK <=> Allocator!TypeOK
  BY <1>1 DEF Ids!TypeOK, Allocator!TypeOK
<1>4. Ids!FreeSlotsUnowned <=> Allocator!FreeSlotsUnowned
  BY <1>2 DEF Ids!FreeSlotsUnowned, Allocator!FreeSlotsUnowned
<1> QED BY <1>3, <1>4 DEF Ids!StaleHandlesRejected, Allocator!StaleHandlesRejected

\* The constants of the world fit the allocator.
LEMMA AllocatorAssumption == Allocator!EntityIdsAssumption
BY WorldAssumption DEF WorldAssumption, Allocator!EntityIdsAssumption

(***************************************************************************)
(* Each operation keeps the places and takes a step of the store.          *)
(***************************************************************************)

Components == [e \in Alive |-> DataOf(e)]

\* create_entity() creates an entity of the store.
LEMMA CreationImplements ==
  ASSUME Placed, NEW e \in Ids!Entity, e \notin Alive, AddToEmptyArchetype(e)
  PROVE  Placed' /\ Store!Create(e)
<1>1. Store!NoComponents = <<>>
  BY EmptySeq, LenProperties DEF Store!NoComponents
<1>2. /\ Placed'
      /\ Alive' = Alive \cup {e}
      /\ DataOf(e)' = <<>>
      /\ \A x \in Alive : DataOf(x)' = DataOf(x)
  BY CreationKeepsPlaces
<1>3. Components' = [x \in Alive \cup {e} |-> IF x = e THEN <<>> ELSE Components[x]]
  BY <1>2 DEF Components
<1> QED BY <1>1, <1>2, <1>3 DEF Store!Create, Components

\* destroy_entity() destroys one.
LEMMA RemovalImplements ==
  ASSUME Placed, NEW e \in Alive, RemoveFromArchetype(e)
  PROVE  Placed' /\ Store!Destroy(e)
<1>1. /\ Placed'
      /\ Alive' = Alive \ {e}
      /\ \A x \in Alive' : DataOf(x)' = DataOf(x)
  BY RemovalKeepsPlaces
<1>2. Components' = [x \in Alive \ {e} |-> Components[x]]
  BY <1>1 DEF Components
<1> QED BY <1>1, <1>2 DEF Store!Destroy, Store!Restrict, Components

\* add_component() sets a component of one entity, with a move or without.
LEMMA AdditionImplements ==
  ASSUME Placed, NEW e \in Alive, NEW t \in Comp, NEW v \in Val, AddComponent(e, t, v)
  PROVE  Placed' /\ Alive' = Alive /\ UNCHANGED <<idVars, iterVars>> /\ Store!SetComponent(e, t, v)
<1> DEFINE A == loc[e].arch
<1>1. DataOf(e) \in DataType(A) /\ A \subseteq Comp
  BY DataInPlace
<1>2. ASSUME Alive' = Alive,
             DataOf(e)' = With(DataOf(e), t, v),
             \A x \in Alive : x # e => DataOf(x)' = DataOf(x)
      PROVE  Store!SetComponent(e, t, v)
  <2>1. Components' = [Components EXCEPT ![e] = With(DataOf(e), t, v)]
    BY Zenon, <1>2 DEF Components
  <2> QED BY <2>1 DEF Store!SetComponent, Store!Attached, With, Components
<1>3. CASE OverwriteComponent(e, t, v)
  <2>1. t \in A /\ UNCHANGED <<idVars, iterVars>>
    BY <1>3 DEF OverwriteComponent
  <2>2. [DataOf(e) EXCEPT ![t] = v] = With(DataOf(e), t, v)
    BY <1>1, <2>1 DEF DataType, With
  <2> QED BY <1>2, <1>3, <2>1, <2>2, OverwriteKeepsPlaces
<1>4. CASE AttachComponent(e, t, v)
  <2> DEFINE B == A \cup {t}
             data == With(DataOf(e), t, v)
  <2>1. B # A /\ B \in SUBSET Comp /\ MoveEntityTo(e, B, data) /\ UNCHANGED <<idVars, iterVars>>
    BY <1>1, <1>4 DEF AttachComponent
  <2>2. data \in DataType(B)
    BY <1>1 DEF With, DataType
  <2> HIDE DEF data, B
  <2>3. /\ Placed' /\ Alive' = Alive
        /\ DataOf(e)' = data
        /\ \A x \in Alive : x # e => DataOf(x)' = DataOf(x)
    BY <2>1, <2>2, MoveKeepsPlaces
  <2> QED BY <1>2, <2>1, <2>3 DEF data
<1> QED BY <1>3, <1>4 DEF AddComponent

\* remove_component() removes a component of one entity.
LEMMA DetachmentImplements ==
  ASSUME Placed, NEW e \in Alive, NEW t \in Comp, RemoveComponent(e, t)
  PROVE  Placed' /\ Alive' = Alive /\ UNCHANGED <<idVars, iterVars>> /\ Store!RemoveComponent(e, t)
<1> DEFINE A == loc[e].arch
           B == A \ {t}
           data == Restrict(DataOf(e), B)
<1>1. DataOf(e) \in DataType(A) /\ A \subseteq Comp
  BY DataInPlace
<1>2. B # A /\ B \in SUBSET Comp /\ MoveEntityTo(e, B, data) /\ UNCHANGED <<idVars, iterVars>>
  BY <1>1 DEF RemoveComponent
<1>3. data \in DataType(B)
  BY <1>1 DEF Restrict, DataType
<1>4. DOMAIN DataOf(e) = A
  BY <1>1 DEF DataType
<1> HIDE DEF data
<1>5. /\ Placed' /\ Alive' = Alive
      /\ DataOf(e)' = data
      /\ \A x \in Alive : x # e => DataOf(x)' = DataOf(x)
  BY <1>2, <1>3, MoveKeepsPlaces
<1>6. Components' = [Components EXCEPT ![e] = data]
  BY <1>5 DEF Components
<1>7. Components[e] = DataOf(e)
  BY DEF Components
<1>8. Store!RemoveComponent(e, t)
  BY <1>4, <1>6, <1>7 DEF Store!RemoveComponent, Store!Attached, Store!Restrict, Restrict,
                          Components, data
<1> QED BY <1>2, <1>5, <1>8

\* compact() deletes archetypes that nobody is in.
LEMMA CompactImplements ==
  ASSUME Placed, Compact
  PROVE  Placed' /\ Alive' = Alive /\ Components' = Components
BY CompactKeepsPlaces DEF Components

\* Steps of the allocator alone leave the store as it is.
LEMMA UnchangedPlaces ==
  ASSUME Placed, UNCHANGED <<loc, arches>>
  PROVE  Placed' /\ Alive' = Alive /\ Components' = Components
<1>1. Alive' = Alive /\ \A x : DataOf(x)' = DataOf(x)
  BY DEF Alive, DataOf
<1> QED BY <1>1 DEF Placed, Components

\* Every step of the world is a step of the allocator or none.
LEMMA AllocatorSteps ==
  ASSUME Placed, [Next]_vars
  PROVE  [Allocator!NextUnclaimed]_(Allocator!idVars)
<1>1. ASSUME Alive' = Alive, UNCHANGED idVars PROVE UNCHANGED Allocator!idVars
  BY <1>1 DEF idVars, Allocator!idVars
<1>2. ASSUME EntityStep, ~clearing PROVE Allocator!NextUnclaimed
  BY <1>2, SameAllocator
     DEF EntityStep, CreateEntity, CreateUnclaimed, CreateEntityPreassigned,
         CreateEntityPooled, DestroyEntity, DestroyEntityPooled, SetEntityRange,
         Allocator!NextUnclaimed, Allocator!LocalStep, Allocator!CreateUnclaimed
<1>3. ASSUME ClearStep, clearing PROVE Allocator!NextUnclaimed
  BY <1>3, SameAllocator
     DEF ClearStep, ClearOne, EndClear, Allocator!NextUnclaimed, Allocator!ClearStep
<1>4. ASSUME BeginClear \/ Reset, ~clearing PROVE Allocator!NextUnclaimed
  BY <1>4, SameAllocator
     DEF BeginClear, Reset, Allocator!NextUnclaimed, Allocator!LocalStep
<1>5. ASSUME BeginIteration \/ EndIteration \/ UNCHANGED vars PROVE UNCHANGED Allocator!idVars
  BY <1>1, <1>5 DEF BeginIteration, EndIteration, vars, idVars, Alive
<1>6. ASSUME Compact PROVE UNCHANGED Allocator!idVars
  BY <1>1, <1>6, CompactKeepsPlaces DEF Compact
<1>7. ASSUME ComponentStep PROVE UNCHANGED Allocator!idVars
  BY <1>1, <1>7, AdditionImplements, DetachmentImplements DEF ComponentStep
<1> QED BY <1>2, <1>3, <1>4, <1>5, <1>6, <1>7 DEF Next, Step

(***************************************************************************)
(* The invariant, preserved by every step.                                 *)
(***************************************************************************)

\* A walk under way is what keeps rows from moving: the depth counts the walks
\* and clear() begins outside them.
WalksCounted ==
  /\ iterDepth = walks
  /\ walks \in 0..MaxNesting
  /\ clearing => walks = 0

WorldInv == Allocator!IdsInv /\ Placed /\ WalksCounted

\* The id of a new entity is that of no entity there is.
LEMMA NewIdIsNotAlive ==
  ASSUME Allocator!IdsInv, NEW e,
         Ids!CreateEntity(e) \/ Ids!CreateEntityPreassigned(e) \/ Ids!CreateEntityPooled(e)
  PROVE  e \notin Alive
BY SameAllocator, AllocatorAssumption, Allocator!CreatedIdIsNew

\* Every step of the world is a step of the store or none.
LEMMA StepImplements ==
  ASSUME WorldInv, [Next]_vars
  PROVE  Placed' /\ (Store!Next \/ Components' = Components)
<1> USE DEF WorldInv
<1>1. ASSUME NEW e \in Ids!Entity,
             CreateEntity(e) \/ CreateUnclaimed(e) \/ CreateEntityPooled(e)
      PROVE  Placed' /\ Store!Next
  <2>1. e \notin Alive /\ AddToEmptyArchetype(e)
    BY <1>1, NewIdIsNotAlive
       DEF CreateEntity, CreateUnclaimed, CreateEntityPreassigned, CreateEntityPooled
  <2> QED BY <2>1, CreationImplements DEF Store!Next
<1>2. ASSUME NEW e \in Alive,
             DestroyEntity(e) \/ DestroyEntityPooled(e) \/ ClearOne(e)
      PROVE  Placed' /\ Store!Next
  <2>1. RemoveFromArchetype(e) /\ e \in Ids!Entity
    BY <1>2, DataInPlace DEF DestroyEntity, DestroyEntityPooled, ClearOne
  <2> QED BY <2>1, RemovalImplements DEF Store!Next
<1>3. ASSUME ComponentStep PROVE Placed' /\ Store!Next
  BY <1>3, DataInPlace, AdditionImplements, DetachmentImplements DEF ComponentStep, Store!Next
<1>4. ASSUME Compact PROVE Placed' /\ Components' = Components
  BY <1>4, CompactImplements
<1>5. ASSUME \/ BeginClear \/ EndClear \/ Reset
             \/ BeginIteration \/ EndIteration \/ UNCHANGED vars
             \/ \E base \in 0..ForeignLimit : SetEntityRange(base)
      PROVE  Placed' /\ Components' = Components
  <2>1. UNCHANGED <<loc, arches>>
    BY <1>5 DEF BeginClear, EndClear, Reset, BeginIteration, EndIteration, SetEntityRange, vars
  <2> QED BY <2>1, UnchangedPlaces
<1> QED
  BY <1>1, <1>2, <1>3, <1>4, <1>5 DEF Next, Step, EntityStep, ClearStep

\* The depth of iteration counts the walks under way.
LEMMA StepCountsWalks ==
  ASSUME Placed, WalksCounted, [Next]_vars
  PROVE  WalksCounted'
<1> USE WorldAssumption DEF WalksCounted, WorldAssumption
<1>1. ASSUME UNCHANGED iterVars, clearing' => clearing PROVE WalksCounted'
  BY <1>1 DEF iterVars
<1>2. ASSUME EntityStep PROVE WalksCounted'
  BY <1>1, <1>2
     DEF EntityStep, CreateEntity, CreateUnclaimed, CreateEntityPreassigned,
         CreateEntityPooled, DestroyEntity, DestroyEntityPooled, SetEntityRange,
         Ids!CreateEntity, Ids!CreateEntityPreassigned, Ids!CreateEntityPooled,
         Ids!CreateFromPool, Ids!DestroyEntity, Ids!DestroyEntityPooled, Ids!SetEntityRange
<1>3. ASSUME ComponentStep PROVE WalksCounted'
  BY <1>1, <1>3, AdditionImplements, DetachmentImplements DEF ComponentStep, idVars
<1>4. ASSUME BeginClear PROVE WalksCounted'
  BY <1>4 DEF BeginClear, InIteration, iterVars
<1>5. ASSUME ClearStep PROVE WalksCounted'
  BY <1>1, <1>5 DEF ClearStep, ClearOne, EndClear, Ids!ClearOne, Ids!EndClear
<1>6. ASSUME Reset, walks = 0 PROVE WalksCounted'
  BY <1>6 DEF Reset, Ids!Reset
<1>7. ASSUME BeginIteration \/ EndIteration, ~clearing PROVE WalksCounted'
  BY <1>7 DEF BeginIteration, EndIteration, idVars
<1>8. ASSUME Compact \/ UNCHANGED vars PROVE WalksCounted'
  BY <1>1, <1>8 DEF Compact, vars, idVars, iterVars
<1> QED BY <1>2, <1>3, <1>4, <1>5, <1>6, <1>7, <1>8 DEF Next, Step

\* The invariant holds in every world.
THEOREM WorldInvariant == Spec => []WorldInv
<1>1. Init => WorldInv
  <2> SUFFICES ASSUME Init PROVE WorldInv
    OBVIOUS
  <2>1. Alive = {} /\ loc = [e \in {} |-> 0]
    BY DEF Init, Alive
  <2>2. Allocator!IdsInv
    <3>1. Allocator!Init
      BY <2>1 DEF Init, Allocator!Init
    <3> QED BY <3>1, AllocatorAssumption, Allocator!EmptyWorldInv
  <2>3. Placed
    <3>1. DOMAIN arches = {{}} /\ arches[{}] = EmptyArchetype
      BY DEF Init
    <3>2. loc \in [Alive -> [arch : DOMAIN arches, row : Nat]]
      BY <2>1
    <3> QED BY <2>1, <3>1, <3>2, EmptyArchetypeWellFormed DEF Placed
  <2>4. WalksCounted
    BY WorldAssumption DEF Init, WalksCounted, WorldAssumption
  <2> QED BY <2>2, <2>3, <2>4 DEF WorldInv
<1>2. WorldInv /\ [Next]_vars => WorldInv'
  <2> SUFFICES ASSUME WorldInv, [Next]_vars PROVE WorldInv'
    OBVIOUS
  <2>1. Allocator!IdsInv'
    BY AllocatorSteps, AllocatorAssumption, Allocator!StepPreserves DEF WorldInv
  <2> QED BY <2>1, StepImplements, StepCountsWalks DEF WorldInv
<1> QED BY <1>1, <1>2, PTL DEF Spec

\* What the allocator promises, it promises in the world.
LEMMA WorldKeepsPromises ==
  ASSUME WorldInv
  PROVE  Ids!TypeOK /\ Ids!FreeSlotsUnowned /\ Ids!StaleHandlesRejected
BY SamePromises, AllocatorAssumption, Allocator!IdsInvSuffices DEF WorldInv

\* create_entity() never returns the id of an entity that exists, as long as
\* callers name unclaimed ids: no slot on the free stack has an owner, and none
\* is there twice (_alloc_entity_id).
THEOREM FreeSlotsStayUnowned == Spec => []FreeSlotsUnowned
<1>1. WorldInv => FreeSlotsUnowned
  BY WorldKeepsPromises DEF FreeSlotsUnowned
<1> QED BY <1>1, WorldInvariant, PTL

\* A handle to a destroyed entity is rejected for ever, whatever is created on
\* its slot afterwards.
THEOREM StaleHandlesStayRejected == Spec => []StaleHandlesRejected
<1>1. WorldInv => StaleHandlesRejected
  BY WorldKeepsPromises DEF StaleHandlesRejected
<1> QED BY <1>1, WorldInvariant, PTL

\* Entity, row and archetype agree: the location of an entity leads to its row
\* and every row belongs to the entity whose location leads to it.
THEOREM LocationsStayInAgreement == Spec => []LocationsAgree
<1>1. ASSUME Placed PROVE LocationsAgree
  <2>1. ASSUME NEW A \in DOMAIN arches
        PROVE  /\ DOMAIN arches[A].rows = 1..Len(arches[A].rows)
               /\ DOMAIN arches[A].rowOf = {e \in Alive : loc[e].arch = A}
    BY <1>1, LenProperties DEF Placed, WellFormed
  <2>2. ASSUME NEW e \in Alive
        PROVE  /\ loc[e].arch \in DOMAIN arches
               /\ loc[e].row \in DOMAIN arches[loc[e].arch].rows
               /\ arches[loc[e].arch].rows[loc[e].row].ent = e
    BY <1>1, <2>1, DataInPlace
  <2>3. ASSUME NEW A \in DOMAIN arches, NEW r \in DOMAIN arches[A].rows, NEW e,
               e = arches[A].rows[r].ent
        PROVE  e \in Alive /\ loc[e] = [arch |-> A, row |-> r] /\ arches[A].rowOf[e] = r
    <3>1. e \in DOMAIN arches[A].rowOf /\ arches[A].rowOf[e] = r
      <4>1. r \in 1..Len(arches[A].rows)
        BY <2>1, <2>3
      <4>2. WellFormed(arches[A], A)
        BY <1>1 DEF Placed
      <4> QED BY <2>3, <4>1, <4>2 DEF WellFormed
    <3>2. e \in Alive /\ loc[e].arch = A /\ loc[e].row = r
      BY <1>1, <3>1 DEF Placed
    <3>3. loc[e] \in [arch : DOMAIN arches, row : Nat]
      BY <1>1, <3>2 DEF Placed
    <3> QED BY <3>1, <3>2, <3>3
  <2>4. {} \in DOMAIN arches
    BY <1>1 DEF Placed
  <2> QED BY <2>1, <2>2, <2>3, <2>4 DEF LocationsAgree
<1>2. WorldInv => LocationsAgree
  BY <1>1 DEF WorldInv
<1> QED BY <1>2, WorldInvariant, PTL

\* The rows of an archetype belong to as many slots, so that they never run
\* out of row numbers.
LEMMA RowsFitSlots ==
  ASSUME WorldInv, NEW A \in DOMAIN arches
  PROVE  1..Len(arches[A].rows) \subseteq Ids!Slots
<1> DEFINE a == arches[A]
           n == Len(a.rows)
           slotOf == [r \in 1..n |-> a.rows[r].ent.slot]
<1>1. WellFormed(a, A) /\ DOMAIN a.rowOf \subseteq Alive
  BY DEF WorldInv, Placed
<1>2. /\ n \in Nat
      /\ \A r \in 1..n : a.rows[r].ent \in Alive /\ a.rowOf[a.rows[r].ent] = r
  BY <1>1, LenProperties DEF WellFormed
<1>3. /\ Alive \subseteq Allocator!Entity
      /\ \A e, f \in Alive : e.slot = f.slot => e = f
  BY DEF WorldInv, Allocator!IdsInv, Allocator!TypeOK, Allocator!OneEntityPerSlot
<1>4. \A r \in 1..n : a.rows[r].ent.slot \in 1..SlotLimit
  BY <1>2, <1>3 DEF Allocator!Entity, Allocator!Slots
<1>5. \A r, q \in 1..n : slotOf[r] = slotOf[q] => r = q
  <2> SUFFICES ASSUME NEW r \in 1..n, NEW q \in 1..n,
                      a.rows[r].ent.slot = a.rows[q].ent.slot
               PROVE  r = q
    OBVIOUS
  <2> HIDE DEF a, n
  <2>1. a.rows[r].ent = a.rows[q].ent
    BY <1>2, <1>3
  <2> QED BY <1>2, <2>1
<1>6. slotOf \in Injection(1..n, 1..SlotLimit)
  <2>1. slotOf \in [1..n -> 1..SlotLimit]
    BY <1>4
  <2> HIDE DEF slotOf
  <2> QED BY <1>5, <2>1 DEF Injection, IsInjective
<1>7. /\ IsFiniteSet(1..SlotLimit)
      /\ Cardinality(1..SlotLimit) = SlotLimit
      /\ Cardinality(1..n) = n
  <2>1. /\ SlotLimit \in Int /\ 0 < SlotLimit
        /\ n \in Int /\ (1 > n => n = 0)
    BY <1>2, WorldAssumption DEF WorldAssumption
  <2>2. IsFiniteSet(1..SlotLimit) /\ Cardinality(1..SlotLimit) = SlotLimit
    BY <2>1, FS_Interval
  <2>3. Cardinality(1..n) = n
    BY <2>1, FS_Interval
  <2> QED BY <2>2, <2>3
<1> HIDE DEF slotOf
<1>8. n <= SlotLimit
  BY <1>6, <1>7, FS_Injection
<1> QED BY <1>2, <1>8, WorldAssumption DEF Ids!Slots, WorldAssumption

\* Every variable keeps its type; no archetype has more rows than there are
\* slots.
THEOREM WorldTypeOK == Spec => []TypeOK
<1>1. ASSUME WorldInv PROVE TypeOK
  <2> USE <1>1 DEF WorldInv
  <2>1. Ids!TypeOK
    BY WorldKeepsPromises
  <2>2. loc \in [Alive -> Location]
    <3>1. \A e \in Alive : loc[e] \in [arch : DOMAIN arches, row : Nat]
      BY DEF Placed
    <3>2. \A e \in Alive : loc[e].arch \in SUBSET Comp /\ loc[e].row \in Ids!Slots
      BY DataInPlace, RowsFitSlots
    <3>3. \A e \in Alive : loc[e] \in Location
      BY <3>1, <3>2 DEF Location
    <3> QED BY <3>3 DEF Placed
  <2>3. ASSUME NEW A \in DOMAIN arches
        PROVE  /\ arches[A].rows \in Seq([ent : Ids!Entity, data : [A -> Val]])
               /\ arches[A].rowOf \in [DOMAIN arches[A].rowOf -> Ids!Slots]
    <3>1. WellFormed(arches[A], A) /\ 1..Len(arches[A].rows) \subseteq Ids!Slots
      BY RowsFitSlots DEF Placed
    <3>2. arches[A].rowOf \in [DOMAIN arches[A].rowOf -> 1..Len(arches[A].rows)]
      BY <3>1 DEF WellFormed
    <3>3. arches[A].rowOf \in [DOMAIN arches[A].rowOf -> Ids!Slots]
      BY <3>1, <3>2
    <3> QED BY <3>1, <3>3 DEF WellFormed, RowType, DataType
  <2>4. iterDepth \in 0..MaxNesting /\ walks \in 0..MaxNesting
    BY DEF WalksCounted
  <2> QED BY <2>1, <2>2, <2>3, <2>4 DEF TypeOK, Placed
<1> QED BY <1>1, WorldInvariant, PTL

\* While a walk is under way the rows it can visit stay those of the same
\* entities: every operation that moves rows is refused inside a walk.
THEOREM RowsStayDuringWalk == Spec => RowsStableDuringWalk
<1> DEFINE Stable == \A A \in DOMAIN arches \ {{}} :
                       /\ A \in DOMAIN arches'
                       /\ Len(arches'[A].rows) = Len(arches[A].rows)
                       /\ \A r \in DOMAIN arches[A].rows :
                            arches'[A].rows[r].ent = arches[A].rows[r].ent
<1>1. ASSUME UNCHANGED arches PROVE Stable
  BY <1>1
<1>2. ASSUME NEW e, AddToEmptyArchetype(e) PROVE Stable
  BY <1>2 DEF AddToEmptyArchetype
<1>3. ASSUME Placed, NEW e \in Alive, NEW t, NEW v \in Val, OverwriteComponent(e, t, v)
      PROVE  Stable
  <2>1. \A A \in DOMAIN arches : DOMAIN arches[A].rows = 1..Len(arches[A].rows)
    BY <1>3, LenProperties DEF Placed, WellFormed
  <2> QED BY <1>3, <2>1, OverwriteKeepsPlaces
<1> HIDE DEF Stable
<1>4. ASSUME WorldInv, [Next]_vars, walks > 0, walks' > 0 PROVE Stable
  <2>1. InIteration /\ ~clearing
    BY <1>4 DEF WorldInv, WalksCounted, InIteration
  <2>2. CASE EntityStep
    BY <1>1, <1>2, <2>1, <2>2
       DEF EntityStep, CreateEntity, CreateUnclaimed, CreateEntityPreassigned,
           CreateEntityPooled, DestroyEntity, DestroyEntityPooled, SetEntityRange
  <2>3. CASE ComponentStep
    BY <1>3, <1>4, <2>1, <2>3
       DEF ComponentStep, AddComponent, AttachComponent, RemoveComponent, WorldInv
  <2>4. CASE BeginClear \/ BeginIteration \/ EndIteration \/ UNCHANGED vars
    BY <1>1, <2>4 DEF BeginClear, BeginIteration, EndIteration, vars
  <2> QED
    BY <1>4, <2>1, <2>2, <2>3, <2>4, WorldAssumption
       DEF Next, Step, WorldInv, WalksCounted, WorldAssumption
<1>5. WorldInv /\ [Next]_vars => [walks > 0 /\ walks' > 0 => Stable]_vars
  BY <1>4
<1>6. Spec => [][walks > 0 /\ walks' > 0 => Stable]_vars
  BY <1>5, WorldInvariant, PTL DEF Spec
<1> QED BY <1>6 DEF Stable, RowsStableDuringWalk

\* World implements the store: an operation changes the components of the
\* entity it was called for and of no other.
THEOREM WorldImplementsStore == Spec => ImplementsStore
<1>1. Init => Store!Init
  BY DEF Init, Alive, Store!Init
<1>2. WorldInv /\ [Next]_vars => [Store!Next]_Components
  BY StepImplements
<1>3. Spec => Store!Init /\ [][Store!Next]_Components
  BY <1>1, <1>2, WorldInvariant, PTL DEF Spec
<1> QED BY <1>3, PTL DEF ImplementsStore, Store!Spec, Components
=============================================================================

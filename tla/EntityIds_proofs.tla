--------------------------- MODULE EntityIds_proofs ---------------------------
(***************************************************************************)
(* The id allocator hands out ids that are nobody else's, and a destroyed  *)
(* id stays dead, for every number of slots and generations, as long as    *)
(* callers that name an id themselves name an unclaimed one.               *)
(***************************************************************************)
EXTENDS EntityIds, SequenceTheorems, TLAPS

(***************************************************************************)
(* The inductive invariant.                                                *)
(***************************************************************************)

\* An id that is alive or pooled carries the current generation of its slot.
CurrentGenerations ==
  \A e \in live \cup Pooled :
    e.slot \in DOMAIN slotGen /\ slotGen[e.slot] = e.gen

\* The slot of a recycled id either moved on to a later generation or is
\* retired: at the last generation, off the free stack and without an owner.
RecycledOutdated ==
  \A e \in recycled :
    /\ e.slot \in DOMAIN slotGen
    /\ \/ e.gen < slotGen[e.slot]
       \/ /\ slotGen[e.slot] = MaxGen
          /\ ~IsFree(e.slot)
          /\ \A f \in live \cup Pooled : f.slot # e.slot

\* The types of the vector of generations and of the free stack on their own.
SlotsTyped ==
  /\ slotGen \in Seq(Generations) /\ Len(slotGen) <= SlotLimit
  /\ freeSlots \in Seq(DOMAIN slotGen)

IdsInv ==
  /\ TypeOK
  /\ OneEntityPerSlot
  /\ FreeSlotsUnowned
  /\ CurrentGenerations
  /\ RecycledOutdated

(***************************************************************************)
(* Stacks and the growing vector of generations.                           *)
(***************************************************************************)

\* pop_back() takes the top off; without duplicates the top is gone.
LEMMA PopStack ==
  ASSUME NEW S, NEW q \in Seq(S), q # <<>>
  PROVE  /\ Top(q) \in S
         /\ Top(q) \in Range(q)
         /\ Rest(q) \in Seq(S)
         /\ Range(Rest(q)) \subseteq Range(q)
         /\ IsInjective(q) => /\ Range(Rest(q)) = Range(q) \ {Top(q)}
                             /\ IsInjective(Rest(q))
<1>1. /\ Len(q) \in Nat \ {0}
      /\ DOMAIN q = 1..Len(q)
      /\ \A i \in 1..Len(q) : q[i] \in S
  BY EmptySeq, LenProperties, ElementOfSeq
<1>2. /\ Rest(q) \in Seq(S)
      /\ Len(Rest(q)) = Len(q) - 1
      /\ \A i \in 1..Len(q) - 1 : Rest(q)[i] = q[i]
  <2>1. /\ SubSeq(q, 1, Len(q) - 1) \in Seq(S)
        /\ Len(SubSeq(q, 1, Len(q) - 1)) =
             IF 1 <= Len(q) - 1 THEN (Len(q) - 1) - 1 + 1 ELSE 0
        /\ \A i \in 1..(Len(q) - 1) - 1 + 1 :
             SubSeq(q, 1, Len(q) - 1)[i] = q[1 + i - 1]
    BY <1>1, SubSeqProperties
  <2> QED BY <1>1, <2>1 DEF Rest
<1>3. DOMAIN Rest(q) = 1..Len(q) - 1
  BY <1>2, LenProperties
<1>4. Top(q) \in S /\ Top(q) \in Range(q)
  BY <1>1 DEF Top, Range
<1>5. ASSUME IsInjective(q)
      PROVE  IsInjective(Rest(q)) /\ Range(Rest(q)) = Range(q) \ {Top(q)}
  <2>1. IsInjective(Rest(q))
    BY <1>1, <1>2, <1>3, <1>5 DEF IsInjective
  <2>2. Range(Rest(q)) = Range(q) \ {Top(q)}
    BY <1>1, <1>2, <1>3, <1>5 DEF IsInjective, Range, Top
  <2> QED BY <2>1, <2>2
<1>6. Range(Rest(q)) \subseteq Range(q)
  BY <1>1, <1>2, <1>3 DEF Range
<1> QED BY <1>2, <1>4, <1>5, <1>6

\* push_back() adds one element, and no duplicate if the element is new.
LEMMA PushStack ==
  ASSUME NEW S, NEW q \in Seq(S), NEW x \in S
  PROVE  /\ Append(q, x) \in Seq(S)
         /\ Range(Append(q, x)) = Range(q) \cup {x}
         /\ IsInjective(q) /\ x \notin Range(q) => IsInjective(Append(q, x))
<1>1. /\ Append(q, x) \in Seq(S)
      /\ Len(Append(q, x)) = Len(q) + 1
      /\ \A i \in 1..Len(q) : Append(q, x)[i] = q[i]
      /\ Append(q, x)[Len(q) + 1] = x
  BY AppendProperties
<1>2. /\ Len(q) \in Nat
      /\ DOMAIN q = 1..Len(q)
      /\ DOMAIN Append(q, x) = 1..Len(q) + 1
  BY <1>1, LenProperties
<1>3. Range(Append(q, x)) = Range(q) \cup {x}
  BY <1>1, <1>2 DEF Range
<1>4. IsInjective(q) /\ x \notin Range(q) => IsInjective(Append(q, x))
  BY <1>1, <1>2 DEF IsInjective, Range
<1> QED BY <1>1, <1>3, <1>4

\* resize() keeps the generations there are and adds slots at generation 0.
LEMMA GrownSlots ==
  ASSUME EntityIdsAssumption, slotGen \in Seq(Generations),
         Len(slotGen) <= SlotLimit, NEW n \in 0..SlotLimit
  PROVE  /\ Grown(n) \in Seq(Generations)
         /\ Len(Grown(n)) <= SlotLimit
         /\ n \in 1..SlotLimit => n \in DOMAIN Grown(n)
         /\ DOMAIN slotGen \subseteq DOMAIN Grown(n)
         /\ \A s \in DOMAIN slotGen : Grown(n)[s] = slotGen[s]
<1> DEFINE len == IF n > Len(slotGen) THEN n ELSE Len(slotGen)
           gen(s) == IF s \in DOMAIN slotGen THEN slotGen[s] ELSE 0
<1>1. /\ Len(slotGen) \in Nat
      /\ DOMAIN slotGen = 1..Len(slotGen)
      /\ \A s \in 1..Len(slotGen) : slotGen[s] \in Generations
  BY LenProperties, ElementOfSeq
<1>2. len \in Nat /\ len <= SlotLimit /\ len >= n /\ len >= Len(slotGen)
  BY <1>1 DEF EntityIdsAssumption
<1>3. \A s \in 1..len : gen(s) \in Generations
  BY <1>1 DEF Generations, EntityIdsAssumption
<1>4. Grown(n) = [s \in 1..len |-> gen(s)]
  BY DEF Grown
<1> HIDE DEF len, gen
<1>5. Grown(n) \in [1..len -> Generations]
  BY <1>3, <1>4
<1>6. Grown(n) \in Seq(Generations) /\ Len(Grown(n)) = len
  BY <1>2, <1>5, SeqDef, LenProperties
<1>7. \A s \in DOMAIN slotGen : Grown(n)[s] = slotGen[s]
  BY <1>1, <1>2, <1>4 DEF gen
<1> QED BY <1>1, <1>2, <1>5, <1>6, <1>7

(***************************************************************************)
(* What the operations do to the stack and the generations.                *)
(***************************************************************************)

\* An allocation takes the top of the free stack or opens a slot.
LEMMA AllocTakesSlot ==
  ASSUME EntityIdsAssumption, SlotsTyped, NEW id, AllocEntityId(id)
  PROVE  /\ id \in Entity
         /\ SlotsTyped'
         /\ DOMAIN slotGen \subseteq DOMAIN slotGen'
         /\ \A s \in DOMAIN slotGen : slotGen'[s] = slotGen[s]
         /\ id.slot \in DOMAIN slotGen' /\ slotGen'[id.slot] = id.gen
         /\ id.slot \in DOMAIN slotGen => IsFree(id.slot)
         /\ Range(freeSlots') \subseteq Range(freeSlots)
         /\ IsInjective(freeSlots) =>
              /\ IsInjective(freeSlots')
              /\ Range(freeSlots') = Range(freeSlots) \ {id.slot}
<1>1. /\ slotGen \in Seq(Generations) /\ freeSlots \in Seq(DOMAIN slotGen)
      /\ Len(slotGen) \in Nat /\ Len(slotGen) <= SlotLimit
      /\ DOMAIN slotGen = 1..Len(slotGen)
      /\ \A s \in DOMAIN slotGen : slotGen[s] \in Generations
      /\ 0 \in Generations
  BY LenProperties, ElementOfSeq DEF SlotsTyped, Generations, EntityIdsAssumption
<1>2. CASE OpenSlot(id)
  <2>1. /\ freeSlots = <<>> /\ freeSlots' = freeSlots
        /\ Len(slotGen) < SlotLimit
        /\ id = [slot |-> Len(slotGen) + 1, gen |-> 0]
        /\ slotGen' = Append(slotGen, 0)
    BY <1>2 DEF OpenSlot
  <2>2. /\ slotGen' \in Seq(Generations)
        /\ Len(slotGen') = Len(slotGen) + 1
        /\ DOMAIN slotGen' = 1..Len(slotGen) + 1
        /\ \A s \in DOMAIN slotGen : slotGen'[s] = slotGen[s]
        /\ slotGen'[Len(slotGen) + 1] = 0
    BY <1>1, <2>1, AppendProperties, LenProperties
  <2>3. id \in Entity
    BY <1>1, <2>1 DEF Entity, Slots, EntityIdsAssumption
  <2>4. id.slot \notin DOMAIN slotGen
    BY <1>1, <2>1
  <2>5. SlotsTyped'
    BY <1>1, <2>1, <2>2, EmptySeq DEF SlotsTyped, EntityIdsAssumption
  <2>6. Range(freeSlots') = {} /\ Range(freeSlots) = {}
    BY <2>1 DEF Range
  <2> QED BY <1>1, <2>1, <2>2, <2>3, <2>4, <2>5, <2>6
<1>3. CASE RecycleSlot(id)
  <2>1. /\ freeSlots # <<>>
        /\ id = [slot |-> Top(freeSlots), gen |-> slotGen[Top(freeSlots)]]
        /\ freeSlots' = Rest(freeSlots) /\ slotGen' = slotGen
    BY <1>3 DEF RecycleSlot
  <2>2. /\ Top(freeSlots) \in DOMAIN slotGen /\ IsFree(Top(freeSlots))
        /\ freeSlots' \in Seq(DOMAIN slotGen)
        /\ Range(freeSlots') \subseteq Range(freeSlots)
        /\ IsInjective(freeSlots) =>
             /\ IsInjective(freeSlots')
             /\ Range(freeSlots') = Range(freeSlots) \ {Top(freeSlots)}
    BY <1>1, <2>1, PopStack DEF IsFree
  <2>3. id \in Entity
    BY <1>1, <2>1, <2>2 DEF Entity, Slots, EntityIdsAssumption
  <2>4. SlotsTyped'
    BY <1>1, <2>1, <2>2 DEF SlotsTyped
  <2> QED BY <1>1, <2>1, <2>2, <2>3, <2>4
<1> QED BY <1>2, <1>3 DEF AllocEntityId

\* Releasing the current id of a slot either puts the slot on the free stack,
\* one generation on, or retires it.
LEMMA FreeReleasesSlot ==
  ASSUME EntityIdsAssumption, SlotsTyped, NEW id \in Entity,
         id.slot \in DOMAIN slotGen, slotGen[id.slot] = id.gen, FreeEntityId(id)
  PROVE  /\ SlotsTyped'
         /\ DOMAIN slotGen' = DOMAIN slotGen
         /\ \A s \in DOMAIN slotGen : s # id.slot => slotGen'[s] = slotGen[s]
         /\ IsInjective(freeSlots) /\ ~IsFree(id.slot) => IsInjective(freeSlots')
         /\ \/ /\ slotGen'[id.slot] = id.gen + 1
               /\ Range(freeSlots') = Range(freeSlots) \cup {id.slot}
            \/ /\ id.gen = MaxGen /\ slotGen'[id.slot] = MaxGen
               /\ Range(freeSlots') = Range(freeSlots)
<1>1. /\ slotGen \in Seq(Generations) /\ freeSlots \in Seq(DOMAIN slotGen)
      /\ Len(slotGen) \in Nat /\ Len(slotGen) <= SlotLimit
      /\ DOMAIN slotGen = 1..Len(slotGen)
  BY LenProperties DEF SlotsTyped
<1>2. CASE id.gen < MaxGen
  <2>1. /\ slotGen' = [slotGen EXCEPT ![id.slot] = id.gen + 1]
        /\ freeSlots' = Append(freeSlots, id.slot)
    BY <1>1, <1>2 DEF FreeEntityId
  <2>2. id.gen + 1 \in Generations
    BY <1>2 DEF Generations, Entity, EntityIdsAssumption
  <2>3. /\ slotGen' \in Seq(Generations)
        /\ Len(slotGen') = Len(slotGen)
        /\ DOMAIN slotGen' = DOMAIN slotGen
        /\ \A s \in DOMAIN slotGen :
             slotGen'[s] = IF s = id.slot THEN id.gen + 1 ELSE slotGen[s]
    BY <1>1, <2>1, <2>2, ExceptSeq
  <2>4. /\ freeSlots' \in Seq(DOMAIN slotGen)
        /\ Range(freeSlots') = Range(freeSlots) \cup {id.slot}
        /\ IsInjective(freeSlots) /\ ~IsFree(id.slot) => IsInjective(freeSlots')
    BY <1>1, <2>1, PushStack DEF IsFree
  <2> QED BY <1>1, <2>3, <2>4 DEF SlotsTyped
<1>3. CASE ~(id.gen < MaxGen)
  <2>1. slotGen' = slotGen /\ freeSlots' = freeSlots
    BY <1>3 DEF FreeEntityId
  <2>2. id.gen = MaxGen
    BY <1>3 DEF Entity, Generations, EntityIdsAssumption
  <2> QED BY <1>1, <2>1, <2>2 DEF SlotsTyped
<1> QED BY <1>2, <1>3

\* A slot that is named exists from then on, at the generation that is named.
LEMMA NamedSlot ==
  ASSUME EntityIdsAssumption, slotGen \in Seq(Generations), Len(slotGen) <= SlotLimit,
         NEW s \in Slots, NEW g \in Generations
  PROVE  LET named == [Grown(s) EXCEPT ![s] = g] IN
         /\ named \in Seq(Generations) /\ Len(named) <= SlotLimit
         /\ DOMAIN slotGen \subseteq DOMAIN named
         /\ s \in DOMAIN named /\ named[s] = g
         /\ \A r \in DOMAIN slotGen : r # s => named[r] = slotGen[r]
<1>1. s \in 1..SlotLimit /\ s \in 0..SlotLimit
  BY DEF Slots, EntityIdsAssumption
<1>2. /\ Grown(s) \in Seq(Generations)
      /\ Len(Grown(s)) <= SlotLimit
      /\ s \in DOMAIN Grown(s)
      /\ DOMAIN slotGen \subseteq DOMAIN Grown(s)
      /\ \A r \in DOMAIN slotGen : Grown(s)[r] = slotGen[r]
  BY <1>1, GrownSlots
<1> QED BY <1>2, ExceptSeq, LenProperties

\* An allocation returns an id whose slot nobody owns and takes that slot off
\* the free stack.
LEMMA AllocYieldsUnownedSlot ==
  ASSUME EntityIdsAssumption, IdsInv, NEW id, AllocEntityId(id)
  PROVE  /\ id \in Entity
         /\ slotGen' \in Seq(Generations) /\ Len(slotGen') <= SlotLimit
         /\ DOMAIN slotGen \subseteq DOMAIN slotGen'
         /\ \A s \in DOMAIN slotGen : slotGen'[s] = slotGen[s]
         /\ id.slot \in DOMAIN slotGen' /\ slotGen'[id.slot] = id.gen
         /\ freeSlots' \in Seq(DOMAIN slotGen') /\ IsInjective(freeSlots')
         /\ Range(freeSlots') = Range(freeSlots) \ {id.slot}
         /\ \A e \in live \cup Pooled : e.slot # id.slot
         /\ id.slot \in DOMAIN slotGen => IsFree(id.slot)
         /\ id \notin recycled
<1>1. SlotsTyped /\ IsInjective(freeSlots)
  BY DEF IdsInv, TypeOK, FreeSlotsUnowned, SlotsTyped
<1>2. \A e \in live \cup Pooled : e.slot # id.slot
  BY <1>1, AllocTakesSlot DEF IdsInv, FreeSlotsUnowned, CurrentGenerations
<1>3. id \notin recycled
  <2> SUFFICES ASSUME id \in recycled PROVE FALSE
    OBVIOUS
  <2>1. /\ id.slot \in DOMAIN slotGen /\ IsFree(id.slot)
        /\ slotGen[id.slot] = id.gen /\ id.gen \in Int
    BY <1>1, AllocTakesSlot
       DEF IdsInv, RecycledOutdated, Entity, Generations, EntityIdsAssumption
  <2> QED BY <2>1 DEF IdsInv, RecycledOutdated
<1> QED BY <1>1, <1>2, <1>3, AllocTakesSlot DEF SlotsTyped

\* Releasing the id of a live entity either puts its slot on the free stack,
\* one generation on, or retires the slot.
LEMMA FreeAdvancesOrRetires ==
  ASSUME EntityIdsAssumption, IdsInv, NEW id \in live, FreeEntityId(id)
  PROVE  /\ id \in Entity /\ id.slot \in DOMAIN slotGen
         /\ slotGen' \in Seq(Generations) /\ Len(slotGen') <= SlotLimit
         /\ DOMAIN slotGen' = DOMAIN slotGen
         /\ \A s \in DOMAIN slotGen : s # id.slot => slotGen'[s] = slotGen[s]
         /\ freeSlots' \in Seq(DOMAIN slotGen') /\ IsInjective(freeSlots')
         /\ \/ /\ slotGen'[id.slot] = id.gen + 1
               /\ Range(freeSlots') = Range(freeSlots) \cup {id.slot}
            \/ /\ id.gen = MaxGen /\ slotGen'[id.slot] = MaxGen
               /\ Range(freeSlots') = Range(freeSlots)
<1>1. /\ SlotsTyped /\ id \in Entity
      /\ id.slot \in DOMAIN slotGen /\ slotGen[id.slot] = id.gen
      /\ ~IsFree(id.slot) /\ IsInjective(freeSlots)
  BY DEF IdsInv, TypeOK, CurrentGenerations, FreeSlotsUnowned, SlotsTyped
<1> QED BY <1>1, FreeReleasesSlot DEF SlotsTyped

\* The id of a new entity is not alive already, whichever way it was created.
LEMMA CreatedIdIsNew ==
  ASSUME EntityIdsAssumption, IdsInv, NEW id,
         CreateEntity(id) \/ CreateEntityPreassigned(id) \/ CreateEntityPooled(id)
  PROVE  id \notin live
<1>1. ASSUME CreateEntity(id) PROVE id \notin live
  BY <1>1, AllocYieldsUnownedSlot DEF CreateEntity
<1>2. ASSUME CreateFromPool(id) PROVE id \notin live
  BY <1>2, PopStack DEF CreateFromPool, IdsInv, TypeOK, OneEntityPerSlot, Pooled
<1> QED BY <1>1, <1>2 DEF CreateEntityPreassigned, CreateEntityPooled

(***************************************************************************)
(* Every operation preserves the invariant.                                *)
(***************************************************************************)

\* An id that create_entity() allocates had no owner.
LEMMA CreatePreserves ==
  ASSUME EntityIdsAssumption, IdsInv, NEW id, CreateEntity(id)
  PROVE  IdsInv'
<1>1. /\ live' = live \cup {id} /\ Pooled' = Pooled
      /\ UNCHANGED <<poolSlots, clearing, recycled>>
      /\ AllocEntityId(id)
  BY DEF CreateEntity, Pooled
<1>2. TypeOK'
  BY <1>1, AllocYieldsUnownedSlot DEF IdsInv, TypeOK
<1>3. OneEntityPerSlot'
  BY <1>1, AllocYieldsUnownedSlot DEF IdsInv, OneEntityPerSlot
<1>4. FreeSlotsUnowned'
  BY <1>1, AllocYieldsUnownedSlot DEF IdsInv, FreeSlotsUnowned, IsFree
<1>5. CurrentGenerations'
  BY <1>1, AllocYieldsUnownedSlot DEF IdsInv, CurrentGenerations
<1>6. RecycledOutdated'
  BY <1>1, AllocYieldsUnownedSlot DEF IdsInv, RecycledOutdated, IsFree
<1> QED BY <1>2, <1>3, <1>4, <1>5, <1>6 DEF IdsInv

\* create_entity_preassigned() takes an id whose slot nobody owns.
LEMMA PreassignedPreserves ==
  ASSUME EntityIdsAssumption, IdsInv, NEW id \in Entity, CreateUnclaimed(id)
  PROVE  IdsInv'
<1>1. /\ live' = live \cup {id} /\ Pooled' = Pooled
      /\ recycled' = recycled \ {id}
      /\ UNCHANGED <<freeSlots, poolSlots, clearing>>
      /\ slotGen' = [Grown(id.slot) EXCEPT ![id.slot] = id.gen]
  BY DEF CreateUnclaimed, CreateEntityPreassigned, Pooled
<1>2. id.slot \in 1..SlotLimit /\ id.gen \in Generations
  BY DEF Entity, Slots
<1>3. /\ ~IsFree(id.slot)
      /\ \A e \in live \cup Pooled : e.slot # id.slot
      /\ id.slot \in DOMAIN slotGen =>
           slotGen[id.slot] <= id.gen /\ slotGen[id.slot] < MaxGen
  BY DEF CreateUnclaimed, Unclaimed
<1>5. /\ slotGen' \in Seq(Generations) /\ Len(slotGen') <= SlotLimit
      /\ DOMAIN slotGen \subseteq DOMAIN slotGen'
      /\ id.slot \in DOMAIN slotGen' /\ slotGen'[id.slot] = id.gen
      /\ \A s \in DOMAIN slotGen : s # id.slot => slotGen'[s] = slotGen[s]
  BY <1>1, <1>2, NamedSlot DEF IdsInv, TypeOK, Slots
<1>6. TypeOK'
  BY <1>1, <1>5, SeqMonotonic DEF IdsInv, TypeOK
<1>7. OneEntityPerSlot'
  BY <1>1, <1>3 DEF IdsInv, OneEntityPerSlot
<1>8. FreeSlotsUnowned'
  BY <1>1, <1>3 DEF IdsInv, FreeSlotsUnowned, IsFree
<1>9. CurrentGenerations'
  BY <1>1, <1>3, <1>5 DEF IdsInv, CurrentGenerations
<1>10. RecycledOutdated'
  <2> SUFFICES ASSUME NEW e \in recycled, e # id
               PROVE  /\ e.slot \in DOMAIN slotGen'
                      /\ \/ e.gen < slotGen'[e.slot]
                         \/ /\ slotGen'[e.slot] = MaxGen
                            /\ ~IsFree(e.slot)'
                            /\ \A f \in live' \cup Pooled' : f.slot # e.slot
    BY <1>1 DEF RecycledOutdated
  <2>1. e.slot \in DOMAIN slotGen
    BY DEF IdsInv, RecycledOutdated
  <2>2. CASE e.slot = id.slot
    <3>1. e.gen < slotGen[e.slot]
      BY <1>3, <2>1, <2>2 DEF IdsInv, RecycledOutdated, EntityIdsAssumption
    <3>2. e.gen \in Int /\ slotGen[e.slot] \in Int /\ id.gen \in Int
      BY <1>2, <2>1, ElementOfSeq, LenProperties
         DEF IdsInv, TypeOK, Entity, Generations, EntityIdsAssumption
    <3> QED BY <1>3, <1>5, <2>1, <2>2, <3>1, <3>2
  <2>3. CASE e.slot # id.slot
    BY <1>1, <1>5, <2>1, <2>3 DEF IdsInv, RecycledOutdated, IsFree
  <2> QED BY <2>2, <2>3
<1> QED BY <1>6, <1>7, <1>8, <1>9, <1>10 DEF IdsInv

\* What DestroyEntity and one turn of the loop of clear() have in common.
LEMMA ReleasePreserves ==
  ASSUME EntityIdsAssumption, IdsInv, NEW id \in live, FreeEntityId(id),
         live' = live \ {id}, recycled' = recycled \cup {id},
         UNCHANGED <<poolSlots, clearing>>
  PROVE  IdsInv'
<1>1. Pooled' = Pooled /\ poolSlots' = poolSlots /\ clearing' = clearing
  BY DEF Pooled
<1>2. \A e \in live' \cup Pooled' : e.slot # id.slot /\ e \in live \cup Pooled
  BY <1>1 DEF IdsInv, OneEntityPerSlot
<1>3. id.gen \in Nat
  BY FreeAdvancesOrRetires DEF Entity, Generations, EntityIdsAssumption
<1>4. TypeOK'
  BY <1>1, FreeAdvancesOrRetires DEF IdsInv, TypeOK
<1>5. OneEntityPerSlot'
  BY <1>1 DEF IdsInv, OneEntityPerSlot
<1>6. FreeSlotsUnowned'
  BY <1>2, FreeAdvancesOrRetires DEF IdsInv, FreeSlotsUnowned, IsFree
<1>7. CurrentGenerations'
  BY <1>2, FreeAdvancesOrRetires DEF IdsInv, CurrentGenerations
<1>8. RecycledOutdated'
  <2> SUFFICES ASSUME NEW e \in recycled'
               PROVE  /\ e.slot \in DOMAIN slotGen'
                      /\ \/ e.gen < slotGen'[e.slot]
                         \/ /\ slotGen'[e.slot] = MaxGen
                            /\ ~IsFree(e.slot)'
                            /\ \A f \in live' \cup Pooled' : f.slot # e.slot
    BY DEF RecycledOutdated
  <2>1. /\ id.slot \in DOMAIN slotGen /\ slotGen[id.slot] = id.gen
        /\ ~IsFree(id.slot)
    BY DEF IdsInv, CurrentGenerations, FreeSlotsUnowned
  <2>2. CASE e = id
    BY <1>2, <1>3, <2>1, <2>2, FreeAdvancesOrRetires DEF IsFree
  <2>3. CASE e # id /\ e.slot = id.slot
    <3>1. e \in recycled /\ e.gen < id.gen
      BY <2>1, <2>3 DEF IdsInv, RecycledOutdated
    <3>2. e.gen \in Nat
      BY <3>1 DEF IdsInv, TypeOK, Entity, Generations, EntityIdsAssumption
    <3> QED BY <1>3, <2>1, <2>3, <3>1, <3>2, FreeAdvancesOrRetires
  <2>4. CASE e.slot # id.slot
    <3>1. e \in recycled
      BY <2>4
    <3> QED BY <1>2, <2>4, <3>1, FreeAdvancesOrRetires
             DEF IdsInv, RecycledOutdated, IsFree
  <2> QED BY <2>2, <2>3, <2>4
<1> QED BY <1>4, <1>5, <1>6, <1>7, <1>8 DEF IdsInv

\* A pooled id comes back to life on the slot that it kept.
LEMMA FromPoolPreserves ==
  ASSUME EntityIdsAssumption, IdsInv, NEW id, CreateFromPool(id)
  PROVE  IdsInv'
<1>1. /\ poolSlots # <<>> /\ id = Top(poolSlots) /\ poolSlots' = Rest(poolSlots)
      /\ live' = live \cup {id}
      /\ UNCHANGED <<slotGen, freeSlots, clearing, recycled>>
  BY DEF CreateFromPool
<1>2. /\ id \in Entity /\ id \in Pooled
      /\ poolSlots' \in Seq(Entity) /\ IsInjective(poolSlots')
      /\ Pooled' = Pooled \ {id}
  BY <1>1, PopStack DEF IdsInv, TypeOK, OneEntityPerSlot, Pooled
<1>3. live' \cup Pooled' = live \cup Pooled
  BY <1>1, <1>2
<1>4. TypeOK'
  BY <1>1, <1>2 DEF IdsInv, TypeOK
<1>5. OneEntityPerSlot'
  BY <1>1, <1>2, <1>3 DEF IdsInv, OneEntityPerSlot
<1>6. FreeSlotsUnowned'
  BY <1>1, <1>3 DEF IdsInv, FreeSlotsUnowned, IsFree
<1>7. CurrentGenerations'
  BY <1>1, <1>3 DEF IdsInv, CurrentGenerations
<1>8. RecycledOutdated'
  BY <1>1, <1>3 DEF IdsInv, RecycledOutdated, IsFree
<1> QED BY <1>4, <1>5, <1>6, <1>7, <1>8 DEF IdsInv

\* An id that goes to the pool keeps its slot.
LEMMA ToPoolPreserves ==
  ASSUME EntityIdsAssumption, IdsInv, NEW id \in live, DestroyEntityPooled(id)
  PROVE  IdsInv'
<1>1. /\ live' = live \ {id} /\ poolSlots' = Append(poolSlots, id)
      /\ UNCHANGED <<slotGen, freeSlots, clearing, recycled>>
  BY DEF DestroyEntityPooled
<1>2. /\ id \in Entity /\ id \notin Pooled
      /\ poolSlots \in Seq(Entity) /\ IsInjective(poolSlots)
  BY DEF IdsInv, TypeOK, OneEntityPerSlot
<1>3. /\ poolSlots' \in Seq(Entity) /\ IsInjective(poolSlots')
      /\ Pooled' = Pooled \cup {id}
  BY <1>1, <1>2, PushStack DEF Pooled
<1>4. live' \cup Pooled' = live \cup Pooled
  BY <1>1, <1>3
<1>5. TypeOK'
  BY <1>1, <1>3 DEF IdsInv, TypeOK
<1>6. OneEntityPerSlot'
  BY <1>1, <1>3, <1>4 DEF IdsInv, OneEntityPerSlot
<1>7. FreeSlotsUnowned'
  BY <1>1, <1>4 DEF IdsInv, FreeSlotsUnowned, IsFree
<1>8. CurrentGenerations'
  BY <1>1, <1>4 DEF IdsInv, CurrentGenerations
<1>9. RecycledOutdated'
  BY <1>1, <1>4 DEF IdsInv, RecycledOutdated, IsFree
<1> QED BY <1>5, <1>6, <1>7, <1>8, <1>9 DEF IdsInv

\* set_entity_range() makes room in the table, and owners of no slot.
LEMMA RangePreserves ==
  ASSUME EntityIdsAssumption, IdsInv, NEW base \in 0..ForeignLimit,
         SetEntityRange(base)
  PROVE  IdsInv'
<1>1. /\ slotGen' = Grown(base) /\ Pooled' = Pooled
      /\ UNCHANGED <<freeSlots, poolSlots, live, clearing, recycled>>
  BY DEF SetEntityRange, Pooled
<1>2. /\ slotGen' \in Seq(Generations) /\ Len(slotGen') <= SlotLimit
      /\ DOMAIN slotGen \subseteq DOMAIN slotGen'
      /\ \A s \in DOMAIN slotGen : slotGen'[s] = slotGen[s]
  <2>1. base \in 0..SlotLimit
    BY DEF EntityIdsAssumption
  <2> QED BY <1>1, <2>1, GrownSlots DEF IdsInv, TypeOK
<1>3. TypeOK'
  BY <1>1, <1>2, SeqMonotonic DEF IdsInv, TypeOK
<1>4. OneEntityPerSlot' /\ FreeSlotsUnowned'
  BY <1>1 DEF IdsInv, OneEntityPerSlot, FreeSlotsUnowned, IsFree
<1>5. CurrentGenerations'
  BY <1>1, <1>2 DEF IdsInv, CurrentGenerations
<1>6. RecycledOutdated'
  BY <1>1, <1>2 DEF IdsInv, RecycledOutdated, IsFree
<1> QED BY <1>3, <1>4, <1>5, <1>6 DEF IdsInv

\* reset() empties the allocator.
LEMMA ResetPreserves ==
  ASSUME EntityIdsAssumption, IdsInv, Reset
  PROVE  IdsInv'
<1>1. /\ poolSlots' = <<>>
      /\ UNCHANGED <<slotGen, freeSlots, live, clearing, recycled>>
  BY DEF Reset
<1>2. Pooled' = {} /\ poolSlots' \in Seq(Entity) /\ IsInjective(poolSlots')
  BY <1>1, EmptySeq DEF Pooled, Range, IsInjective
<1>3. TypeOK'
  BY <1>1, <1>2 DEF IdsInv, TypeOK
<1>4. OneEntityPerSlot' /\ FreeSlotsUnowned'
  BY <1>1, <1>2 DEF IdsInv, OneEntityPerSlot, FreeSlotsUnowned, IsFree
<1>5. CurrentGenerations' /\ RecycledOutdated'
  BY <1>1, <1>2 DEF IdsInv, CurrentGenerations, RecycledOutdated, IsFree
<1> QED BY <1>3, <1>4, <1>5 DEF IdsInv

(***************************************************************************)
(* Theorems.                                                               *)
(***************************************************************************)

\* Every step of the allocator keeps the invariant.
LEMMA StepPreserves ==
  ASSUME EntityIdsAssumption, IdsInv, [NextUnclaimed]_idVars
  PROVE  IdsInv'
<1>1. ASSUME NEW id \in Entity, CreateEntity(id) PROVE IdsInv'
  BY <1>1, CreatePreserves
<1>2. ASSUME NEW id \in live, DestroyEntity(id) PROVE IdsInv'
  BY <1>2, ReleasePreserves DEF DestroyEntity
<1>3. ASSUME NEW id \in Entity, CreateEntityPooled(id) PROVE IdsInv'
  BY <1>3, CreatePreserves, FromPoolPreserves DEF CreateEntityPooled
<1>4. ASSUME NEW id \in live, DestroyEntityPooled(id) PROVE IdsInv'
  BY <1>4, ToPoolPreserves
<1>5. ASSUME NEW base \in 0..ForeignLimit, SetEntityRange(base) PROVE IdsInv'
  BY <1>5, RangePreserves
<1>6. ASSUME Reset PROVE IdsInv'
  BY <1>6, ResetPreserves
<1>7. ASSUME NEW id \in Entity, CreateUnclaimed(id) PROVE IdsInv'
  BY <1>7, PreassignedPreserves
<1>8. ASSUME NEW id \in live, ClearOne(id) PROVE IdsInv'
  BY <1>8, ReleasePreserves DEF ClearOne
<1>9. ASSUME \/ UNCHANGED idVars
             \/ BeginClear
             \/ EndClear
      PROVE  IdsInv'
  BY <1>9 DEF BeginClear, EndClear, idVars, IdsInv, TypeOK, OneEntityPerSlot,
              FreeSlotsUnowned, CurrentGenerations, RecycledOutdated, IsFree, Pooled
<1> QED
  BY <1>1, <1>2, <1>3, <1>4, <1>5, <1>6, <1>7, <1>8, <1>9
     DEF NextUnclaimed, LocalStep, ClearStep

\* The invariant holds in a new world.
LEMMA EmptyWorldInv ==
  ASSUME EntityIdsAssumption, Init
  PROVE  IdsInv
<1>1. /\ slotGen = <<>> /\ freeSlots = <<>> /\ poolSlots = <<>>
      /\ live = {} /\ clearing = FALSE /\ recycled = {}
  BY DEF Init
<1>2. Len(slotGen) <= SlotLimit
  BY <1>1, EmptySeq DEF EntityIdsAssumption
<1>3. TypeOK
  BY <1>1, <1>2, EmptySeq DEF TypeOK
<1>4. Pooled = {} /\ IsInjective(poolSlots) /\ IsInjective(freeSlots)
  BY <1>1 DEF Pooled, Range, IsInjective
<1> QED
  BY <1>1, <1>3, <1>4
     DEF IdsInv, OneEntityPerSlot, FreeSlotsUnowned, CurrentGenerations, RecycledOutdated

\* The invariant holds in every state of every world whose callers name only
\* unclaimed ids.
THEOREM IdsInvariant ==
  ASSUME EntityIdsAssumption
  PROVE  SpecUnclaimed => []IdsInv
<1>1. Init => IdsInv
  BY EmptyWorldInv
<1>2. IdsInv /\ [NextUnclaimed]_idVars => IdsInv'
  BY StepPreserves
<1> QED BY <1>1, <1>2, PTL DEF SpecUnclaimed
\* What the invariant says to a caller of the allocator: the variables have
\* their types, create_entity() never returns the id of an entity that exists,
\* and a handle to a destroyed entity is rejected.
LEMMA IdsInvSuffices ==
  ASSUME EntityIdsAssumption, IdsInv
  PROVE  TypeOK /\ FreeSlotsUnowned /\ StaleHandlesRejected
<1>1. ASSUME NEW e \in recycled, e \in live PROVE FALSE
  <2>1. slotGen[e.slot] = e.gen /\ e.gen \in Int
    BY <1>1 DEF IdsInv, TypeOK, CurrentGenerations, Entity, Generations, EntityIdsAssumption
  <2> QED BY <1>1, <2>1 DEF IdsInv, RecycledOutdated
<1> QED BY <1>1 DEF IdsInv, StaleHandlesRejected
=============================================================================

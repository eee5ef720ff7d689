------------------------------ MODULE EntityIds ------------------------------
(***************************************************************************)
(* The entity-id allocator of vortaris::World.                             *)
(*                                                                         *)
(* An id packs a slot and the slot's generation.  World keeps one          *)
(* generation per slot, a stack of slots whose entity was destroyed, and a *)
(* pool of whole ids that destroy_entity_pooled() put aside.  create_entity*)
(* takes the top of the free stack or opens a new slot; snapshot loading   *)
(* and network replication bring ids of their own.                         *)
(*                                                                         *)
(* A slot is numbered by the low 32 bits of the id, so slot 0 of the code  *)
(* is slot 1 here and the sequence slotGen is indexed like the vector.     *)
(***************************************************************************)
EXTENDS Integers, Sequences, FiniteSets, Functions

CONSTANTS
  SlotLimit,     \* slots create_entity may open (0xFFFFFFFE in the code)
  ForeignLimit,  \* highest slot a caller may name (2^24 in the code)
  MaxGen         \* highest generation (UINT32_MAX in the code)

EntityIdsAssumption ==
  /\ SlotLimit \in Nat \ {0}
  /\ ForeignLimit \in 1..SlotLimit
  /\ MaxGen \in Nat

VARIABLES
  slotGen,    \* slot_generations_
  freeSlots,  \* free_slots_, a stack whose top is the last element
  poolSlots,  \* pool_slots_, likewise
  live,       \* the keys of entity_locations_
  clearing,   \* the loop of clear() is under way
  recycled    \* history: ids given back by destroy_entity()/clear() and not
              \* brought back by a caller that named them

idVars == <<slotGen, freeSlots, poolSlots, live, clearing, recycled>>

Slots == 1..SlotLimit
Generations == 0..MaxGen
Entity == [slot : Slots, gen : Generations]

IsFree(s) == s \in Range(freeSlots)
Pooled == Range(poolSlots)

Top(stack) == stack[Len(stack)]
Rest(stack) == SubSeq(stack, 1, Len(stack) - 1)

(***************************************************************************)
(* Allocation and release of an id.                                        *)
(***************************************************************************)

\* No slot to recycle: a new slot is opened at generation 0.  When every slot
\* is taken, create_entity() reports the error and changes nothing.
OpenSlot(id) ==
  /\ freeSlots = <<>>
  /\ Len(slotGen) < SlotLimit
  /\ id = [slot |-> Len(slotGen) + 1, gen |-> 0]
  /\ slotGen' = Append(slotGen, 0)
  /\ UNCHANGED freeSlots

\* Mutant: the slot stays on the free stack.
RecycleSlotKeptFree(id) ==
  /\ freeSlots # <<>>
  /\ id = [slot |-> Top(freeSlots), gen |-> slotGen[Top(freeSlots)]]
  /\ UNCHANGED <<slotGen, freeSlots>>

RecycleSlot(id) ==
  /\ freeSlots # <<>>
  /\ id = [slot |-> Top(freeSlots), gen |-> slotGen[Top(freeSlots)]]
  /\ freeSlots' = Rest(freeSlots)
  /\ UNCHANGED slotGen

AllocEntityId(id) == OpenSlot(id) \/ RecycleSlot(id)

\* Mutant: a slot of the last generation is not retired.
FreeEntityIdUnretired(id) ==
  IF id.slot \in DOMAIN slotGen /\ slotGen[id.slot] = id.gen
  THEN /\ slotGen' = [slotGen EXCEPT ![id.slot] = id.gen + 1]
       /\ freeSlots' = Append(freeSlots, id.slot)
  ELSE UNCHANGED <<slotGen, freeSlots>>

\* Mutant: the generation is not bumped.
FreeEntityIdSameGeneration(id) ==
  IF id.slot \in DOMAIN slotGen /\ slotGen[id.slot] = id.gen
  THEN freeSlots' = Append(freeSlots, id.slot) /\ UNCHANGED slotGen
  ELSE UNCHANGED <<slotGen, freeSlots>>

\* _free_entity_id(): a stale id is ignored, and the slot of an id of the last
\* generation is retired for good.
FreeEntityId(id) ==
  IF /\ id.slot \in DOMAIN slotGen
     /\ slotGen[id.slot] = id.gen
     /\ id.gen < MaxGen
  THEN /\ slotGen' = [slotGen EXCEPT ![id.slot] = id.gen + 1]
       /\ freeSlots' = Append(freeSlots, id.slot)
  ELSE UNCHANGED <<slotGen, freeSlots>>

\* resize(): slots up to n exist, the new ones at generation 0.
Grown(n) == [s \in 1..(IF n > Len(slotGen) THEN n ELSE Len(slotGen)) |->
               IF s \in DOMAIN slotGen THEN slotGen[s] ELSE 0]

(***************************************************************************)
(* Operations of World.                                                    *)
(***************************************************************************)

CreateEntity(id) ==
  /\ AllocEntityId(id)
  /\ live' = live \cup {id}
  /\ UNCHANGED <<poolSlots, clearing, recycled>>

\* The caller names the id.  Only an id that is itself alive is refused; the
\* free stack and the pool are not consulted.
CreateEntityPreassigned(id) ==
  /\ id.slot <= ForeignLimit
  /\ id \notin live
  /\ slotGen' = [Grown(id.slot) EXCEPT ![id.slot] = id.gen]
  /\ live' = live \cup {id}
  /\ recycled' = recycled \ {id}
  /\ UNCHANGED <<freeSlots, poolSlots, clearing>>

DestroyEntity(id) ==
  /\ id \in live
  /\ FreeEntityId(id)
  /\ live' = live \ {id}
  /\ recycled' = recycled \cup {id}
  /\ UNCHANGED <<poolSlots, clearing>>

CreateFromPool(id) ==
  /\ poolSlots # <<>>
  /\ id = Top(poolSlots)
  /\ poolSlots' = Rest(poolSlots)
  /\ live' = live \cup {id}
  /\ UNCHANGED <<slotGen, freeSlots, clearing, recycled>>

CreateEntityPooled(id) ==
  \/ CreateFromPool(id)
  \/ poolSlots = <<>> /\ CreateEntity(id)

\* Mutant: the pooled id is released as well.
DestroyEntityPooledFreed(id) ==
  /\ id \in live
  /\ FreeEntityId(id)
  /\ live' = live \ {id}
  /\ poolSlots' = Append(poolSlots, id)
  /\ UNCHANGED <<clearing, recycled>>

\* The id goes to the pool with its generation unchanged.
DestroyEntityPooled(id) ==
  /\ id \in live
  /\ live' = live \ {id}
  /\ poolSlots' = Append(poolSlots, id)
  /\ UNCHANGED <<slotGen, freeSlots, clearing, recycled>>

SetEntityRange(base) ==
  /\ slotGen' = Grown(base)
  /\ UNCHANGED <<freeSlots, poolSlots, live, clearing, recycled>>

\* clear() walks the hash map of live entities, whose order the program does
\* not determine, and releases each; the pool stays.  No callback runs before
\* the loop is done.
BeginClear ==
  /\ clearing' = TRUE
  /\ UNCHANGED <<slotGen, freeSlots, poolSlots, live, recycled>>

ClearOne(id) ==
  /\ id \in live
  /\ FreeEntityId(id)
  /\ live' = live \ {id}
  /\ recycled' = recycled \cup {id}
  /\ UNCHANGED <<poolSlots, clearing>>

EndClear ==
  /\ live = {}
  /\ clearing' = FALSE
  /\ UNCHANGED <<slotGen, freeSlots, poolSlots, live, recycled>>

\* The part of reset() the allocator sees: the pool is emptied, and its slots
\* are neither freed nor handed out again.
Reset ==
  /\ poolSlots' = <<>>
  /\ UNCHANGED <<slotGen, freeSlots, live, clearing, recycled>>

(***************************************************************************)
(* Specifications.                                                         *)
(***************************************************************************)

Init ==
  /\ slotGen = <<>>
  /\ freeSlots = <<>>
  /\ poolSlots = <<>>
  /\ live = {}
  /\ clearing = FALSE
  /\ recycled = {}

LocalStep ==
  \/ \E id \in Entity : CreateEntity(id)
  \/ \E id \in live : DestroyEntity(id)
  \/ \E id \in Entity : CreateEntityPooled(id)
  \/ \E id \in live : DestroyEntityPooled(id)
  \/ \E base \in 0..ForeignLimit : SetEntityRange(base)
  \/ BeginClear
  \/ Reset

ClearStep ==
  \/ \E id \in live : ClearOne(id)
  \/ EndClear

Next ==
  \/ ~clearing /\ LocalStep
  \/ ~clearing /\ \E id \in Entity : CreateEntityPreassigned(id)
  \/ clearing /\ ClearStep

Spec == Init /\ [][Next]_idVars

\* What a caller would have to know of an id before naming it, and what the
\* code does not ask: its slot is not on the free stack, belongs to no entity,
\* alive or pooled, is not retired, and was never recycled past the id's
\* generation.  A slot above the range in use, or one reserved by
\* set_entity_range() and untouched since, is unclaimed.
Unclaimed(id) ==
  /\ ~IsFree(id.slot)
  /\ \A e \in live \cup Pooled : e.slot # id.slot
  /\ id.slot \in DOMAIN slotGen =>
       slotGen[id.slot] <= id.gen /\ slotGen[id.slot] < MaxGen

CreateUnclaimed(id) == Unclaimed(id) /\ CreateEntityPreassigned(id)

NextUnclaimed ==
  \/ ~clearing /\ LocalStep
  \/ ~clearing /\ \E id \in Entity : CreateUnclaimed(id)
  \/ clearing /\ ClearStep

\* The allocator of a caller that names unclaimed ids only.
SpecUnclaimed == Init /\ [][NextUnclaimed]_idVars

(***************************************************************************)
(* Properties.                                                             *)
(***************************************************************************)

TypeOK ==
  /\ slotGen \in Seq(Generations) /\ Len(slotGen) <= SlotLimit
  /\ freeSlots \in Seq(DOMAIN slotGen)
  /\ poolSlots \in Seq(Entity)
  /\ live \subseteq Entity
  /\ clearing \in BOOLEAN
  /\ recycled \subseteq Entity

\* No slot carries two entities: ids alive or waiting in the pool, however
\* they were created, have pairwise different slots, and no id waits in the
\* pool twice.  create_entity_preassigned() says of the ids it refuses "slot
\* already occupied by a live entity" (world.cpp:59).
OneEntityPerSlot ==
  /\ \A e, f \in live \cup Pooled : e.slot = f.slot => e = f
  /\ live \cap Pooled = {}
  /\ IsInjective(poolSlots)

\* A slot on the free stack is there once and belongs to nobody, so that
\* create_entity() cannot return the id of an entity that exists
\* (_alloc_entity_id, _free_entity_id).
FreeSlotsUnowned ==
  /\ IsInjective(freeSlots)
  /\ \A e \in live \cup Pooled : ~IsFree(e.slot)

\* "The generation is bumped every time a slot is recycled, so a stale handle
\* can be rejected in O(1) via World::is_alive()" (entity.h:14): an id that was
\* destroyed is alive again only if a caller names it in
\* create_entity_preassigned().
StaleHandlesRejected == recycled \cap live = {}
=============================================================================

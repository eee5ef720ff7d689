-------------------------------- MODULE World --------------------------------
(***************************************************************************)
(* vortaris::World: entities stored in archetypes.                         *)
(*                                                                         *)
(* The entities with exactly the component set A are the rows of archetype *)
(* A; a component write finds its cell through entity_locations_.  Adding  *)
(* or removing a component moves the entity to another archetype, and a    *)
(* removal fills the hole with the archetype's last row, so that one       *)
(* operation changes the rows of entities it was never asked about.        *)
(*                                                                         *)
(* The id allocator is EntityIds; every creation and destruction here is   *)
(* one step of it.  Operations issued through the command buffer while     *)
(* moves are deferred, events and change versions are not in this module.  *)
(***************************************************************************)
EXTENDS Integers, Sequences, FiniteSets, Functions

CONSTANTS
  SlotLimit, ForeignLimit, MaxGen,   \* of EntityIds
  Comp,         \* registered component types
  Val,          \* component values
  MaxNesting    \* bound: walks inside walks

ASSUME WorldAssumption ==
  /\ SlotLimit \in Nat \ {0}
  /\ ForeignLimit \in 1..SlotLimit
  /\ MaxGen \in Nat
  /\ MaxNesting \in Nat

VARIABLES
  slotGen, freeSlots, poolSlots, clearing, recycled,   \* of EntityIds
  loc,         \* entity_locations_: [alive -> [arch, row]]
  arches,      \* archetypes_: [component set -> [rows, rowOf]], where rowOf is
               \* the archetype's own entity_to_row
  iterDepth,   \* iteration_depth_
  walks        \* for_each()/View/each() calls that have not returned

vars == <<slotGen, freeSlots, poolSlots, clearing, recycled,
          loc, arches, iterDepth, walks>>
idVars == <<slotGen, freeSlots, poolSlots, clearing, recycled>>
iterVars == <<iterDepth, walks>>

Alive == DOMAIN loc

Ids == INSTANCE EntityIds WITH live <- Alive

(***************************************************************************)
(* Archetypes.                                                             *)
(***************************************************************************)

With(f, x, y) == [z \in DOMAIN f \cup {x} |-> IF z = x THEN y ELSE f[z]]

EmptyArchetype == [rows |-> <<>>, rowOf |-> [e \in {} |-> 0]]

\* Archetype::add_entity
AppendRow(a, e, data) ==
  [rows  |-> Append(a.rows, [ent |-> e, data |-> data]),
   rowOf |-> With(a.rowOf, e, Len(a.rows) + 1)]

LastEntity(a) == a.rows[Len(a.rows)].ent

\* Mutant: the entity that fills the hole leaves its components behind.
SwapRemoveEntityOnly(a, e) ==
  LET row == a.rowOf[e]
      last == Len(a.rows)
  IN [rows  |-> SubSeq([a.rows EXCEPT ![row].ent = LastEntity(a)], 1, last - 1),
      rowOf |-> [x \in DOMAIN a.rowOf \ {e} |->
                   IF x = LastEntity(a) THEN row ELSE a.rowOf[x]]]

\* Archetype::remove_entity: the last row fills the place of e's.
SwapRemove(a, e) ==
  LET row == a.rowOf[e]
      last == Len(a.rows)
  IN [rows  |-> SubSeq([a.rows EXCEPT ![row] = a.rows[last]], 1, last - 1),
      rowOf |-> [x \in DOMAIN a.rowOf \ {e} |->
                   IF x = LastEntity(a) THEN row ELSE a.rowOf[x]]]

\* Mutant: the entity that fills the hole keeps its old location.
RelocatedNone(e) == loc

\* The locations once the entity that filled e's row knows its new row.
Relocated(e) ==
  LET a == arches[loc[e].arch]
  IN IF a.rowOf[e] = Len(a.rows) THEN loc
     ELSE [loc EXCEPT ![LastEntity(a)].row = loc[e].row]

\* _ensure_archetype
WithArchetype(A) ==
  IF A \in DOMAIN arches THEN arches ELSE With(arches, A, EmptyArchetype)

DataOf(e) == arches[loc[e].arch].rows[loc[e].row].data

\* A new entity has no components.
AddToEmptyArchetype(e) ==
  /\ arches' = [arches EXCEPT ![{}] = AppendRow(@, e, <<>>)]
  /\ loc' = With(loc, e, [arch |-> {}, row |-> Len(arches[{}].rows) + 1])

RemoveFromArchetype(e) ==
  /\ arches' = [arches EXCEPT ![loc[e].arch] = SwapRemove(@, e)]
  /\ loc' = Restrict(Relocated(e), Alive \ {e})

\* _move_entity_to, and the write of the component that was added
MoveEntityTo(e, A, data) ==
  LET from == loc[e].arch
      known == WithArchetype(A)
  IN /\ arches' = [known EXCEPT ![A] = AppendRow(@, e, data),
                                ![from] = SwapRemove(@, e)]
     /\ loc' = [Relocated(e) EXCEPT ![e] =
                  [arch |-> A, row |-> Len(known[A].rows) + 1]]

(***************************************************************************)
(* Operations.                                                             *)
(***************************************************************************)

InIteration == iterDepth > 0

CreateEntity(e) ==
  /\ AddToEmptyArchetype(e)
  /\ Ids!CreateEntity(e)
  /\ UNCHANGED iterVars

CreateEntityPreassigned(e) ==
  /\ AddToEmptyArchetype(e)
  /\ Ids!CreateEntityPreassigned(e)
  /\ UNCHANGED iterVars

CreateEntityPooled(e) ==
  /\ AddToEmptyArchetype(e)
  /\ Ids!CreateEntityPooled(e)
  /\ UNCHANGED iterVars

\* Mutant: no guard against iteration.
DestroyEntityUnguarded(e) ==
  /\ RemoveFromArchetype(e)
  /\ Ids!DestroyEntity(e)
  /\ UNCHANGED iterVars

DestroyEntity(e) ==
  /\ ~InIteration
  /\ RemoveFromArchetype(e)
  /\ Ids!DestroyEntity(e)
  /\ UNCHANGED iterVars

DestroyEntityPooled(e) ==
  /\ ~InIteration
  /\ RemoveFromArchetype(e)
  /\ Ids!DestroyEntityPooled(e)
  /\ UNCHANGED iterVars

SetEntityRange(base) ==
  /\ UNCHANGED <<loc, arches, iterVars>>
  /\ Ids!SetEntityRange(base)

\* add_raw on an entity that has the component: overwrite in place
OverwriteComponent(e, t, v) ==
  /\ t \in loc[e].arch
  /\ arches' = [arches EXCEPT ![loc[e].arch].rows[loc[e].row].data[t] = v]
  /\ UNCHANGED <<loc, idVars, iterVars>>

\* add_raw on an entity that has not
AttachComponent(e, t, v) ==
  /\ t \notin loc[e].arch
  /\ ~InIteration
  /\ MoveEntityTo(e, loc[e].arch \cup {t}, With(DataOf(e), t, v))
  /\ UNCHANGED <<idVars, iterVars>>

AddComponent(e, t, v) == OverwriteComponent(e, t, v) \/ AttachComponent(e, t, v)

\* Mutant: the column of the removed component is copied too.
RemoveComponentCopied(e, t) ==
  /\ t \in loc[e].arch
  /\ ~InIteration
  /\ MoveEntityTo(e, loc[e].arch \ {t}, DataOf(e))
  /\ UNCHANGED <<idVars, iterVars>>

RemoveComponent(e, t) ==
  /\ t \in loc[e].arch
  /\ ~InIteration
  /\ MoveEntityTo(e, loc[e].arch \ {t}, Restrict(DataOf(e), loc[e].arch \ {t}))
  /\ UNCHANGED <<idVars, iterVars>>

\* Archetypes without entities are deleted, except that of the empty set.
Compact ==
  /\ arches' = Restrict(arches, {A \in DOMAIN arches : A = {} \/ arches[A].rows # <<>>})
  /\ UNCHANGED <<loc, idVars, iterVars>>

BeginClear ==
  /\ ~InIteration
  /\ UNCHANGED <<loc, arches, iterVars>>
  /\ Ids!BeginClear

ClearOne(e) ==
  /\ RemoveFromArchetype(e)
  /\ Ids!ClearOne(e)
  /\ UNCHANGED iterVars

EndClear ==
  /\ UNCHANGED <<loc, arches, iterVars>>
  /\ Ids!EndClear

\* reset() also forces the iteration depth to zero, whoever is iterating.
Reset ==
  /\ UNCHANGED <<loc, arches, walks>>
  /\ iterDepth' = 0
  /\ Ids!Reset

BeginIteration ==
  /\ walks < MaxNesting
  /\ walks' = walks + 1
  /\ iterDepth' = iterDepth + 1
  /\ UNCHANGED <<loc, arches, idVars>>

EndIteration ==
  /\ walks > 0
  /\ walks' = walks - 1
  /\ iterDepth' = iterDepth - 1
  /\ UNCHANGED <<loc, arches, idVars>>

(***************************************************************************)
(* Specification.                                                          *)
(***************************************************************************)

Init ==
  /\ slotGen = <<>> /\ freeSlots = <<>> /\ poolSlots = <<>>
  /\ clearing = FALSE /\ recycled = {}
  /\ loc = [e \in {} |-> 0]
  /\ arches = [A \in {{}} |-> EmptyArchetype]
  /\ iterDepth = 0 /\ walks = 0

\* create_entity_preassigned() takes any id that is not alive.  What follows
\* for the ids is EntityIds!Spec, where two entities come to share a slot, and
\* Snapshot, where create_entity() then returns the id of an entity there is.
\* The world of this module is that of callers that name unclaimed ids only.
CreateUnclaimed(e) == Ids!Unclaimed(e) /\ CreateEntityPreassigned(e)

EntityStep ==
  \/ \E e \in Ids!Entity :
       CreateEntity(e) \/ CreateUnclaimed(e) \/ CreateEntityPooled(e)
  \/ \E e \in Alive : DestroyEntity(e) \/ DestroyEntityPooled(e)
  \/ \E base \in 0..ForeignLimit : SetEntityRange(base)

ComponentStep ==
  \/ \E e \in Alive, t \in Comp, v \in Val : AddComponent(e, t, v)
  \/ \E e \in Alive, t \in Comp : RemoveComponent(e, t)

ClearStep ==
  \/ \E e \in Alive : ClearOne(e)
  \/ EndClear

Step ==
  \/ ~clearing /\ (EntityStep \/ ComponentStep \/ BeginClear)
  \/ ~clearing /\ (BeginIteration \/ EndIteration)
  \/ clearing /\ ClearStep

\* Callers compact() and reset() the world outside every walk; neither is
\* guarded, and reset() would set the depth to zero under the walks.
Next == Step \/ (~clearing /\ walks = 0 /\ (Compact \/ Reset))

Spec == Init /\ [][Next]_vars

(***************************************************************************)
(* Properties.                                                             *)
(***************************************************************************)

Location == [arch : SUBSET Comp, row : Ids!Slots]

TypeOK ==
  /\ Ids!TypeOK
  /\ loc \in [Alive -> Location]
  /\ DOMAIN arches \subseteq SUBSET Comp
  /\ \A A \in DOMAIN arches :
       /\ arches[A].rows \in Seq([ent : Ids!Entity, data : [A -> Val]])
       /\ arches[A].rowOf \in [DOMAIN arches[A].rowOf -> Ids!Slots]
  /\ iterDepth \in 0..MaxNesting
  /\ walks \in 0..MaxNesting

\* create_entity() never returns the id of an entity that exists, alive or
\* pooled (_alloc_entity_id): a free slot is nobody's, and is free once.
FreeSlotsUnowned == Ids!FreeSlotsUnowned

\* "The generation is bumped every time a slot is recycled, so a stale handle
\* can be rejected in O(1) via World::is_alive()" (entity.h:14): an id that was
\* destroyed, by itself or in clear(), is not alive again whatever is created,
\* pooled, retired or reset afterwards.
StaleHandlesRejected == Ids!StaleHandlesRejected

\* entity_locations_, the rows of the archetypes and each archetype's
\* entity_to_row say the same thing: an entity is where its location says, in
\* one row of one archetype, and a row belongs to an entity that is alive.  It
\* is what keeps a swap-remove (archetype.cpp:49) from leaving a location that
\* points at somebody else's row.
LocationsAgree ==
  /\ {} \in DOMAIN arches
  /\ \A e \in Alive :
       /\ loc[e].arch \in DOMAIN arches
       /\ loc[e].row \in DOMAIN arches[loc[e].arch].rows
       /\ arches[loc[e].arch].rows[loc[e].row].ent = e
  /\ \A A \in DOMAIN arches :
       /\ DOMAIN arches[A].rowOf = {e \in Alive : loc[e].arch = A}
       /\ \A r \in DOMAIN arches[A].rows :
            LET e == arches[A].rows[r].ent
            IN e \in Alive /\ loc[e] = [arch |-> A, row |-> r] /\ arches[A].rowOf[e] = r

\* World implements the store: whatever rows move, an operation changes the
\* components of the entity it was called for and of no other, and a component
\* keeps its value across archetype moves (_move_entity_to).
Store == INSTANCE EntityStore
  WITH Handle <- Ids!Entity, store <- [e \in Alive |-> DataOf(e)]

ImplementsStore == Store!Spec

\* "Structural changes inside a for_each / view iteration would corrupt the
\* archetype rows being walked; the guards below turn that silent corruption
\* into a loud error" (world.h:171): while a walk is under way no row that it
\* can visit, in an archetype with components, changes its entity.
RowsStableDuringWalk ==
  [][walks > 0 /\ walks' > 0 =>
       \A A \in DOMAIN arches \ {{}} :
         /\ A \in DOMAIN arches'
         /\ Len(arches'[A].rows) = Len(arches[A].rows)
         /\ \A r \in DOMAIN arches[A].rows :
              arches'[A].rows[r].ent = arches[A].rows[r].ent]_vars
=============================================================================

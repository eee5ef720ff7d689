------------------------------- MODULE Snapshot -------------------------------
(***************************************************************************)
(* Saving a world and loading it, in this process or in a later one.       *)
(*                                                                         *)
(* A save holds the ids of the entities and their components.  Loading     *)
(* clears the world, which releases every id, and then creates each entity *)
(* of the save under its own id (Ids, the allocator).  The binary format   *)
(* is validated before the world is touched; a JSON load that meets a      *)
(* component nobody registered goes on, clears the world again and loads   *)
(* a backup of what it found.                                              *)
(*                                                                         *)
(* All components of an entity are one value here.  A binary save and a    *)
(* Dictionary keep it; a JSON string, which the backup always is, keeps    *)
(* of it what JSON has a form for: vectors, colours, transforms, blobs and *)
(* integers above 2^53 do not come back.                                   *)
(***************************************************************************)
EXTENDS Integers, Sequences, FiniteSets, Functions

CONSTANTS
  SlotLimit, ForeignLimit, MaxGen,   \* of EntityIds
  Data,      \* what the components of an entity can be
  Blank,     \* no components
  ReadBack,  \* [Data -> Data]: what is left of it when a JSON string is parsed
  MaxFree    \* bound: a load starts with fewer slots than this on the free stack

ASSUME SnapshotAssumption ==
  /\ SlotLimit \in Nat \ {0}
  /\ ForeignLimit \in 1..SlotLimit
  /\ MaxGen \in Nat
  /\ Blank \in Data
  /\ ReadBack \in [Data -> Data] /\ ReadBack[Blank] = Blank
  /\ MaxFree \in Nat

VARIABLES
  slotGen, freeSlots, poolSlots, clearing, recycled,   \* of EntityIds
  store,      \* [alive -> Data]
  saves,      \* the save on disk, if there is one: a set with at most one store
  load,       \* the load under way
  promised,   \* history: the store that the load under way must end with
  reloaded    \* history: a save was loaded into a world that had issued ids

ids == <<slotGen, freeSlots, poolSlots, clearing, recycled>>
vars == <<ids, store, saves, load, promised, reloaded>>

Alive == DOMAIN store
Empty == [e \in {} |-> Blank]

Ids == INSTANCE EntityIds WITH live <- Alive

Idle == [phase |-> "idle", todo |-> Empty, bad |-> {}, backup |-> Empty, failed |-> FALSE]

\* serialize_snapshot_json_string() and JSON::parse_string()
ThroughJson(s) == [e \in DOMAIN s |-> ReadBack[s[e]]]

With(s, e, d) == [x \in DOMAIN s \cup {e} |-> IF x = e THEN d ELSE s[x]]
Without(s, e) == Restrict(s, DOMAIN s \ {e})

(***************************************************************************)
(* The program between loads.                                              *)
(***************************************************************************)

CreateEntity(id) ==
  /\ store' = With(store, id, Blank)
  /\ Ids!CreateEntity(id)

DestroyEntity(id) ==
  /\ store' = Without(store, id)
  /\ Ids!DestroyEntity(id)

SetData(e, d) ==
  /\ store' = With(store, e, d)
  /\ UNCHANGED ids

Save ==
  /\ saves' = {store}
  /\ UNCHANGED <<ids, store, load, promised, reloaded>>

(***************************************************************************)
(* Loading.                                                                *)
(***************************************************************************)

\* deserialize_snapshot(), for which bad is empty, or deserialize_snapshot_json():
\* bad are the entities with a component that is not registered.
BeginLoad(file, bad) ==
  /\ Len(freeSlots) < MaxFree
  /\ load' = [phase |-> "clear", todo |-> file, bad |-> bad,
              backup |-> ThroughJson(store), failed |-> FALSE]
  /\ promised' = IF bad = {} THEN file ELSE ThroughJson(store)
  /\ reloaded' = (reloaded \/ slotGen # <<>>)
  /\ UNCHANGED <<store, saves>>
  /\ Ids!BeginClear

ClearNext(e) ==
  /\ store' = Without(store, e)
  /\ Ids!ClearOne(e)

EndClear ==
  /\ load' = [load EXCEPT !.phase = "create"]
  /\ UNCHANGED <<store, saves, promised, reloaded>>
  /\ Ids!EndClear

\* Mutant: the slots skipped when the ids are not contiguous become free.
LoadNextFreesGaps(e) ==
  /\ e \in DOMAIN load.todo \ load.bad
  /\ slotGen' = [Ids!Grown(e.slot) EXCEPT ![e.slot] = e.gen]
  /\ freeSlots' = freeSlots \o [i \in 1..e.slot - Len(slotGen) - 1 |-> Len(slotGen) + i]
  /\ recycled' = recycled \ {e}
  /\ store' = With(store, e, load.todo[e])
  /\ load' = [load EXCEPT !.todo = Without(@, e)]
  /\ UNCHANGED <<poolSlots, clearing>>

\* create_entity_preassigned() and the components of the record
LoadNext(e) ==
  /\ e \in DOMAIN load.todo \ load.bad
  /\ store' = With(store, e, load.todo[e])
  /\ Ids!CreateEntityPreassigned(e)
  /\ load' = [load EXCEPT !.todo = Without(@, e)]

Skip(e, gen, free) ==
  /\ e \in DOMAIN load.todo \cap load.bad
  /\ e.slot <= ForeignLimit
  /\ slotGen' = [Ids!Grown(e.slot) EXCEPT ![e.slot] = gen]
  /\ freeSlots' = freeSlots \o free
  /\ recycled' = recycled \cup {e}
  /\ load' = [load EXCEPT !.todo = Without(@, e), !.failed = TRUE]
  /\ UNCHANGED <<poolSlots, clearing, store>>

\* Mutant: a slot of the last generation is not retired.
SkipNextUnretired(e) == Skip(e, e.gen + 1, <<e.slot>>)

\* A record with an unknown component: the entity is created, and destroyed
\* before it gets any; its slot is recycled like that of any other entity.
SkipNext(e) ==
  IF e.gen < MaxGen THEN Skip(e, e.gen + 1, <<e.slot>>) ELSE Skip(e, e.gen, <<>>)

\* Mutant: the backup is loaded on top of what was created.
RestoreBackupOnTop ==
  /\ load.todo = Empty /\ load.failed
  /\ load' = [Idle EXCEPT !.phase = "create", !.todo = load.backup]
  /\ UNCHANGED <<ids, store, saves, promised, reloaded>>

\* "some entities failed to deserialize; restoring the previous world"
RestoreBackup ==
  /\ load.todo = Empty /\ load.failed
  /\ load' = [Idle EXCEPT !.phase = "clear", !.todo = load.backup]
  /\ UNCHANGED <<store, saves, promised, reloaded>>
  /\ Ids!BeginClear

FinishLoad ==
  /\ load.todo = Empty /\ ~load.failed
  /\ load' = Idle
  /\ promised' = Empty
  /\ UNCHANGED <<ids, store, saves, reloaded>>

(***************************************************************************)
(* Specification.                                                          *)
(***************************************************************************)

FreshWorld ==
  /\ slotGen = <<>> /\ freeSlots = <<>> /\ poolSlots = <<>>
  /\ clearing = FALSE /\ recycled = {}
  /\ store = Empty /\ load = Idle /\ promised = Empty /\ reloaded = FALSE

Init == FreshWorld /\ saves = {}

\* The process ends, in the middle of a load perhaps, and another one starts.
Restart ==
  /\ slotGen' = <<>> /\ freeSlots' = <<>> /\ poolSlots' = <<>>
  /\ clearing' = FALSE /\ recycled' = {}
  /\ store' = Empty /\ load' = Idle /\ promised' = Empty /\ reloaded' = FALSE
  /\ UNCHANGED saves

Change ==
  /\ \/ \E id \in Ids!Entity : CreateEntity(id)
     \/ \E id \in Alive : DestroyEntity(id)
     \/ \E e \in Alive, d \in Data : SetData(e, d)
  /\ UNCHANGED <<saves, load, promised, reloaded>>

Clear ==
  /\ \E e \in Alive : ClearNext(e)
  /\ UNCHANGED <<saves, load, promised, reloaded>>

Create ==
  /\ \E e \in DOMAIN load.todo : LoadNext(e) \/ SkipNext(e)
  /\ UNCHANGED <<saves, promised, reloaded>>

Next ==
  \/ load.phase = "idle" /\ (Change \/ Save)
  \/ /\ load.phase = "idle"
     /\ \E save \in saves : \E file \in {save, ThroughJson(save)} :
          \E bad \in SUBSET DOMAIN file : BeginLoad(file, bad)
  \/ load.phase = "clear" /\ (Clear \/ EndClear)
  \/ load.phase = "create" /\ (Create \/ RestoreBackup \/ FinishLoad)
  \/ Restart

Spec == Init /\ [][Next]_vars

(***************************************************************************)
(* Properties.                                                             *)
(***************************************************************************)

TypeOK ==
  /\ slotGen \in Seq(Ids!Generations) /\ freeSlots \in Seq(Ids!Slots)
  /\ Alive \subseteq Ids!Entity /\ store \in [Alive -> Data]
  /\ Cardinality(saves) <= 1
  /\ load.phase \in {"idle", "clear", "create"}
  /\ load.phase = "clear" <=> clearing
  /\ load.phase = "idle" => load = Idle
  /\ DOMAIN load.todo \subseteq Ids!Entity /\ load.bad \subseteq Ids!Entity

\* "Loading replaces the existing world contents", "entity ids are preserved"
\* (VECSWorld.xml:194), and "a partial/failed load restores the previous world
\* instead of leaving it cleared and half-rebuilt" (vecs_world.cpp:1316): a load
\* ends with the entities of the save, or with those of the world it found, and
\* none of the other; each has the data the file gives it, and in a world brought
\* back what a JSON string keeps of its data, which may be less than it had.
LoadRestores == [][FinishLoad => store = promised]_vars

\* In a world into which nothing was loaded but at its start, loading, restoring
\* and clearing leave the allocator fit: no slot has two owners and no slot of
\* an entity is handed out.
FreshLoadKeepsSlots ==
  ~reloaded => Ids!OneEntityPerSlot /\ Ids!FreeSlotsUnowned

\* create_entity() "creates a new entity with no components"
\* (VECSWorld.xml:72): the id it returns is not that of an entity that exists,
\* loaded or not.
CreatedIsNew ==
  [][\A id \in Ids!Entity : CreateEntity(id) => id \notin Alive]_vars
=============================================================================

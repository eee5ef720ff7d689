--------------------------- MODULE WorldData_proofs ---------------------------
(***************************************************************************)
(* Proofs about the data of a world as a whole, for every value of the     *)
(* constants.                                                              *)
(*                                                                         *)
(* Snapshot: a load ends with the save it was given or with the world it   *)
(* found, and one into a world that had issued no ids leaves the allocator *)
(* fit.                                                                    *)
(*                                                                         *)
(* Registry and SpawnData: every layout is sound, what is stored agrees    *)
(* with the types, batches and merges make just the entities they report,  *)
(* and references lead where they led before.                              *)
(***************************************************************************)
EXTENDS SpawnData, Snapshot, SequenceTheorems, FiniteSetTheorems, WellFoundedInduction, TLAPS

Allocator == INSTANCE EntityIds_proofs WITH live <- Alive

(***************************************************************************)
(* The inductive invariant.                                                *)
(***************************************************************************)

DistinctSlots(S) == \A e, f \in S : e.slot = f.slot => e = f

\* What can be saved can be loaded: no slot is named twice.
Loadable(s) ==
  /\ s \in [DOMAIN s -> Data]
  /\ DOMAIN s \subseteq Allocator!Entity
  /\ DistinctSlots(DOMAIN s)

Typed ==
  /\ Allocator!SlotsTyped /\ poolSlots = <<>>
  /\ Loadable(store)
  /\ \A s \in saves : Loadable(s) /\ saves = {s}
  /\ load = [phase |-> load.phase, todo |-> load.todo, bad |-> load.bad,
             backup |-> load.backup, failed |-> load.failed]
  /\ load.phase \in {"idle", "clear", "create"}
  /\ load.bad \subseteq Allocator!Entity
  /\ Loadable(load.todo) /\ Loadable(load.backup)
  /\ load.phase = "clear" <=> clearing
  /\ load.phase = "idle" => load = Idle

\* Every entity carries the current generation of its slot, in a world into
\* which something was loaded too.
GenerationsCurrent ==
  \A e \in Alive : e.slot \in DOMAIN slotGen /\ slotGen[e.slot] = e.gen

\* What is loaded and what remains to be loaded do not meet.
Apart ==
  load.phase = "create" =>
    /\ Alive \cap DOMAIN load.todo = {}
    /\ DistinctSlots(Alive \cup DOMAIN load.todo)

\* A load without unknown components is on its way to the save, any other one
\* will fail and is on its way to the backup.
OnTheWay ==
  /\ load.phase = "idle" => promised = Empty
  /\ load.phase # "idle" /\ load.bad # {} =>
       promised = load.backup /\ (load.bad \cap DOMAIN load.todo = {} => load.failed)
  /\ load.phase # "idle" /\ load.bad = {} => ~load.failed /\ Loadable(promised)
  /\ load.phase = "clear" /\ load.bad = {} => promised = load.todo
  /\ load.phase = "create" /\ load.bad = {} =>
       /\ DOMAIN promised = Alive \cup DOMAIN load.todo
       /\ \A e \in Alive : store[e] = promised[e]
       /\ \A e \in DOMAIN load.todo : load.todo[e] = promised[e]

\* In a world that had issued no ids when the save was loaded the backup is
\* empty, and what a failed load clears away is all there is.
Fresh ==
  ~reloaded =>
    /\ IsInjective(freeSlots)
    /\ \A e \in Alive \cup DOMAIN load.todo : e.slot \notin Range(freeSlots)
    /\ load.phase # "idle" => load.backup = Empty
    /\ load.phase = "clear" => load.todo = Empty \/ Alive = {}

SnapshotInv == Typed /\ GenerationsCurrent /\ Apart /\ OnTheWay /\ Fresh

(***************************************************************************)
(* Stores and the allocator.                                               *)
(***************************************************************************)

\* The constants of the snapshot fit the allocator.
LEMMA AllocatorAssumption == Allocator!EntityIdsAssumption
BY SnapshotAssumption DEF SnapshotAssumption, Allocator!EntityIdsAssumption

\* The allocator of the model and the one that is proved about are the same.
LEMMA SameAllocator ==
  /\ Ids!Entity = Allocator!Entity /\ Ids!Slots = Allocator!Slots
  /\ Ids!Generations = Allocator!Generations
  /\ \A id : Ids!AllocEntityId(id) <=> Allocator!AllocEntityId(id)
  /\ \A id : Ids!FreeEntityId(id) <=> Allocator!FreeEntityId(id)
  /\ \A n : Ids!Grown(n) = Allocator!Grown(n)
  /\ \A s : Allocator!IsFree(s) <=> s \in Range(freeSlots)
  /\ Allocator!Range(freeSlots) = Range(freeSlots)
  /\ Allocator!IsInjective(freeSlots) <=> IsInjective(freeSlots)
<1>1. /\ Ids!Entity = Allocator!Entity /\ Ids!Slots = Allocator!Slots
      /\ Ids!Generations = Allocator!Generations
  BY DEF Ids!Entity, Allocator!Entity, Ids!Slots, Allocator!Slots,
         Ids!Generations, Allocator!Generations
<1>2. ASSUME NEW id PROVE Ids!AllocEntityId(id) <=> Allocator!AllocEntityId(id)
  BY DEF Ids!AllocEntityId, Ids!OpenSlot, Ids!RecycleSlot, Ids!Top, Ids!Rest,
         Allocator!AllocEntityId, Allocator!OpenSlot, Allocator!RecycleSlot,
         Allocator!Top, Allocator!Rest
<1>3. ASSUME NEW id PROVE Ids!FreeEntityId(id) <=> Allocator!FreeEntityId(id)
  BY DEF Ids!FreeEntityId, Allocator!FreeEntityId
<1>4. ASSUME NEW n PROVE Ids!Grown(n) = Allocator!Grown(n)
  BY DEF Ids!Grown, Allocator!Grown
<1>5. Allocator!Range(freeSlots) = Range(freeSlots)
  BY DEF Allocator!Range, Range
<1>6. \A s : Allocator!IsFree(s) <=> s \in Range(freeSlots)
  BY <1>5 DEF Allocator!IsFree
<1>7. Allocator!IsInjective(freeSlots) <=> IsInjective(freeSlots)
  BY DEF Allocator!IsInjective, IsInjective
<1> QED BY <1>1, <1>2, <1>3, <1>4, <1>5, <1>6, <1>7

\* An empty save can be loaded.
LEMMA EmptyLoadable == Loadable(Empty) /\ DOMAIN Empty = {}
BY DEF Loadable, Empty, DistinctSlots

\* One more entity on a slot of its own leaves a store that can be loaded.
LEMMA WithLoadable ==
  ASSUME NEW s, Loadable(s), NEW e \in Allocator!Entity, NEW d \in Data,
         \A f \in DOMAIN s : f.slot = e.slot => f = e
  PROVE  /\ Loadable(With(s, e, d))
         /\ DOMAIN With(s, e, d) = DOMAIN s \cup {e}
         /\ With(s, e, d)[e] = d
         /\ \A f \in DOMAIN s : f # e => With(s, e, d)[f] = s[f]
BY DEF Loadable, With, DistinctSlots

\* So does one entity less.
LEMMA WithoutLoadable ==
  ASSUME NEW s, Loadable(s), NEW e
  PROVE  /\ Loadable(Without(s, e))
         /\ DOMAIN Without(s, e) = DOMAIN s \ {e}
         /\ \A f \in DOMAIN Without(s, e) : Without(s, e)[f] = s[f]
BY DEF Loadable, Without, Restrict, DistinctSlots

(***************************************************************************)
(* Every operation preserves the invariant.                                *)
(***************************************************************************)

\* create_entity() between loads.
LEMMA CreateEntityPreserves ==
  ASSUME SnapshotInv, load.phase = "idle", NEW id, CreateEntity(id),
         UNCHANGED <<saves, load, promised, reloaded>>
  PROVE  SnapshotInv'
<1> USE DEF SnapshotInv
<1>1. /\ store' = With(store, id, Blank) /\ Allocator!AllocEntityId(id)
      /\ UNCHANGED <<poolSlots, clearing, saves, load, promised, reloaded>>
  BY SameAllocator DEF CreateEntity, Ids!CreateEntity
<1>2. /\ id \in Allocator!Entity
      /\ Allocator!SlotsTyped'
      /\ DOMAIN slotGen \subseteq DOMAIN slotGen'
      /\ \A s \in DOMAIN slotGen : slotGen'[s] = slotGen[s]
      /\ id.slot \in DOMAIN slotGen' /\ slotGen'[id.slot] = id.gen
      /\ IsInjective(freeSlots) =>
           /\ IsInjective(freeSlots')
           /\ Range(freeSlots') = Range(freeSlots) \ {id.slot}
  <2>1. Allocator!SlotsTyped
    BY DEF Typed
  <2> QED
    BY <1>1, <2>1, AllocatorAssumption, Allocator!AllocTakesSlot
       DEF Allocator!Range, Range, Allocator!IsInjective, IsInjective
<1>3. \A f \in Alive : f.slot = id.slot => f = id
  BY <1>2 DEF GenerationsCurrent, Typed, Loadable, Alive, Allocator!Entity
<1>4. /\ Loadable(store') /\ Alive' = Alive \cup {id}
  <2>1. Loadable(store) /\ Blank \in Data /\ \A f \in DOMAIN store : f.slot = id.slot => f = id
    BY <1>3, SnapshotAssumption DEF Typed, SnapshotAssumption, Alive
  <2>2. Loadable(With(store, id, Blank)) /\ DOMAIN With(store, id, Blank) = DOMAIN store \cup {id}
    BY <1>2, <2>1, WithLoadable
  <2> QED BY <1>1, <2>2 DEF Alive
<1>5. Typed'
  BY <1>1, <1>2, <1>4 DEF Typed
<1>6. GenerationsCurrent'
  BY <1>2, <1>4 DEF GenerationsCurrent
<1>7. Apart' /\ OnTheWay'
  BY <1>1 DEF Apart, OnTheWay
<1>8. Fresh'
  BY <1>1, <1>2, <1>4, EmptyLoadable DEF Fresh, Typed, Idle
<1> QED BY <1>5, <1>6, <1>7, <1>8

\* The release of one entity, by destroy_entity() or by clear().
LEMMA ReleaseEffect ==
  ASSUME Typed, GenerationsCurrent, NEW id \in Alive,
         store' = Without(store, id), Ids!FreeEntityId(id)
  PROVE  /\ Allocator!SlotsTyped'
         /\ Loadable(store') /\ Alive' = Alive \ {id}
         /\ GenerationsCurrent'
         /\ IsInjective(freeSlots) /\ id.slot \notin Range(freeSlots) => IsInjective(freeSlots')
         /\ Range(freeSlots') \subseteq Range(freeSlots) \cup {id.slot}
<1>1. /\ id \in Allocator!Entity
      /\ id.slot \in DOMAIN slotGen /\ slotGen[id.slot] = id.gen
      /\ Allocator!SlotsTyped /\ Allocator!FreeEntityId(id)
  BY SameAllocator DEF Typed, Loadable, GenerationsCurrent, Alive
<1>2. /\ Allocator!SlotsTyped'
      /\ DOMAIN slotGen' = DOMAIN slotGen
      /\ \A s \in DOMAIN slotGen : s # id.slot => slotGen'[s] = slotGen[s]
      /\ IsInjective(freeSlots) /\ id.slot \notin Range(freeSlots) => IsInjective(freeSlots')
      /\ Range(freeSlots') \subseteq Range(freeSlots) \cup {id.slot}
  BY <1>1, SameAllocator, AllocatorAssumption, Allocator!FreeReleasesSlot
     DEF Allocator!Range, Range, Allocator!IsInjective, IsInjective
<1>3. Loadable(store') /\ Alive' = Alive \ {id}
  BY WithoutLoadable DEF Typed, Alive
<1>4. \A f \in Alive' : f.slot # id.slot
  BY <1>3 DEF Typed, Loadable, DistinctSlots, Alive
<1>5. GenerationsCurrent'
  BY <1>2, <1>3, <1>4 DEF GenerationsCurrent
<1> QED BY <1>2, <1>3, <1>5

\* destroy_entity() between loads.
LEMMA DestroyEntityPreserves ==
  ASSUME SnapshotInv, load.phase = "idle", NEW id \in Alive, DestroyEntity(id),
         UNCHANGED <<saves, load, promised, reloaded>>
  PROVE  SnapshotInv'
<1> USE DEF SnapshotInv
<1>1. /\ store' = Without(store, id) /\ Ids!FreeEntityId(id)
      /\ UNCHANGED <<poolSlots, clearing, saves, load, promised, reloaded>>
  BY DEF DestroyEntity, Ids!DestroyEntity
<1>2. Typed'
  BY <1>1, ReleaseEffect DEF Typed
<1>3. GenerationsCurrent'
  BY <1>1, ReleaseEffect
<1>4. Apart' /\ OnTheWay'
  BY <1>1 DEF Apart, OnTheWay
<1>5. ASSUME ~reloaded
      PROVE  /\ IsInjective(freeSlots')
             /\ \A e \in Alive' \cup DOMAIN load.todo : e.slot \notin Range(freeSlots')
  <2>1. IsInjective(freeSlots) /\ \A e \in Alive : e.slot \notin Range(freeSlots)
    BY <1>5 DEF Fresh
  <2>2. DOMAIN load.todo = {}
    BY EmptyLoadable DEF Typed, Idle
  <2>3. \A e \in Alive \ {id} : e.slot # id.slot
    BY DEF Typed, Loadable, DistinctSlots, Alive
  <2> QED BY <1>1, <2>1, <2>2, <2>3, ReleaseEffect
<1>6. Fresh'
  BY <1>1, <1>5 DEF Fresh
<1> QED BY <1>2, <1>3, <1>4, <1>6

\* The components of an entity change between loads.
LEMMA SetDataPreserves ==
  ASSUME SnapshotInv, load.phase = "idle", NEW e \in Alive, NEW d \in Data, SetData(e, d),
         UNCHANGED <<saves, load, promised, reloaded>>
  PROVE  SnapshotInv'
<1> USE DEF SnapshotInv
<1>1. store' = With(store, e, d) /\ UNCHANGED <<ids, saves, load, promised, reloaded>>
  BY DEF SetData
<1>2. Loadable(store') /\ Alive' = Alive
  <2>1. /\ Loadable(store) /\ e \in Allocator!Entity
        /\ \A f \in DOMAIN store : f.slot = e.slot => f = e
    BY DEF Typed, Loadable, DistinctSlots, Alive
  <2>2. Loadable(With(store, e, d)) /\ DOMAIN With(store, e, d) = DOMAIN store \cup {e}
    BY <2>1, WithLoadable
  <2> QED BY <1>1, <2>2 DEF Alive
<1>3. Typed'
  BY <1>1, <1>2 DEF Typed, ids, Allocator!SlotsTyped
<1>4. GenerationsCurrent' /\ Apart' /\ OnTheWay' /\ Fresh'
  BY <1>1, <1>2 DEF GenerationsCurrent, Apart, OnTheWay, Fresh, ids
<1> QED BY <1>3, <1>4

\* A save is taken of a store that can be loaded.
LEMMA SavePreserves ==
  ASSUME SnapshotInv, Save
  PROVE  SnapshotInv'
<1>1. Typed'
  BY DEF SnapshotInv, Typed, Save, ids, Allocator!SlotsTyped
<1> QED BY <1>1 DEF SnapshotInv, Save, ids, GenerationsCurrent, Apart, OnTheWay, Fresh, Alive

\* A save read back from a JSON string has the same entities.
LEMMA ThroughJsonLoadable ==
  ASSUME NEW s, Loadable(s)
  PROVE  Loadable(ThroughJson(s)) /\ DOMAIN ThroughJson(s) = DOMAIN s
<1>1. DOMAIN ThroughJson(s) = DOMAIN s
  BY DEF ThroughJson
<1>2. \A e \in DOMAIN s : ThroughJson(s)[e] \in Data
  BY SnapshotAssumption DEF SnapshotAssumption, ThroughJson, Loadable
<1>3. ThroughJson(s) \in [DOMAIN ThroughJson(s) -> Data]
  BY <1>1, <1>2 DEF ThroughJson
<1> QED BY <1>1, <1>3 DEF Loadable

\* A load keeps what JSON can of the world it finds, and begins to clear.
LEMMA BeginLoadPreserves ==
  ASSUME SnapshotInv, load.phase = "idle", NEW save \in saves,
         NEW file \in {save, ThroughJson(save)}, NEW bad \in SUBSET DOMAIN file,
         BeginLoad(file, bad)
  PROVE  SnapshotInv'
<1> USE DEF SnapshotInv
<1>1. /\ load' = [phase |-> "clear", todo |-> file, bad |-> bad, backup |-> ThroughJson(store),
                  failed |-> FALSE]
      /\ promised' = IF bad = {} THEN file ELSE ThroughJson(store)
      /\ reloaded' = (reloaded \/ slotGen # <<>>)
      /\ clearing' = TRUE
      /\ UNCHANGED <<store, saves, slotGen, freeSlots, poolSlots>>
  BY DEF BeginLoad, Ids!BeginClear
<1>2. /\ load'.phase = "clear" /\ load'.todo = file /\ load'.bad = bad
      /\ load'.backup = ThroughJson(store) /\ ~load'.failed /\ Alive' = Alive
  BY <1>1 DEF Alive
<1>3. Loadable(file)
  BY ThroughJsonLoadable DEF Typed
<1>8. Loadable(ThroughJson(store)) /\ DOMAIN ThroughJson(store) = Alive
  BY ThroughJsonLoadable DEF Typed, Alive
<1>4. Typed'
  <2>1. bad \subseteq Allocator!Entity
    BY <1>3 DEF Loadable
  <2> QED BY <1>1, <1>2, <1>3, <1>8, <2>1 DEF Typed, Allocator!SlotsTyped
<1>5. GenerationsCurrent' /\ Apart'
  BY <1>1, <1>2 DEF GenerationsCurrent, Apart
<1>6. OnTheWay'
  BY <1>1, <1>2, <1>3 DEF OnTheWay
<1>7. Fresh'
  <2> SUFFICES ASSUME ~reloaded'
               PROVE  /\ IsInjective(freeSlots')
                      /\ \A e \in Alive' \cup DOMAIN load'.todo : e.slot \notin Range(freeSlots')
                      /\ load'.backup = Empty
                      /\ Alive' = {}
    BY DEF Fresh
  <2>1. ~reloaded /\ slotGen = <<>>
    BY <1>1
  <2>2. DOMAIN slotGen = {}
    BY <2>1
  <2>3. Alive = {}
    BY <2>2 DEF GenerationsCurrent
  <2>4. ThroughJson(store) = Empty
    BY <1>8, <2>3 DEF Loadable, Empty
  <2>5. Range(freeSlots) = {}
    <3>1. \A i \in 1..Len(freeSlots) : freeSlots[i] \in {}
      BY <2>2, ElementOfSeq DEF Typed, Allocator!SlotsTyped
    <3> QED BY <2>2, <3>1, LenProperties DEF Range, Typed, Allocator!SlotsTyped
  <2>6. IsInjective(freeSlots)
    BY <2>1 DEF Fresh
  <2> QED BY <1>1, <1>2, <2>3, <2>4, <2>5, <2>6
<1> QED BY <1>4, <1>5, <1>6, <1>7

\* clear() destroys one more entity of the world that was.
LEMMA ClearNextPreserves ==
  ASSUME SnapshotInv, load.phase = "clear", NEW e \in Alive, ClearNext(e),
         UNCHANGED <<saves, load, promised, reloaded>>
  PROVE  SnapshotInv'
<1> USE DEF SnapshotInv
<1>1. /\ store' = Without(store, e) /\ Ids!FreeEntityId(e)
      /\ UNCHANGED <<poolSlots, clearing, saves, load, promised, reloaded>>
  BY DEF ClearNext, Ids!ClearOne
<1>2. Typed'
  BY <1>1, ReleaseEffect DEF Typed
<1>3. GenerationsCurrent'
  BY <1>1, ReleaseEffect
<1>4. Apart' /\ OnTheWay'
  BY <1>1 DEF Apart, OnTheWay
<1>5. Fresh'
  <2> SUFFICES ASSUME ~reloaded
               PROVE  /\ IsInjective(freeSlots')
                      /\ \A f \in Alive' \cup DOMAIN load.todo : f.slot \notin Range(freeSlots')
                      /\ load.backup = Empty
                      /\ load.todo = Empty
    BY <1>1 DEF Fresh
  <2>1. /\ IsInjective(freeSlots) /\ \A f \in Alive : f.slot \notin Range(freeSlots)
        /\ load.backup = Empty /\ load.todo = Empty
    BY DEF Fresh
  <2>2. DOMAIN load.todo = {}
    BY <2>1, EmptyLoadable
  <2>3. \A f \in Alive \ {e} : f.slot # e.slot
    BY DEF Typed, Loadable, DistinctSlots, Alive
  <2> QED BY <1>1, <2>1, <2>2, <2>3, ReleaseEffect
<1> QED BY <1>2, <1>3, <1>4, <1>5

\* The world is empty, and the load goes on to create.
LEMMA EndClearPreserves ==
  ASSUME SnapshotInv, load.phase = "clear", EndClear
  PROVE  SnapshotInv'
<1> USE DEF SnapshotInv
<1>1. /\ load' = [load EXCEPT !.phase = "create"]
      /\ Alive = {} /\ clearing' = FALSE
      /\ UNCHANGED <<store, saves, promised, reloaded, slotGen, freeSlots, poolSlots>>
  BY DEF EndClear, Ids!EndClear
<1>2. /\ load' = [phase |-> "create", todo |-> load.todo, bad |-> load.bad,
                  backup |-> load.backup, failed |-> load.failed]
      /\ Alive' = {}
  BY <1>1 DEF Typed, Alive
<1>3. /\ load'.phase = "create" /\ load'.todo = load.todo /\ load'.bad = load.bad
      /\ load'.backup = load.backup /\ load'.failed = load.failed
  BY <1>2
<1>4. Typed'
  BY <1>1, <1>2, <1>3 DEF Typed, Allocator!SlotsTyped
<1>5. GenerationsCurrent' /\ Apart'
  BY <1>2, <1>3 DEF GenerationsCurrent, Apart, Typed, Loadable
<1>6. OnTheWay'
  BY <1>1, <1>2, <1>3 DEF OnTheWay
<1>7. Fresh'
  BY <1>1, <1>2, <1>3 DEF Fresh
<1> QED BY <1>4, <1>5, <1>6, <1>7

\* What is still to be created after one record.
LEMMA WithoutTodo ==
  ASSUME Typed, NEW e
  PROVE  /\ Loadable(Without(load.todo, e))
         /\ DOMAIN Without(load.todo, e) = DOMAIN load.todo \ {e}
         /\ \A f \in DOMAIN Without(load.todo, e) : Without(load.todo, e)[f] = load.todo[f]
<1> DEFINE todo == load.todo
<1>1. Loadable(todo)
  BY DEF Typed
<1> HIDE DEF todo
<1>2. /\ Loadable(Without(todo, e))
      /\ DOMAIN Without(todo, e) = DOMAIN todo \ {e}
      /\ \A f \in DOMAIN Without(todo, e) : Without(todo, e)[f] = todo[f]
  BY <1>1, WithoutLoadable
<1> QED BY <1>2 DEF todo

\* create_entity_preassigned() under the id of the record.
LEMMA LoadNextPreserves ==
  ASSUME SnapshotInv, load.phase = "create", NEW e \in DOMAIN load.todo, LoadNext(e),
         UNCHANGED <<saves, promised, reloaded>>
  PROVE  SnapshotInv'
<1> USE DEF SnapshotInv
<1>1. /\ e \notin load.bad
      /\ store' = With(store, e, load.todo[e])
      /\ slotGen' = [Allocator!Grown(e.slot) EXCEPT ![e.slot] = e.gen]
      /\ load' = [load EXCEPT !.todo = Without(@, e)]
      /\ UNCHANGED <<freeSlots, poolSlots, clearing, saves, promised, reloaded>>
  BY SameAllocator DEF LoadNext, Ids!CreateEntityPreassigned
<1>2. /\ load' = [phase |-> "create", todo |-> Without(load.todo, e), bad |-> load.bad,
                  backup |-> load.backup, failed |-> load.failed]
  BY <1>1 DEF Typed
<1>3. /\ load'.phase = "create" /\ load'.todo = Without(load.todo, e) /\ load'.bad = load.bad
      /\ load'.backup = load.backup /\ load'.failed = load.failed
  BY <1>2
<1>4. /\ e \in Allocator!Entity /\ e.slot \in Allocator!Slots /\ e.gen \in Allocator!Generations
      /\ load.todo[e] \in Data
  BY DEF Typed, Loadable, Allocator!Entity
<1>5. /\ e \notin Alive
      /\ \A f \in Alive : f.slot # e.slot
  BY DEF Apart, DistinctSlots
<1>6. /\ Loadable(store') /\ Alive' = Alive \cup {e}
      /\ store'[e] = load.todo[e]
      /\ \A f \in Alive : store'[f] = store[f]
  <2>1. Loadable(store) /\ \A f \in DOMAIN store : f.slot = e.slot => f = e
    BY <1>5 DEF Typed, Alive
  <2> DEFINE d == load.todo[e]
  <2>2. d \in Data /\ e \in Allocator!Entity /\ store' = With(store, e, d)
    BY <1>1, <1>4
  <2> HIDE DEF d
  <2>3. /\ Loadable(With(store, e, d))
        /\ DOMAIN With(store, e, d) = DOMAIN store \cup {e}
        /\ With(store, e, d)[e] = d
        /\ \A f \in DOMAIN store : f # e => With(store, e, d)[f] = store[f]
    BY ONLY <2>1, <2>2, WithLoadable, SMTT(30)
  <2> QED BY <1>5, <2>2, <2>3 DEF Alive, d
<1>7. /\ Loadable(load'.todo) /\ DOMAIN load'.todo = DOMAIN load.todo \ {e}
      /\ \A f \in DOMAIN load'.todo : load'.todo[f] = load.todo[f]
  <2>1. /\ Loadable(Without(load.todo, e))
        /\ DOMAIN Without(load.todo, e) = DOMAIN load.todo \ {e}
        /\ \A f \in DOMAIN Without(load.todo, e) : Without(load.todo, e)[f] = load.todo[f]
    BY WithoutTodo
  <2>2. load'.todo = Without(load.todo, e)
    BY <1>3
  <2> QED BY <2>1, <2>2
<1>8. /\ slotGen' \in Seq(Allocator!Generations) /\ Len(slotGen') <= SlotLimit
      /\ DOMAIN slotGen \subseteq DOMAIN slotGen'
      /\ e.slot \in DOMAIN slotGen' /\ slotGen'[e.slot] = e.gen
      /\ \A s \in DOMAIN slotGen : s # e.slot => slotGen'[s] = slotGen[s]
  BY <1>1, <1>4, AllocatorAssumption, Allocator!NamedSlot DEF Typed, Allocator!SlotsTyped
<1>9. Typed'
  <2>1. Allocator!SlotsTyped'
    BY <1>1, <1>8, SeqMonotonic DEF Typed, Allocator!SlotsTyped
  <2> QED BY <1>1, <1>2, <1>3, <1>6, <1>7, <2>1 DEF Typed
<1>10. GenerationsCurrent'
  BY <1>5, <1>6, <1>8 DEF GenerationsCurrent
<1>11. Apart'
  BY <1>3, <1>6, <1>7 DEF Apart, DistinctSlots
<1>12. OnTheWay'
  <2>1. CASE load.bad = {}
    BY <1>1, <1>3, <1>6, <1>7, <2>1 DEF OnTheWay
  <2>2. CASE load.bad # {}
    BY <1>1, <1>3, <1>7, <2>2 DEF OnTheWay
  <2> QED BY <2>1, <2>2
<1>13. Fresh'
  BY <1>1, <1>3, <1>6, <1>7 DEF Fresh
<1> QED BY <1>9, <1>10, <1>11, <1>12, <1>13

\* A record whose entity is created and destroyed again.
LEMMA SkipPreserves ==
  ASSUME SnapshotInv, load.phase = "create", NEW e \in DOMAIN load.todo,
         NEW gen \in Allocator!Generations, NEW free, free = <<>> \/ free = <<e.slot>>,
         Skip(e, gen, free), UNCHANGED <<saves, promised, reloaded>>
  PROVE  SnapshotInv'
<1> USE DEF SnapshotInv
<1>1. /\ e \in load.bad
      /\ slotGen' = [Allocator!Grown(e.slot) EXCEPT ![e.slot] = gen]
      /\ freeSlots' = freeSlots \o free
      /\ load' = [load EXCEPT !.todo = Without(@, e), !.failed = TRUE]
      /\ UNCHANGED <<poolSlots, clearing, store, saves, promised, reloaded>>
  BY SameAllocator DEF Skip
<1>2. /\ load' = [phase |-> "create", todo |-> Without(load.todo, e), bad |-> load.bad,
                  backup |-> load.backup, failed |-> TRUE]
      /\ Alive' = Alive
  BY <1>1 DEF Typed, Alive
<1>3. /\ load'.phase = "create" /\ load'.todo = Without(load.todo, e) /\ load'.bad = load.bad
      /\ load'.backup = load.backup /\ load'.failed
  BY <1>2
<1>4. e \in Allocator!Entity /\ e.slot \in Allocator!Slots
  BY DEF Typed, Loadable, Allocator!Entity
<1>5. \A f \in (Alive \cup DOMAIN load.todo) \ {e} : f.slot # e.slot
  BY DEF Apart, DistinctSlots
<1>6. e \notin Alive
  BY DEF Apart
<1>7. /\ Loadable(load'.todo) /\ DOMAIN load'.todo = DOMAIN load.todo \ {e}
  BY <1>3, WithoutTodo
<1>8. /\ slotGen' \in Seq(Allocator!Generations) /\ Len(slotGen') <= SlotLimit
      /\ DOMAIN slotGen \subseteq DOMAIN slotGen'
      /\ e.slot \in DOMAIN slotGen'
      /\ \A s \in DOMAIN slotGen : s # e.slot => slotGen'[s] = slotGen[s]
  BY <1>1, <1>4, AllocatorAssumption, Allocator!NamedSlot DEF Typed, Allocator!SlotsTyped
<1>9. /\ freeSlots' \in Seq(DOMAIN slotGen')
      /\ Range(freeSlots') \subseteq Range(freeSlots) \cup {e.slot}
      /\ IsInjective(freeSlots) /\ e.slot \notin Range(freeSlots) => IsInjective(freeSlots')
  <2>1. freeSlots \in Seq(DOMAIN slotGen')
    BY <1>8, SeqMonotonic DEF Typed, Allocator!SlotsTyped
  <2>2. CASE free = <<>>
    BY <1>1, <2>1, <2>2, ConcatEmptySeq
  <2>3. CASE free = <<e.slot>>
    <3>1. freeSlots' = Append(freeSlots, e.slot)
      BY <1>1, <1>8, <2>1, <2>3, AppendIsConcat
    <3> QED
      BY <1>8, <2>1, <3>1, Allocator!PushStack
         DEF Allocator!Range, Range, Allocator!IsInjective, IsInjective
  <2> QED BY <2>2, <2>3
<1>10. Typed'
  <2>1. Allocator!SlotsTyped'
    BY <1>8, <1>9 DEF Allocator!SlotsTyped
  <2> QED BY <1>1, <1>2, <1>3, <1>7, <2>1 DEF Typed
<1>11. GenerationsCurrent'
  BY <1>1, <1>2, <1>5, <1>6, <1>8 DEF GenerationsCurrent
<1>12. Apart'
  BY <1>2, <1>3, <1>7 DEF Apart, DistinctSlots
<1>13. OnTheWay'
  BY <1>1, <1>3 DEF OnTheWay
<1>14. Fresh'
  BY <1>1, <1>2, <1>3, <1>5, <1>6, <1>7, <1>9 DEF Fresh
<1> QED BY <1>10, <1>11, <1>12, <1>13, <1>14

\* A record of the save that cannot be used fails the load.
LEMMA SkipNextPreserves ==
  ASSUME SnapshotInv, load.phase = "create", NEW e \in DOMAIN load.todo, SkipNext(e),
         UNCHANGED <<saves, promised, reloaded>>
  PROVE  SnapshotInv'
<1>1. e.gen \in 0..MaxGen
  BY DEF SnapshotInv, Typed, Loadable, Allocator!Entity, Allocator!Generations
<1>2. CASE e.gen < MaxGen
  <2>1. e.gen + 1 \in Allocator!Generations /\ Skip(e, e.gen + 1, <<e.slot>>)
    BY <1>1, <1>2, SnapshotAssumption DEF SkipNext, Allocator!Generations, SnapshotAssumption
  <2> QED BY <2>1, SkipPreserves
<1>3. CASE ~(e.gen < MaxGen)
  <2>1. e.gen \in Allocator!Generations /\ Skip(e, e.gen, <<>>)
    BY <1>1, <1>3 DEF SkipNext, Allocator!Generations
  <2> QED BY <2>1, SkipPreserves
<1> QED BY <1>2, <1>3

\* The failed load starts over with the backup.
LEMMA RestoreBackupPreserves ==
  ASSUME SnapshotInv, load.phase = "create", RestoreBackup
  PROVE  SnapshotInv'
<1> USE DEF SnapshotInv
<1>1. /\ load.todo = Empty /\ load.failed
      /\ load' = [Idle EXCEPT !.phase = "clear", !.todo = load.backup]
      /\ clearing' = TRUE
      /\ UNCHANGED <<store, saves, promised, reloaded, slotGen, freeSlots, poolSlots>>
  BY DEF RestoreBackup, Ids!BeginClear
<1>2. /\ load' = [phase |-> "clear", todo |-> load.backup, bad |-> {}, backup |-> Empty,
                  failed |-> FALSE]
      /\ Alive' = Alive
  BY <1>1 DEF Idle, Alive
<1>3. /\ load'.phase = "clear" /\ load'.todo = load.backup /\ load'.bad = {}
      /\ load'.backup = Empty /\ ~load'.failed
  BY <1>2
<1>4. Loadable(load.backup) /\ promised = load.backup
  BY <1>1 DEF Typed, OnTheWay
<1>5. Typed'
  BY <1>1, <1>2, <1>3, <1>4, EmptyLoadable DEF Typed, Allocator!SlotsTyped
<1>6. GenerationsCurrent' /\ Apart' /\ OnTheWay'
  BY <1>1, <1>2, <1>3, <1>4 DEF GenerationsCurrent, Apart, OnTheWay
<1>7. Fresh'
  BY <1>1, <1>2, <1>3, EmptyLoadable DEF Fresh
<1> QED BY <1>5, <1>6, <1>7

\* A load that ends has made the world it promised.
LEMMA FinishLoadPreserves ==
  ASSUME SnapshotInv, load.phase = "create", FinishLoad
  PROVE  SnapshotInv' /\ store = promised
<1> USE DEF SnapshotInv
<1>1. /\ load.todo = Empty /\ ~load.failed
      /\ load' = Idle /\ promised' = Empty
      /\ UNCHANGED <<store, saves, reloaded, slotGen, freeSlots, poolSlots, clearing>>
  BY DEF FinishLoad, ids
<1>2. /\ load'.phase = "idle" /\ load'.todo = Empty /\ load'.bad = {}
      /\ load'.backup = Empty /\ ~load'.failed
      /\ load' = [phase |-> load'.phase, todo |-> load'.todo, bad |-> load'.bad,
                  backup |-> load'.backup, failed |-> load'.failed]
      /\ Alive' = Alive
  BY <1>1 DEF Idle, Alive
<1>3. DOMAIN load.todo = {}
  BY <1>1, EmptyLoadable
<1>4. store = promised
  <2>1. load.bad = {}
    BY <1>1, <1>3 DEF OnTheWay
  <2>2. /\ DOMAIN promised = Alive /\ \A e \in Alive : store[e] = promised[e]
        /\ Loadable(promised) /\ Loadable(store)
    BY <1>3, <2>1 DEF OnTheWay, Typed
  <2> QED BY <2>2 DEF Loadable, Alive
<1>5. Typed'
  BY <1>1, <1>2, EmptyLoadable DEF Typed, Allocator!SlotsTyped
<1>6. GenerationsCurrent' /\ Apart' /\ OnTheWay'
  BY <1>1, <1>2 DEF GenerationsCurrent, Apart, OnTheWay
<1>7. Fresh'
  BY <1>1, <1>2, EmptyLoadable DEF Fresh
<1> QED BY <1>4, <1>5, <1>6, <1>7

\* The invariant holds in a new world and in one that has just started.
LEMMA FreshWorldInv == FreshWorld /\ (\A s \in saves : Loadable(s) /\ saves = {s}) => SnapshotInv
<1> SUFFICES ASSUME FreshWorld, \A s \in saves : Loadable(s) /\ saves = {s}
             PROVE  SnapshotInv
  OBVIOUS
<1>1. /\ slotGen = <<>> /\ freeSlots = <<>> /\ poolSlots = <<>>
      /\ clearing = FALSE /\ store = Empty /\ load = Idle /\ promised = Empty
  BY DEF FreshWorld
<1>2. /\ load.phase = "idle" /\ load.todo = Empty /\ load.bad = {}
      /\ load.backup = Empty /\ ~load.failed
      /\ load = [phase |-> load.phase, todo |-> load.todo, bad |-> load.bad,
                 backup |-> load.backup, failed |-> load.failed]
  BY <1>1 DEF Idle
<1>3. Alive = {}
  BY <1>1, EmptyLoadable DEF Alive
<1>4. Allocator!SlotsTyped
  BY <1>1, EmptySeq, SnapshotAssumption DEF Allocator!SlotsTyped, SnapshotAssumption
<1>5. IsInjective(freeSlots)
  BY <1>1 DEF IsInjective
<1>6. Typed
  BY <1>1, <1>2, <1>4, EmptyLoadable DEF Typed
<1>7. GenerationsCurrent /\ Apart /\ OnTheWay /\ Fresh
  BY <1>1, <1>2, <1>3, <1>5, EmptyLoadable DEF GenerationsCurrent, Apart, OnTheWay, Fresh
<1> QED BY <1>6, <1>7 DEF SnapshotInv

\* A process that ends leaves the save behind.
LEMMA RestartPreserves ==
  ASSUME SnapshotInv, Restart
  PROVE  SnapshotInv'
<1>1. FreshWorld' /\ saves' = saves
  BY DEF Restart, FreshWorld
<1>2. \A s \in saves' : Loadable(s) /\ saves' = {s}
  BY <1>1 DEF SnapshotInv, Typed
<1>3. (FreshWorld /\ (\A s \in saves : Loadable(s) /\ saves = {s}) => SnapshotInv)'
  BY FreshWorldInv, PTL
<1> QED BY <1>1, <1>2, <1>3

(***************************************************************************)
(* Theorems.                                                               *)
(***************************************************************************)

\* Every step of the world and of loading keeps the invariant.
LEMMA StepPreserves ==
  ASSUME SnapshotInv, [Next]_vars
  PROVE  SnapshotInv'
<1>1. CASE load.phase = "idle" /\ (Change \/ Save)
  BY <1>1, CreateEntityPreserves, DestroyEntityPreserves, SetDataPreserves, SavePreserves
     DEF Change
<1>2. CASE load.phase = "idle" /\ \E save \in saves : \E file \in {save, ThroughJson(save)} :
             \E bad \in SUBSET DOMAIN file : BeginLoad(file, bad)
  BY <1>2, BeginLoadPreserves
<1>3. CASE load.phase = "clear" /\ (Clear \/ EndClear)
  BY <1>3, ClearNextPreserves, EndClearPreserves DEF Clear
<1>4. CASE load.phase = "create" /\ (Create \/ RestoreBackup \/ FinishLoad)
  BY <1>4, LoadNextPreserves, SkipNextPreserves, RestoreBackupPreserves, FinishLoadPreserves
     DEF Create
<1>5. CASE Restart
  BY <1>5, RestartPreserves
<1>6. CASE UNCHANGED vars
  BY <1>6 DEF vars, ids, SnapshotInv, Typed, Allocator!SlotsTyped, GenerationsCurrent, Apart, OnTheWay,
              Fresh, Alive
<1> QED BY <1>1, <1>2, <1>3, <1>4, <1>5, <1>6 DEF Next

\* The invariant holds in every world, whatever is saved and loaded, and
\* wherever the process ends.
THEOREM SnapshotInvariant == Spec => []SnapshotInv
<1>1. Init => SnapshotInv
  BY FreshWorldInv DEF Init
<1>2. SnapshotInv /\ [Next]_vars => SnapshotInv'
  BY StepPreserves
<1> QED BY <1>1, <1>2, PTL DEF Spec

\* The variables keep their types, and the world is being cleared exactly
\* while a load is in its clearing phase.
THEOREM SnapshotTypeOK == Spec => []TypeOK
<1>1. ASSUME SnapshotInv PROVE TypeOK
  <2> USE <1>1 DEF SnapshotInv
  <2>1. slotGen \in Seq(Ids!Generations) /\ freeSlots \in Seq(Ids!Slots)
    <3>1. DOMAIN slotGen \subseteq Allocator!Slots
      BY LenProperties, SnapshotAssumption
         DEF Typed, Allocator!SlotsTyped, Allocator!Slots, SnapshotAssumption
    <3> QED BY <3>1, SameAllocator, SeqMonotonic DEF Typed, Allocator!SlotsTyped
  <2>2. Alive \subseteq Ids!Entity /\ store \in [Alive -> Data]
    BY SameAllocator DEF Typed, Loadable, Alive
  <2>3. Cardinality(saves) <= 1
    <3>1. saves = {} \/ \E s : saves = {s}
      BY DEF Typed
    <3>2. CASE saves = {}
      BY <3>2, FS_EmptySet
    <3>3. ASSUME NEW s, saves = {s}
          PROVE  Cardinality(saves) <= 1
      <4>1. Cardinality({s}) = 1
        BY FS_Singleton, Zenon
      <4> QED BY <3>3, <4>1
    <3> QED BY <3>1, <3>2, <3>3
  <2>4. DOMAIN load.todo \subseteq Ids!Entity /\ load.bad \subseteq Ids!Entity
    BY SameAllocator DEF Typed, Loadable
  <2> QED BY <2>1, <2>2, <2>3, <2>4 DEF TypeOK, Typed
<1> QED BY <1>1, SnapshotInvariant, PTL

\* Into a world that had issued no ids a save is loaded, restored and cleared
\* away without a slot that has two owners or is handed out while in use.
THEOREM FreshLoadsKeepSlots == Spec => []FreshLoadKeepsSlots
<1>1. ASSUME SnapshotInv, ~reloaded PROVE Ids!OneEntityPerSlot /\ Ids!FreeSlotsUnowned
  <2> USE <1>1 DEF SnapshotInv
  <2>1. Ids!Pooled = {} /\ Ids!IsInjective(poolSlots)
    BY DEF Typed, Ids!Pooled, Ids!Range, Ids!IsInjective
  <2>2. \A e, f \in Alive : e.slot = f.slot => e = f
    BY DEF Typed, Loadable, DistinctSlots, Alive
  <2>3. Ids!IsInjective(freeSlots) /\ \A e \in Alive : ~Ids!IsFree(e.slot)
    BY DEF Fresh, Ids!IsInjective, IsInjective, Ids!IsFree, Ids!Range, Range
  <2> QED BY <2>1, <2>2, <2>3 DEF Ids!OneEntityPerSlot, Ids!FreeSlotsUnowned
<1>2. SnapshotInv => FreshLoadKeepsSlots
  BY <1>1 DEF FreshLoadKeepsSlots
<1> QED BY <1>2, SnapshotInvariant, PTL

\* A load ends with the save it was given, or with the entities of the world it
\* found and what a JSON string keeps of their data, and with nothing of the other.
THEOREM LoadsRestore == Spec => LoadRestores
<1>1. SnapshotInv /\ [Next]_vars => [FinishLoad => store = promised]_vars
  <2> SUFFICES ASSUME SnapshotInv, [Next]_vars, FinishLoad
               PROVE  store = promised \/ UNCHANGED vars
    OBVIOUS
  <2>1. CASE load.phase = "create"
    BY <2>1, FinishLoadPreserves
  <2>2. CASE load.phase = "idle"
    BY <2>2 DEF FinishLoad, SnapshotInv, Typed, OnTheWay, vars
  <2>3. CASE load.phase = "clear"
    <3>1. load'.phase = "idle" /\ clearing'
      BY <2>3 DEF FinishLoad, Idle, ids, SnapshotInv, Typed
    <3>2. load'.phase = "clear" <=> clearing'
      BY StepPreserves DEF SnapshotInv, Typed
    <3> QED BY <3>1, <3>2
  <2> QED BY <2>1, <2>2, <2>3 DEF SnapshotInv, Typed
<1> QED BY <1>1, SnapshotInvariant, PTL DEF Spec, LoadRestores

(***************************************************************************)
(* Induction over natural numbers, with a set for the predicate.           *)
(***************************************************************************)

\* A set with 0 that has the successor of each number it has has all of them.
LEMMA Induction ==
  ASSUME NEW P, 0 \in P, \A n \in Nat : n \in P => n + 1 \in P
  PROVE  \A n \in Nat : n \in P
<1> DEFINE T == Nat \ P
<1> SUFFICES ASSUME T # {} PROVE FALSE
  OBVIOUS
<1>1. PICK x \in T : \A y \in T : <<y, x>> \notin OpToRel(<, Nat)
  BY NatLessThanWellFounded, WFMin, Zenon
<1>2. x # 0 /\ x - 1 \in Nat /\ x = (x - 1) + 1
  OBVIOUS
<1>3. x - 1 \in T
  BY <1>2
<1>4. <<x - 1, x>> \in OpToRel(<, Nat)
  <2>1. x - 1 < x /\ x - 1 \in Nat
    BY <1>2
  <2> QED BY <2>1, Zenon DEF OpToRel
<1> QED BY <1>1, <1>3, <1>4, Zenon

\* What starts in a set and does not leave it stays there.
LEMMA Stays ==
  ASSUME NEW N \in Nat, NEW K, NEW f, f[0] \in K, \A i \in 1..N : f[i - 1] \in K => f[i] \in K
  PROVE  \A i \in 0..N : f[i] \in K
<1> DEFINE P == {i \in Nat : i <= N => f[i] \in K}
<1>1. 0 \in P
  OBVIOUS
<1>2. ASSUME NEW i \in Nat, i \in P
      PROVE  i + 1 \in P
  <2>1. SUFFICES ASSUME i + 1 <= N PROVE f[i + 1] \in K
    OBVIOUS
  <2>2. i + 1 \in 1..N /\ (i + 1) - 1 = i /\ f[i] \in K
    BY <1>2, <2>1
  <2> QED BY <2>2
<1> HIDE DEF P
<1>3. \A i \in Nat : i \in P
  BY <1>1, <1>2, Induction
<1> QED BY <1>3 DEF P

(***************************************************************************)
(* Multiples and alignment.                                                *)
(***************************************************************************)

\* Division with remainder.
LEMMA Division ==
  \A x \in Int, a \in Nat \ {0} :
    x = a * (x \div a) + (x % a) /\ x \div a \in Int /\ x % a \in 0..a - 1
OBVIOUS

\* A product is a multiple of its factor.
LEMMA MultipleOf == \A k \in Int, a \in Nat \ {0} : (a * k) % a = 0
OBVIOUS

\* align_up() returns the next multiple.
LEMMA AlignUpFacts ==
  ASSUME NEW v \in Nat, NEW a \in Nat \ {0}
  PROVE  /\ AlignUp(v, a) \in Nat
         /\ v <= AlignUp(v, a) /\ AlignUp(v, a) < v + a
         /\ AlignUp(v, a) % a = 0
<1> DEFINE x == v + a - 1
           q == x \div a
<1>1. x = a * q + (x % a) /\ q \in Int /\ x % a \in 0..a - 1
  <2>1. x \in Int
    OBVIOUS
  <2> HIDE DEF x
  <2> QED BY <2>1, Division
<1>2. AlignUp(v, a) = a * q
  BY <1>1 DEF AlignUp
<1>3. (a * q) % a = 0 /\ a * q \in Int
  BY <1>1, MultipleOf
<1> HIDE DEF q
<1> QED BY <1>1, <1>2, <1>3

\* A multiple of a multiple is one.
LEMMA MultipleOfMultiple ==
  ASSUME NEW a \in Nat \ {0}, NEW m \in Nat \ {0}, NEW x \in Int, m % a = 0, x % m = 0
  PROVE  x % a = 0
<1> DEFINE j == m \div a
           k == x \div m
<1>1. m = a * j /\ j \in Int
  BY Division
<1>2. x = m * k /\ k \in Int
  BY Division
<1> HIDE DEF j, k
<1>3. x = a * (j * k) /\ j * k \in Int
  BY <1>1, <1>2
<1> HIDE <1>1, <1>2
<1> QED BY <1>3, MultipleOf

\* So is the sum of two multiples.
LEMMA SumOfMultiples ==
  ASSUME NEW a \in Nat \ {0}, NEW x \in Int, NEW y \in Int, x % a = 0, y % a = 0
  PROVE  (x + y) % a = 0
<1> DEFINE j == x \div a
           k == y \div a
<1>1. x = a * j /\ j \in Int
  BY Division
<1>2. y = a * k /\ k \in Int
  BY Division
<1> HIDE DEF j, k
<1>3. x + y = a * (j + k) /\ j + k \in Int
  BY <1>1, <1>2
<1> QED BY <1>3, MultipleOf

(***************************************************************************)
(* Layouts.                                                                *)
(***************************************************************************)

\* Fields that were accepted: types that are known, counts that are positive.
Proper(fields) ==
  /\ Len(fields) \in Nat /\ DOMAIN fields = 1..Len(fields)
  /\ \A i \in DOMAIN fields : fields[i].type \in FieldType /\ fields[i].count \in Nat \ {0}

\* What LayoutSound says of a type.
Sound(s) ==
  /\ \A i \in DOMAIN s.fields, row \in {0, 1} :
       (row * s.size + s.fields[i].offset) % AlignOf[s.fields[i].type] = 0
  /\ \A i, j \in DOMAIN s.fields : i < j =>
       LET end == s.fields[i].offset + s.fields[i].bytes IN
       /\ end <= s.fields[j].offset
       /\ j = i + 1 => s.fields[j].offset - end < AlignOf[s.fields[j].type]
  /\ \A i \in DOMAIN s.fields : s.fields[i].offset + s.fields[i].bytes <= s.size

\* What register_component() takes is laid out with counts that are positive.
LEMMA CountedProper ==
  ASSUME NEW fields, Declared(fields), WellFormed(fields)
  PROVE  Proper(Counted(fields))
<1> DEFINE n == Len(fields)
<1>1. n \in Nat /\ DOMAIN fields = 1..n /\ \A i \in 1..n : fields[i] \in Range(fields)
  BY DEF Declared
<1>2. \A i \in 1..n : fields[i].type \in FieldType
  BY <1>1 DEF WellFormed
<1>3. \A i \in 1..n : /\ fields[i].count \in Int
                     /\ DOMAIN fields[i] = {"name", "type", "count", "networked"}
  BY <1>1 DEF Declared
<1> DEFINE c(i) == IF fields[i].count > 0 THEN fields[i] ELSE [fields[i] EXCEPT !.count = 1]
           q == [i \in 1..n |-> c(i)]
<1>4. \A i \in 1..n : c(i).type \in FieldType /\ c(i).count \in Nat \ {0}
  <2> TAKE i \in 1..n
  <2>1. CASE fields[i].count > 0
    BY <2>1, <1>2, <1>3
  <2>2. CASE ~(fields[i].count > 0)
    <3>1. c(i) = [fields[i] EXCEPT !.count = 1]
      BY <2>2
    <3>2. c(i).count = 1 /\ c(i).type = fields[i].type
      BY <3>1, <1>3
    <3> QED BY <3>2, <1>2
  <2> QED BY <2>1, <2>2
<1>5. Counted(fields) = q
  BY <1>1 DEF Counted
<1> HIDE DEF c
<1>6. q \in Seq({c(i) : i \in 1..n}) /\ DOMAIN q = 1..n
  BY <1>1
<1>7. Len(q) = n
  BY <1>1, <1>6
<1> QED BY <1>1, <1>4, <1>5, <1>6, <1>7 DEF Proper

\* A field of such a list takes a number of bytes at a place that it can have.
LEMMA FieldFacts ==
  ASSUME NEW fields, Proper(fields), NEW i \in 1..Len(fields)
  PROVE  /\ fields[i].type \in FieldType /\ AlignOf[fields[i].type] \in Nat \ {0}
         /\ ByteSize(fields[i]) \in Nat
         /\ \A v \in Nat : Offset(v, fields[i]) \in Nat
<1>1. fields[i].type \in FieldType /\ fields[i].count \in Nat \ {0}
  BY DEF Proper
<1>2. AlignOf[fields[i].type] \in Nat \ {0} /\ SizeOf[fields[i].type] \in Nat
  BY <1>1, RegistryAssumption
<1>3. SizeOf[fields[i].type] * fields[i].count \in Nat
  BY <1>1, <1>2
<1>4. \A v \in Nat : Offset(v, fields[i]) \in Nat
  BY <1>2, AlignUpFacts DEF Offset
<1> QED BY <1>1, <1>2, <1>3, <1>4 DEF ByteSize

\* Ends() is the function it is written as.
LEMMA EndsFacts ==
  ASSUME NEW fields, Proper(fields)
  PROVE  /\ Ends(fields) \in [0..Len(fields) -> Nat]
         /\ Ends(fields)[0] = 0
         /\ \A i \in 1..Len(fields) :
              Ends(fields)[i] = Offset(Ends(fields)[i - 1], fields[i]) + ByteSize(fields[i])
<1> DEFINE N == Len(fields)
           op(i, v) == Offset(v, fields[i]) + ByteSize(fields[i])
           E(n, g) == [i \in 0..n |-> IF i = 0 THEN 0 ELSE op(i, g[i - 1])]
           P == {n \in Nat : \E g : g = E(n, g)}
           f == CHOOSE g : g = E(N, g)
<1>1. f = Ends(fields) /\ N \in Nat
  BY DEF Ends, Proper
<1> HIDE DEF op
<1>2. 0 \in P
  <2> DEFINE g == [i \in 0..0 |-> 0]
  <2>1. g = E(0, g)
    OBVIOUS
  <2> QED BY <2>1
<1>3. ASSUME NEW n \in Nat, n \in P
      PROVE  n + 1 \in P
  <2>1. PICK g : g = E(n, g)
    BY <1>3
  <2> DEFINE h == E(n + 1, g)
  <2>2. \A i \in 0..n : h[i] = g[i]
    BY <2>1
  <2>3. \A i \in 0..n + 1 : i # 0 => i - 1 \in 0..n
    BY <1>3
  <2>4. ASSUME NEW i \in 0..n + 1, i # 0
        PROVE  op(i, h[i - 1]) = op(i, g[i - 1])
    <3>1. h[i - 1] = g[i - 1]
      BY <2>2, <2>3, <2>4
    <3> QED BY <3>1
  <2>5. h = E(n + 1, h)
    BY <2>4, Zenon
  <2> HIDE DEF h
  <2>6. \E k : k = E(n + 1, k)
    BY <2>5, Zenon
  <2> QED BY <2>6
<1>4. \E g : g = E(N, g)
  <2> HIDE DEF P
  <2>1. N \in P
    BY <1>1, <1>2, <1>3, Induction
  <2> QED BY <2>1 DEF P
<1>5. f = E(N, f)
  BY <1>4
<1> HIDE DEF f
<1>6. f[0] = 0 /\ \A i \in 1..N : f[i] = op(i, f[i - 1])
  BY <1>1, <1>5
<1>7. ASSUME NEW i \in 1..N, f[i - 1] \in Nat
      PROVE  f[i] \in Nat
  <2>1. Offset(f[i - 1], fields[i]) \in Nat /\ ByteSize(fields[i]) \in Nat
    BY <1>7, FieldFacts
  <2> QED BY <1>6, <2>1 DEF op
<1>8. \A i \in 0..N : f[i] \in Nat
  <2>1. f[0] \in Nat /\ \A i \in 1..N : f[i - 1] \in Nat => f[i] \in Nat
    BY <1>6, <1>7
  <2> HIDE DEF N
  <2> QED BY ONLY <1>1, <2>1, Stays
<1>9. f = [i \in 0..N |-> f[i]]
  BY <1>5
<1> QED BY <1>1, <1>6, <1>8, <1>9, Zenon DEF op

\* A field ends where it ends or later than those before it.
LEMMA EndsRise ==
  ASSUME NEW fields, Proper(fields), NEW i \in 0..Len(fields), NEW j \in 0..Len(fields), i <= j
  PROVE  Ends(fields)[i] <= Ends(fields)[j]
<1> DEFINE N == Len(fields)
           f == Ends(fields)
           P == {k \in Nat : i <= k /\ k <= N => f[i] <= f[k]}
<1>1. N \in Nat /\ f \in [0..N -> Nat]
  BY EndsFacts DEF Proper
<1>2. ASSUME NEW k \in 1..N
      PROVE  f[k - 1] <= f[k]
  <2>1. f[k - 1] \in Nat /\ f[k] = Offset(f[k - 1], fields[k]) + ByteSize(fields[k])
    <3>1. k - 1 \in 0..N
      BY <1>1
    <3>2. \A m \in 1..N : f[m] = Offset(f[m - 1], fields[m]) + ByteSize(fields[m])
      BY EndsFacts
    <3> HIDE DEF f, N
    <3> QED BY <1>1, <3>1, <3>2
  <2>2. AlignOf[fields[k].type] \in Nat \ {0} /\ ByteSize(fields[k]) \in Nat
    BY FieldFacts
  <2>3. f[k - 1] <= Offset(f[k - 1], fields[k]) /\ Offset(f[k - 1], fields[k]) \in Nat
    BY <2>1, <2>2, AlignUpFacts DEF Offset
  <2> QED BY <2>1, <2>2, <2>3
<1> HIDE DEF f
<1>3. 0 \in P
  BY <1>1
<1>4. ASSUME NEW k \in Nat, k \in P
      PROVE  k + 1 \in P
  <2>1. SUFFICES ASSUME i <= k + 1, k + 1 <= N PROVE f[i] <= f[k + 1]
    OBVIOUS
  <2>2. CASE i = k + 1
    BY <2>2, <1>1
  <2>3. CASE i <= k
    <3>1. k + 1 \in 1..N /\ (k + 1) - 1 = k
      BY <1>1, <2>1
    <3>2. f[k] <= f[k + 1]
      BY <1>2, <3>1
    <3>3. k <= N /\ f[i] <= f[k]
      BY <1>1, <1>4, <2>1, <2>3
    <3>4. f[k] \in Nat /\ f[i] \in Nat /\ f[k + 1] \in Nat
      BY <1>1, <3>1, <3>3
    <3> QED BY <3>2, <3>3, <3>4
  <2> QED BY <2>1, <2>2, <2>3
<1> HIDE DEF P
<1>5. j \in P
  <2>1. \A k \in Nat : k \in P
    BY <1>3, <1>4, Induction
  <2> QED BY <1>1, <2>1
<1> QED BY <1>1, <1>5 DEF P, f

\* The alignment of a component is a multiple of that of each of its fields.
LEMMA MaxAlignFacts ==
  ASSUME NEW fields, Proper(fields)
  PROVE  /\ MaxAlign(fields) \in Nat \ {0}
         /\ \A i \in 1..Len(fields) : MaxAlign(fields) % AlignOf[fields[i].type] = 0
<1> DEFINE N == Len(fields)
           a(i) == AlignOf[fields[i].type]
           S(n) == {1} \cup {a(i) : i \in 1..n}
           P == {n \in Nat : n <= N => \E m \in S(n) : \A x \in S(n) : m >= x}
<1>1. N \in Nat /\ DOMAIN fields = 1..N
  BY DEF Proper
<1>2. \A i \in 1..N : fields[i].type \in FieldType /\ a(i) \in Nat \ {0}
  BY FieldFacts
<1> HIDE DEF N, a
<1>3. 0 \in P
  OBVIOUS
<1>4. ASSUME NEW n \in Nat, n \in P
      PROVE  n + 1 \in P
  <2> SUFFICES ASSUME n + 1 <= N PROVE \E m \in S(n + 1) : \A x \in S(n + 1) : m >= x
    OBVIOUS
  <2>1. PICK m \in S(n) : \A x \in S(n) : m >= x
    BY <1>4, <1>1
  <2>2. S(n + 1) = S(n) \cup {a(n + 1)}
    OBVIOUS
  <2>3. a(n + 1) \in Nat \ {0} /\ \A x \in S(n) : x \in Nat
    BY <1>1, <1>2
  <2> HIDE DEF S
  <2>4. CASE m >= a(n + 1)
    BY <2>1, <2>2, <2>4
  <2>5. CASE ~(m >= a(n + 1))
    <3>1. \A x \in S(n + 1) : a(n + 1) >= x
      BY <2>1, <2>2, <2>3, <2>5
    <3> QED BY <3>1, <2>2
  <2> QED BY <2>4, <2>5
<1> HIDE DEF P
<1>5. N \in P
  BY <1>1, <1>3, <1>4, Induction
<1>6. \E m \in S(N) : \A x \in S(N) : m >= x
  BY <1>1, <1>5 DEF P
<1>7. MaxAlign(fields) = CHOOSE m \in S(N) : \A x \in S(N) : m >= x
  <2>1. S(N) = {1} \cup {AlignOf[fields[i].type] : i \in DOMAIN fields}
    BY <1>1 DEF a
  <2> HIDE DEF S
  <2> QED BY <2>1 DEF MaxAlign, Max
<1>8. MaxAlign(fields) \in S(N) /\ \A x \in S(N) : MaxAlign(fields) >= x
  <2> HIDE DEF S
  <2> QED BY <1>6, <1>7
<1>9. MaxAlign(fields) \in Nat \ {0}
  BY <1>2, <1>8
<1>10. ASSUME NEW i \in 1..N
       PROVE  MaxAlign(fields) % a(i) = 0
  <2>1. a(i) \in Nat \ {0} /\ a(i) <= MaxAlign(fields)
    BY <1>2, <1>8, <1>9
  <2>2. CASE MaxAlign(fields) = 1
    <3>1. a(i) = 1
      BY <2>1, <2>2
    <3> QED BY <2>2, <3>1
  <2>3. ASSUME NEW j \in 1..N, MaxAlign(fields) = a(j)
        PROVE  MaxAlign(fields) % a(i) = 0
    <3>1. fields[i].type \in FieldType /\ fields[j].type \in FieldType
          /\ AlignOf[fields[i].type] <= AlignOf[fields[j].type]
      BY <1>2, <2>1, <2>3 DEF a
    <3>2. AlignOf[fields[j].type] % AlignOf[fields[i].type] = 0
      BY <3>1, RegistryAssumption
    <3> QED BY <2>3, <3>2 DEF a
  <2> QED BY <1>8, <2>2, <2>3
<1> QED BY <1>9, <1>10 DEF N, a

\* register_schema_component() lays the fields out soundly.
LEMMA LayoutIsSound ==
  ASSUME NEW fields, Proper(fields), NEW name
  PROVE  Sound(Layout(name, fields)) /\ Layout(name, fields).name = name
<1> DEFINE N == Len(fields)
           f == Ends(fields)
           a(i) == AlignOf[fields[i].type]
           at(i) == Offset(f[i - 1], fields[i])
           m == MaxAlign(fields)
           s == Layout(name, fields)
<1>1. N \in Nat /\ DOMAIN fields = 1..N /\ f \in [0..N -> Nat]
  BY EndsFacts DEF Proper
<1>2. m \in Nat \ {0} /\ \A i \in 1..N : m % a(i) = 0
  BY MaxAlignFacts
<1>3. s.size = AlignUp(f[N], m) /\ s.name = name
  BY DEF Layout
<1>4. /\ DOMAIN s.fields = 1..N
      /\ \A i \in 1..N : /\ s.fields[i].offset = at(i) /\ s.fields[i].bytes = ByteSize(fields[i])
                         /\ s.fields[i].type = fields[i].type
  BY <1>1 DEF Layout, Placed
<1> HIDE DEF s, m
<1>5. ASSUME NEW i \in 1..N
      PROVE  /\ i - 1 \in 0..N /\ a(i) \in Nat \ {0} /\ ByteSize(fields[i]) \in Nat
             /\ f[i] = at(i) + ByteSize(fields[i])
             /\ at(i) \in Nat /\ f[i - 1] <= at(i) /\ at(i) < f[i - 1] + a(i)
             /\ at(i) % a(i) = 0
  <2>1. a(i) \in Nat \ {0} /\ ByteSize(fields[i]) \in Nat
    BY FieldFacts
  <2>2. i - 1 \in 0..N
    BY <1>1
  <2>3. \A k \in 1..N : f[k] = Offset(f[k - 1], fields[k]) + ByteSize(fields[k])
    BY EndsFacts
  <2> HIDE DEF f, N
  <2>4. f[i - 1] \in Nat /\ f[i] = at(i) + ByteSize(fields[i])
    BY <1>1, <2>2, <2>3
  <2>5. at(i) = AlignUp(f[i - 1], a(i))
    BY DEF Offset
  <2> HIDE DEF at, a
  <2>6. /\ at(i) \in Nat /\ f[i - 1] <= at(i) /\ at(i) < f[i - 1] + a(i)
        /\ at(i) % a(i) = 0
    BY <2>1, <2>4, <2>5, AlignUpFacts
  <2> QED BY <2>1, <2>2, <2>4, <2>6
<1>6. s.size \in Nat /\ f[N] <= s.size /\ s.size % m = 0
  <2>1. f[N] \in Nat
    BY <1>1
  <2> HIDE DEF f, N
  <2> QED BY <2>1, <1>2, <1>3, AlignUpFacts
<1>7. \A i, j \in 0..N : i <= j => f[i] <= f[j]
  BY EndsRise
<1> HIDE DEF f, a, at, N
<1>8. ASSUME NEW i \in 1..N, NEW row \in {0, 1}
      PROVE  (row * s.size + at(i)) % a(i) = 0
  <2>1. s.size % a(i) = 0
    BY <1>2, <1>5, <1>6, MultipleOfMultiple
  <2>2. CASE row = 0
    <3>1. row * s.size + at(i) = at(i)
      BY <2>2, <1>5, <1>6
    <3> QED BY <1>5, <3>1
  <2>3. CASE row = 1
    <3>1. row * s.size + at(i) = s.size + at(i)
      BY <2>3, <1>5, <1>6
    <3>2. a(i) \in Nat \ {0} /\ s.size \in Int /\ at(i) \in Int /\ at(i) % a(i) = 0
      BY <1>5, <1>6
    <3>3. (s.size + at(i)) % a(i) = 0
      BY ONLY <2>1, <3>2, SumOfMultiples
    <3> QED BY <3>1, <3>3
  <2> QED BY <2>2, <2>3
<1>9. ASSUME NEW i \in 1..N, NEW j \in 1..N, i < j
      PROVE  /\ at(i) + ByteSize(fields[i]) <= at(j)
             /\ j = i + 1 => at(j) - (at(i) + ByteSize(fields[i])) < a(j)
  <2>1. i \in 0..N /\ j - 1 \in 0..N /\ i <= j - 1
    BY <1>1, <1>9
  <2>2. f[i] <= f[j - 1] /\ f[i] \in Nat /\ f[j - 1] \in Nat
    BY <1>1, <1>7, <2>1
  <2>3. j = i + 1 => j - 1 = i
    OBVIOUS
  <2> QED BY <1>5, <2>2, <2>3
<1>10. ASSUME NEW i \in 1..N
       PROVE  at(i) + ByteSize(fields[i]) <= s.size
  <2>1. f[i] <= f[N] /\ f[i] \in Nat /\ f[N] \in Nat
    BY <1>1, <1>7
  <2> QED BY <1>5, <1>6, <2>1
<1>11. Sound(s)
  <2>1. \A i \in 1..N : AlignOf[s.fields[i].type] = a(i)
    BY <1>4 DEF a
  <2> QED BY <1>4, <1>8, <1>9, <1>10, <2>1 DEF Sound
<1> QED BY <1>3, <1>11 DEF s

(***************************************************************************)
(* Registering.                                                            *)
(***************************************************************************)

\* Every name leads to a type of that name, with a sound layout.
RegistryOK(reg) ==
  /\ reg = [schemas |-> reg.schemas, ids |-> reg.ids]
  /\ reg.schemas \in Seq(Range(reg.schemas))
  /\ DOMAIN reg.ids \subseteq CompName
  /\ reg.ids \in [DOMAIN reg.ids -> DOMAIN reg.schemas]
  /\ \A n \in DOMAIN reg.ids :
       reg.schemas[reg.ids[n]].name = n /\ Sound(reg.schemas[reg.ids[n]])

\* Types are added; a name keeps the type it has.
Grown(reg, new) ==
  \A n \in DOMAIN reg.ids :
    n \in DOMAIN new.ids /\ new.schemas[new.ids[n]] = reg.schemas[reg.ids[n]]

\* A type that is registered leaves the others as they are.
LEMMA WithTypeFacts ==
  ASSUME NEW reg, RegistryOK(reg), NEW name \in CompName, NEW fields,
         Declared(fields), WellFormed(fields)
  PROVE  RegistryOK(WithType(reg, name, fields)) /\ Grown(reg, WithType(reg, name, fields))
<1>1. CASE name \in DOMAIN reg.ids
  BY <1>1 DEF WithType, Grown
<1>2. CASE name \notin DOMAIN reg.ids
  <2> DEFINE s == Layout(name, Counted(fields))
             q == reg.schemas
             p == Append(q, s)
             f == reg.ids
             g == [n \in DOMAIN f \cup {name} |-> IF n = name THEN Len(q) + 1 ELSE f[n]]
  <2>1. WithType(reg, name, fields) = [schemas |-> p, ids |-> g]
    BY <1>2 DEF WithType
  <2>2. Sound(s) /\ s.name = name
    BY CountedProper, LayoutIsSound
  <2> HIDE DEF s
  <2>3. /\ q \in Seq(Range(q)) /\ DOMAIN f \subseteq CompName /\ f \in [DOMAIN f -> DOMAIN q]
        /\ \A n \in DOMAIN f : q[f[n]].name = n /\ Sound(q[f[n]])
    BY DEF RegistryOK
  <2> HIDE DEF q, f
  <2>4. /\ DOMAIN p = DOMAIN q \cup {Len(q) + 1} /\ Len(q) + 1 \notin DOMAIN q
        /\ p[Len(q) + 1] = s /\ \A i \in DOMAIN q : p[i] = q[i]
    BY <2>3
  <2>5. p \in Seq(Range(p))
    <3>1. q \in Seq(Range(q) \cup {s})
      BY <2>3
    <3>2. p \in Seq(Range(q) \cup {s})
      BY <3>1
    <3> HIDE DEF p
    <3>3. DOMAIN p = 1..Len(p) /\ Len(p) \in Nat
      BY <3>2
    <3>4. p = [i \in 1..Len(p) |-> p[i]]
      BY <3>2
    <3>5. \A i \in 1..Len(p) : p[i] \in Range(p)
      BY <3>3 DEF Range
    <3> QED BY <3>3, <3>4, <3>5
  <2> HIDE DEF p
  <2>6. /\ DOMAIN g \subseteq CompName /\ g \in [DOMAIN g -> DOMAIN p]
        /\ \A n \in DOMAIN f : n \in DOMAIN g /\ p[g[n]] = q[f[n]]
        /\ p[g[name]] = s /\ DOMAIN g = DOMAIN f \cup {name}
    BY <1>2, <2>3, <2>4 DEF f
  <2> HIDE DEF g
  <2>7. \A n \in DOMAIN g : p[g[n]].name = n /\ Sound(p[g[n]])
    BY <2>2, <2>3, <2>6
  <2>8. RegistryOK([schemas |-> p, ids |-> g])
    BY <2>5, <2>6, <2>7 DEF RegistryOK
  <2> QED BY <2>1, <2>6, <2>8 DEF Grown, q, f
<1> QED BY <1>1, <1>2

\* What grows and grows again has grown.
LEMMA GrownFacts ==
  /\ \A reg : Grown(reg, reg)
  /\ \A reg, new, later : Grown(reg, new) /\ Grown(new, later) => Grown(reg, later)
BY DEF Grown

\* So does a row of a table.
LEMMA RowRegisteredFacts ==
  ASSUME NEW reg, RegistryOK(reg), NEW file \in CsvFiles, NEW i \in DOMAIN file.rows
  PROVE  LET new == RowRegistered(reg, file.rows[i]) IN RegistryOK(new) /\ Grown(reg, new)
<1> DEFINE row == file.rows[i]
<1>1. row \in Range(file.rows)
  BY DEF Range
<1>2. /\ {row.name, row.id} \subseteq CompName \cup {NoName}
      /\ row.schema = NoArray \/ Declared(row.schema)
  BY <1>1, RegistryAssumption
<1> HIDE DEF row
<1>3. CASE NameOf(row) = NoName \/ row.schema = NoArray \/ ~WellFormed(row.schema)
  BY <1>3, GrownFacts DEF RowRegistered, row
<1>4. CASE ~(NameOf(row) = NoName \/ row.schema = NoArray) /\ WellFormed(row.schema)
  <2>1. RowRegistered(reg, row) = WithType(reg, NameOf(row), row.schema)
    BY <1>4 DEF RowRegistered
  <2>2. NameOf(row) \in CompName /\ Declared(row.schema)
    BY <1>2, <1>4 DEF NameOf
  <2> QED BY <1>4, <2>1, <2>2, WithTypeFacts DEF row
<1> QED BY <1>3, <1>4

\* The rows of a table are registered one after the other.
LEMMA RegisterFromCsvFacts ==
  ASSUME RegistryOK(Current), NEW file \in CsvFiles, RegisterFromCsv(file)
  PROVE  RegistryOK(Current)' /\ \E new : RegistryOK(new) /\ Grown(Current, new) /\ Set(new)
<1> DEFINE rows == file.rows
           N == Len(rows)
           op(i, reg) == RowRegistered(reg, rows[i])
           E(n, g) == [i \in 0..n |-> IF i = 0 THEN Current ELSE op(i, g[i - 1])]
           P == {n \in Nat : \E g : g = E(n, g)}
           f == CHOOSE g : g = E(N, g)
<1>1. N \in Nat /\ DOMAIN rows = 1..N /\ Set(IF file.columns THEN f[N] ELSE Current)
  BY RegistryAssumption DEF RegisterFromCsv
<1> HIDE DEF op, rows
<1>2. 0 \in P
  <2> DEFINE g == [i \in 0..0 |-> Current]
  <2>1. g = E(0, g)
    OBVIOUS
  <2> QED BY <2>1
<1>3. ASSUME NEW n \in Nat, n \in P
      PROVE  n + 1 \in P
  <2>1. PICK g : g = E(n, g)
    BY <1>3
  <2> DEFINE h == E(n + 1, g)
  <2>2. \A i \in 0..n : h[i] = g[i]
    BY <2>1
  <2>3. \A i \in 0..n + 1 : i # 0 => i - 1 \in 0..n
    BY <1>3
  <2>4. ASSUME NEW i \in 0..n + 1, i # 0
        PROVE  op(i, h[i - 1]) = op(i, g[i - 1])
    <3>1. h[i - 1] = g[i - 1]
      BY <2>2, <2>3, <2>4
    <3> QED BY <3>1
  <2>5. h = E(n + 1, h)
    BY <2>4, Zenon
  <2> HIDE DEF h
  <2>6. \E k : k = E(n + 1, k)
    BY <2>5, Zenon
  <2> QED BY <2>6
<1>4. \E g : g = E(N, g)
  <2> HIDE DEF P
  <2>1. N \in P
    BY <1>1, <1>2, <1>3, Induction
  <2> QED BY <2>1 DEF P
<1>5. f = E(N, f)
  BY <1>4
<1> HIDE DEF f
<1>6. f[0] = Current /\ \A i \in 1..N : f[i] = op(i, f[i - 1])
  BY <1>1, <1>5
<1> DEFINE Q == {i \in Nat : i <= N => RegistryOK(f[i]) /\ Grown(Current, f[i])}
<1>7. 0 \in Q
  BY <1>6, GrownFacts
<1>8. ASSUME NEW i \in Nat, i \in Q
      PROVE  i + 1 \in Q
  <2> SUFFICES ASSUME i + 1 <= N PROVE RegistryOK(f[i + 1]) /\ Grown(Current, f[i + 1])
    OBVIOUS
  <2>1. i + 1 \in 1..N /\ (i + 1) - 1 = i /\ i <= N
    BY <1>1
  <2>2. f[i + 1] = RowRegistered(f[i], file.rows[i + 1]) /\ i + 1 \in DOMAIN file.rows
    BY <1>1, <1>6, <2>1 DEF op, rows
  <2>3. RegistryOK(f[i]) /\ Grown(Current, f[i])
    BY <1>8, <2>1
  <2>4. RegistryOK(f[i + 1]) /\ Grown(f[i], f[i + 1])
    BY <2>2, <2>3, RowRegisteredFacts
  <2> QED BY <2>3, <2>4, GrownFacts
<1> HIDE DEF Q
<1>9. RegistryOK(f[N]) /\ Grown(Current, f[N])
  <2>1. N \in Q
    BY <1>1, <1>7, <1>8, Induction
  <2> QED BY <1>1, <2>1 DEF Q
<1> DEFINE new == IF file.columns THEN f[N] ELSE Current
<1>10. RegistryOK(new) /\ Grown(Current, new) /\ Set(new)
  BY <1>1, <1>9, GrownFacts
<1> HIDE DEF new
<1>11. Current' = new
  BY <1>10 DEF Current, Set, RegistryOK
<1>12. RegistryOK(Current)' = RegistryOK(Current')
  OBVIOUS
<1> QED BY <1>10, <1>11, <1>12

\* A step of the registry keeps it sound, and the types there are.
LEMMA RegistryStep ==
  ASSUME RegistryOK(Current), RegistryNext
  PROVE  /\ RegistryOK(Current)'
         /\ \A n \in DOMAIN idByName : n \in DOMAIN idByName' /\ SchemaOf(n)' = SchemaOf(n)
<1>1. RegistryOK(Current)' /\ \E new : RegistryOK(new) /\ Grown(Current, new) /\ Set(new)
  <2>1. ASSUME NEW d \in Declarations, RegisterComponent(d.name, d.fields)
        PROVE  RegistryOK(Current)' /\ \E new : RegistryOK(new) /\ Grown(Current, new) /\ Set(new)
    <3> DEFINE new == IF WellFormed(d.fields) THEN WithType(Current, d.name, d.fields) ELSE Current
    <3>1. d.name \in CompName /\ Declared(d.fields)
      BY RegistryAssumption
    <3>2. WellFormed(d.fields) => LET r == WithType(Current, d.name, d.fields) IN
                                    RegistryOK(r) /\ Grown(Current, r)
      BY <3>1, WithTypeFacts
    <3>3. RegistryOK(new) /\ Grown(Current, new)
      BY <3>2, GrownFacts
    <3>4. Set(new)
      BY <2>1 DEF RegisterComponent
    <3> HIDE DEF new
    <3>5. Current' = new
      BY <3>3, <3>4 DEF Current, Set, RegistryOK
    <3>6. RegistryOK(Current)' = RegistryOK(Current')
      OBVIOUS
    <3> QED BY <3>3, <3>4, <3>5, <3>6
  <2> QED BY <2>1, RegisterFromCsvFacts DEF RegistryNext
<1>2. PICK new : RegistryOK(new) /\ Grown(Current, new) /\ Set(new)
  BY <1>1
<1>3. /\ schemas' = new.schemas /\ idByName' = new.ids
      /\ Current.schemas = schemas /\ Current.ids = idByName
  BY <1>2 DEF Set, Current
<1>4. \A n \in DOMAIN idByName :
        n \in DOMAIN idByName' /\ schemas'[idByName'[n]] = schemas[idByName[n]]
  BY <1>2, <1>3 DEF Grown
<1> QED BY <1>1, <1>4 DEF SchemaOf

(***************************************************************************)
(* What components hold.                                                   *)
(***************************************************************************)

\* The value of every component is one that its field can have.
Fits(comps) ==
  \A n \in DOMAIN comps : Registered(n) /\ comps[n] \in Nat /\ comps[n] = Stored(n, comps[n])

\* What the entities of a world have fits.
StoreOK(kept) == DOMAIN kept \subseteq EntityId /\ \A e \in DOMAIN kept : Fits(kept[e])

\* Values of the width of a field stay what they are.
LEMMA StoredFacts ==
  ASSUME NEW n, NEW v \in Int
  PROVE  /\ Stored(n, v) \in Nat /\ Stored(n, Stored(n, v)) = Stored(n, v)
         /\ HasNumber(n) /\ v \in 0..Width[NumberField(n).type] - 1 => Stored(n, v) = v
<1> DEFINE m == Width[NumberField(n).type]
<1>1. CASE ~HasNumber(n)
  BY <1>1 DEF Stored
<1>2. CASE HasNumber(n)
  <2>1. m \in Nat \ {0}
    <3>1. \E i \in NumberFields(n) : TRUE
      BY <1>2 DEF HasNumber
    <3>2. (CHOOSE i \in NumberFields(n) : TRUE) \in NumberFields(n)
      BY <3>1
    <3>3. NumberField(n).type \in Number
      BY <3>2 DEF NumberField, NumberFields
    <3> QED BY <3>3, SpawnDataAssumption
  <2>2. \A x : Stored(n, x) = x % m
    BY <1>2 DEF Stored
  <2> HIDE DEF m
  <2>3. v % m \in 0..m - 1
    BY <2>1
  <2>4. \A x \in 0..m - 1 : x % m = x
    BY <2>1
  <2> QED BY <2>1, <2>2, <2>3, <2>4 DEF m
<1> QED BY <1>1, <1>2

\* The components made of a bundle fit their types.
LEMMA ComponentsFit ==
  ASSUME NEW bundle, IsBundle(bundle), AllRegistered(bundle)
  PROVE  Fits(Components(bundle))
<1> SUFFICES ASSUME NEW n \in DOMAIN bundle
             PROVE  Registered(n) /\ Stored(n, bundle[n]) \in Nat
                    /\ Stored(n, bundle[n]) = Stored(n, Stored(n, bundle[n]))
  BY DEF Components, Fits
<1>1. bundle[n] \in Int
  BY DEF IsBundle
<1> QED BY <1>1, StoredFacts DEF AllRegistered

\* remap_reference() stores what the field can have.
LEMMA RemappedFits ==
  ASSUME NEW n, NEW v \in Nat, v = Stored(n, v), NEW field, NEW map,
         \A k \in DOMAIN map : map[k] \in EntityId
  PROVE  LET x == Remapped(n, v, field, map) IN x \in Nat /\ x = Stored(n, x)
<1>1. CASE HasNumber(n) /\ NumberField(n).name = field /\ v \in DOMAIN map
  <2>1. map[v] \in Int
    <3>1. map[v] \in Nat
      BY <1>1, SpawnDataAssumption, Zenon
    <3> QED BY <3>1
  <2>2. Remapped(n, v, field, map) = Stored(n, map[v])
    BY <1>1 DEF Remapped
  <2> QED BY <2>1, <2>2, StoredFacts
<1>2. CASE ~(HasNumber(n) /\ NumberField(n).name = field /\ v \in DOMAIN map)
  BY <1>2 DEF Remapped
<1> QED BY <1>1, <1>2

\* So does the attachment of a child.
LEMMA AttachedFits ==
  ASSUME NEW comps, Fits(comps), NEW map, \A k \in DOMAIN map : map[k] \in EntityId
  PROVE  Fits(Attached(comps, map)) /\ DOMAIN Attached(comps, map) = DOMAIN comps
<1>1. DOMAIN Attached(comps, map) = DOMAIN comps
  BY DEF Attached
<1>2. ASSUME NEW n \in DOMAIN comps
      PROVE  LET x == Attached(comps, map)[n] IN Registered(n) /\ x \in Nat /\ x = Stored(n, x)
  <2>1. Registered(n) /\ comps[n] \in Nat /\ comps[n] = Stored(n, comps[n])
    BY DEF Fits
  <2>2. Attached(comps, map)[n] \in {comps[n], Remapped(n, comps[n], "parent", map)}
    BY DEF Attached
  <2> QED BY <2>1, <2>2, RemappedFits
<1> QED BY <1>1, <1>2 DEF Fits

\* Types that are added do not change what components hold.
LEMMA FitsLater ==
  ASSUME \A n \in DOMAIN idByName : n \in DOMAIN idByName' /\ SchemaOf(n)' = SchemaOf(n),
         NEW n, NEW v, Registered(n)
  PROVE  Registered(n)' /\ Stored(n, v)' = Stored(n, v)
<1>1. n \in DOMAIN idByName /\ n \in DOMAIN idByName' /\ SchemaOf(n)' = SchemaOf(n)
  BY DEF Registered
<1>2. NumberFields(n)' = NumberFields(n)
  BY <1>1 DEF NumberFields
<1>3. HasNumber(n)' = HasNumber(n) /\ NumberField(n)' = NumberField(n)
  BY <1>1, <1>2 DEF HasNumber, NumberField
<1> QED BY <1>1, <1>3 DEF Registered, Stored

\* The components of every entity are of types that are registered, and fit.
WorldsOK ==
  /\ worlds = [w \in World |-> worlds[w]] /\ \A w \in World : StoreOK(worlds[w])
  /\ pending \in [World -> SUBSET EntityId]

\* The numbers that a batch or a merge left are there until it is remapped.
GivenKept ==
  \A p \in DOMAIN result.given : LET kept == worlds[result.world] IN
    /\ p[1] \in DOMAIN kept /\ p[2] \in DOMAIN kept[p[1]] /\ HasNumber(p[2])
    /\ result.given[p] = kept[p[1]][p[2]]

\* A batch or a merge names a world and the ids it gave; what it left there stays
\* until its references are remapped.
ResultOK ==
  result.op \in {"spawn", "merge"} =>
    /\ {"op", "world", "mapping", "remapped", "given"} \subseteq DOMAIN result
    /\ result.world \in World
    /\ \A k \in DOMAIN result.mapping : result.mapping[k] \in EntityId
    /\ ~result.remapped => GivenKept

\* The inductive invariant.  References follow when they are remapped because
\* what they led to is still there: the step that made the entities is the last.
BulkInv ==
  RegistryOK(Current) /\ WorldsOK /\ ResultOK /\ ParentsAttached /\ ReferencesFollow

\* A step that registers nothing and leaves components that fit keeps the worlds.
LEMMA WorldsKept ==
  ASSUME UNCHANGED registry, worlds' = [w \in World |-> worlds'[w]],
         \A w \in World : StoreOK(worlds'[w]), pending' \in [World -> SUBSET EntityId]
  PROVE  WorldsOK'
<1>1. schemas' = schemas /\ idByName' = idByName
  BY DEF registry
<1>2. ASSUME NEW w \in World
      PROVE  StoreOK(worlds[w])'
  <2> DEFINE kept == worlds'[w]
  <2>1. DOMAIN kept \subseteq EntityId /\ \A e \in DOMAIN kept : Fits(kept[e])
    BY DEF StoreOK
  <2>2. ASSUME NEW e \in DOMAIN kept, NEW n \in DOMAIN kept[e]
        PROVE  /\ n \in DOMAIN idByName' /\ kept[e][n] \in Nat
               /\ kept[e][n] = Stored(n, worlds[w][e][n])'
    <3>1. Registered(n) /\ kept[e][n] \in Nat /\ kept[e][n] = Stored(n, kept[e][n])
      BY <2>1 DEF Fits
    <3>2. Stored(n, worlds[w][e][n])' = Stored(n, kept[e][n])
      BY <1>1 DEF Stored, HasNumber, NumberField, NumberFields, SchemaOf
    <3> QED BY <1>1, <3>1, <3>2 DEF Registered
  <2> QED BY <2>1, <2>2 DEF StoreOK, Fits, Registered
<1> QED BY <1>2 DEF WorldsOK

\* Calls that return nothing that is remapped.
LEMMA ResultGone ==
  ASSUME result'.op \notin {"spawn", "merge"}
  PROVE  ResultOK' /\ ParentsAttached' /\ ReferencesFollow'
BY DEF ResultOK, ParentsAttached, ReferencesFollow

\* Registering changes no world: what is stored is stored as its type says.
LEMMA RegisterStep ==
  ASSUME BulkInv, RegistryNext, result' = [op |-> "none"], UNCHANGED <<worlds, pending>>
  PROVE  BulkInv'
<1>1. RegistryOK(Current)'
  BY RegistryStep DEF BulkInv
<1>2. \A n \in DOMAIN idByName : n \in DOMAIN idByName' /\ SchemaOf(n)' = SchemaOf(n)
  BY RegistryStep DEF BulkInv
<1>3. WorldsOK'
  <2>1. ASSUME NEW w \in World
        PROVE  StoreOK(worlds[w])'
    <3> DEFINE kept == worlds[w]
    <3>1. DOMAIN kept \subseteq EntityId /\ \A e \in DOMAIN kept : Fits(kept[e])
      BY DEF BulkInv, WorldsOK, StoreOK
    <3>2. ASSUME NEW e \in DOMAIN kept, NEW n \in DOMAIN kept[e]
          PROVE  Registered(n)' /\ kept[e][n] \in Nat /\ kept[e][n] = Stored(n, worlds[w][e][n])'
      <4>1. Registered(n) /\ kept[e][n] \in Nat /\ kept[e][n] = Stored(n, kept[e][n])
        BY <3>1 DEF Fits
      <4>2. \A v : Registered(n)' /\ Stored(n, v)' = Stored(n, v)
        BY <1>2, <4>1, FitsLater
      <4>3. Stored(n, worlds[w][e][n])' = Stored(n, kept[e][n])
        BY <4>2 DEF Stored
      <4> QED BY <4>1, <4>2, <4>3
    <3> QED BY <3>1, <3>2 DEF StoreOK, Fits
  <2> QED BY <2>1 DEF BulkInv, WorldsOK
<1>4. result'.op \notin {"spawn", "merge"}
  OBVIOUS
<1> QED BY <1>1, <1>3, <1>4, ResultGone DEF BulkInv

\* A creation that fails leaves the worlds as they are.
LEMMA CreateStep ==
  ASSUME BulkInv, NEW w \in World, NEW bundle \in Bundles, NEW defId \in EntityId \cup {0},
         CreateWithComponents(w, defId, bundle)
  PROVE  BulkInv' /\ (result'.op = "create" /\ result'.entity = 0 => worlds' = worlds)
<1>1. PICK id \in (IF defId > 0 THEN {defId} ELSE EntityId \ AliveIn(w)) :
        LET ok == id \notin AliveIn(w) /\ AllRegistered(bundle) IN
        /\ worlds' = IF ok THEN [worlds EXCEPT ![w] = Put(@, id, Components(bundle))]
                     ELSE worlds
        /\ result' = [op |-> "create", world |-> w, entity |-> IF ok THEN id ELSE 0]
        /\ UNCHANGED <<registry, pending>>
  BY Zenon DEF CreateWithComponents
<1> DEFINE ok == id \notin AliveIn(w) /\ AllRegistered(bundle)
<1>2. id \in EntityId /\ id # 0
  BY SpawnDataAssumption
<1>3. result'.op = "create" /\ (result'.entity = 0 => ~ok)
  BY <1>1, <1>2
<1>4. WorldsOK
  BY DEF BulkInv
<1>5. CASE ok
  <2> DEFINE new == Put(worlds[w], id, Components(bundle))
  <2>1. worlds' = [worlds EXCEPT ![w] = new]
    BY <1>1, <1>5
  <2>2. Fits(Components(bundle))
    BY <1>5, ComponentsFit, SpawnDataAssumption
  <2>3. StoreOK(new)
    BY <1>2, <1>4, <2>2 DEF WorldsOK, StoreOK, Put
  <2> HIDE DEF new
  <2>4. worlds' = [x \in World |-> worlds'[x]] /\ \A x \in World : StoreOK(worlds'[x])
    BY <1>4, <2>1, <2>3 DEF WorldsOK
  <2>5. WorldsOK'
    BY <1>1, <1>4, <2>4, WorldsKept DEF WorldsOK
  <2> QED BY <1>1, <1>3, <2>5, ResultGone, <1>5 DEF BulkInv, registry, Current, RegistryOK
<1>6. CASE ~ok
  <2>1. worlds' = worlds
    BY <1>1, <1>6
  <2>2. WorldsOK'
    BY <1>1, <1>4, <2>1, WorldsKept DEF WorldsOK
  <2> QED BY <1>1, <1>3, <2>1, <2>2, ResultGone DEF BulkInv, registry, Current, RegistryOK
<1> QED BY <1>5, <1>6

\* Destroying, at once or by a command, takes entities away.
LEMMA DestroyStep ==
  ASSUME BulkInv, NEW w \in World, NEW e \in AliveIn(w), Destroy(w, e) \/ QueueDestroy(w, e)
  PROVE  BulkInv'
<1>1. WorldsOK /\ RegistryOK(Current)
  BY DEF BulkInv
<1>2. UNCHANGED registry /\ result' = [op |-> "none"]
  BY DEF Destroy, QueueDestroy
<1>3. ASSUME Destroy(w, e) PROVE WorldsOK'
  <2> DEFINE new == Survivors(worlds[w], {e})
  <2>1. worlds' = [worlds EXCEPT ![w] = new] /\ pending' = pending
    BY <1>3 DEF Destroy
  <2>2. StoreOK(new)
    BY <1>1 DEF WorldsOK, StoreOK, Survivors, Restrict
  <2> HIDE DEF new
  <2>3. worlds' = [x \in World |-> worlds'[x]] /\ \A x \in World : StoreOK(worlds'[x])
    BY <1>1, <2>1, <2>2 DEF WorldsOK
  <2> QED BY <1>1, <1>2, <2>1, <2>3, WorldsKept DEF WorldsOK
<1>4. ASSUME QueueDestroy(w, e) PROVE WorldsOK'
  <2>1. worlds' = worlds /\ pending' = [pending EXCEPT ![w] = @ \cup {e}] /\ e \in EntityId
    BY <1>1, <1>4 DEF QueueDestroy, AliveIn, WorldsOK, StoreOK
  <2>2. pending' \in [World -> SUBSET EntityId]
    BY <1>1, <2>1 DEF WorldsOK
  <2> QED BY <1>1, <1>2, <2>1, <2>2, WorldsKept DEF WorldsOK
<1>5. WorldsOK'
  BY <1>3, <1>4
<1> QED BY <1>1, <1>2, <1>5, ResultGone DEF BulkInv, registry, Current, RegistryOK

\* A script rewrites the references: each once, and to where it led.
LEMMA RemapStep ==
  ASSUME BulkInv, RemapReferences
  PROVE  BulkInv' /\ calls' = calls
<1> DEFINE w == result.world
           map == result.mapping
           rewritten(comps) ==
             [n \in DOMAIN comps |->
                IF HasNumber(n) THEN Remapped(n, comps[n], NumberField(n).name, map) ELSE comps[n]]
           new == [e \in DOMAIN worlds[w] |->
                     IF e \in Range(map) THEN rewritten(worlds[w][e]) ELSE worlds[w][e]]
<1>1. /\ result.op \in {"spawn", "merge"} /\ ~result.remapped
      /\ worlds' = [worlds EXCEPT ![w] = new]
      /\ result' = [result EXCEPT !.remapped = TRUE]
      /\ UNCHANGED <<registry, pending, calls>>
  BY Zenon DEF RemapReferences
<1>2. /\ {"op", "world", "mapping", "remapped", "given"} \subseteq DOMAIN result
      /\ w \in World /\ \A k \in DOMAIN map : map[k] \in EntityId
      /\ GivenKept
  BY <1>1 DEF BulkInv, ResultOK
<1>3. /\ result'.op = result.op /\ result'.world = w /\ result'.mapping = map
      /\ result'.given = result.given /\ result'.remapped = TRUE
      /\ {"op", "world", "mapping", "remapped", "given"} \subseteq DOMAIN result'
  BY <1>1, <1>2
<1>4. WorldsOK /\ RegistryOK(Current)
  BY DEF BulkInv
<1>5. \A comps : Fits(comps) => Fits(rewritten(comps))
  <2> SUFFICES ASSUME NEW comps, Fits(comps), NEW n \in DOMAIN comps
               PROVE  LET x == rewritten(comps)[n] IN
                        Registered(n) /\ x \in Nat /\ x = Stored(n, x)
    BY DEF Fits
  <2>1. Registered(n) /\ comps[n] \in Nat /\ comps[n] = Stored(n, comps[n])
    BY DEF Fits
  <2>2. rewritten(comps)[n] \in {comps[n], Remapped(n, comps[n], NumberField(n).name, map)}
    OBVIOUS
  <2> HIDE DEF rewritten, map
  <2> QED BY <1>2, <2>1, <2>2, RemappedFits
<1>6. StoreOK(new)
  <2> HIDE DEF rewritten
  <2>1. StoreOK(worlds[w])
    BY <1>2, <1>4 DEF WorldsOK
  <2>2. DOMAIN new = DOMAIN worlds[w]
    OBVIOUS
  <2>3. \A e \in DOMAIN new : Fits(new[e])
    BY <1>5, <2>1 DEF StoreOK
  <2> QED BY <2>1, <2>2, <2>3 DEF StoreOK
<1>7. worlds'[w] = new /\ worlds' = [x \in World |-> worlds'[x]]
      /\ \A x \in World : StoreOK(worlds'[x])
  <2> HIDE DEF new, w
  <2> QED BY <1>1, <1>2, <1>4, <1>6 DEF WorldsOK
<1>8. WorldsOK'
  <2> HIDE DEF new
  <2> QED BY <1>1, <1>4, <1>7, WorldsKept DEF WorldsOK
<1>9. ResultOK' /\ ParentsAttached'
  BY <1>2, <1>3 DEF ResultOK, ParentsAttached
<1>10. ReferencesFollow'
  <2>1. ASSUME NEW p \in DOMAIN result.given, p[1] \in Range(map), result.given[p] \in DOMAIN map
        PROVE  worlds'[w][p[1]][p[2]] = Stored(p[2], map[result.given[p]])
    <3> DEFINE comps == worlds[w][p[1]]
               n == p[2]
    <3>1. p[1] \in DOMAIN worlds[w] /\ n \in DOMAIN comps /\ HasNumber(n) /\ result.given[p] = comps[n]
      BY <1>2 DEF GivenKept
    <3>2. worlds'[w][p[1]] = rewritten(comps)
      BY <1>7, <2>1, <3>1
    <3>3. rewritten(comps)[n] = Remapped(n, comps[n], NumberField(n).name, map)
      BY <3>1
    <3>4. Remapped(n, comps[n], NumberField(n).name, map) = Stored(n, map[comps[n]])
      BY <2>1, <3>1 DEF Remapped
    <3> HIDE DEF rewritten, comps, n
    <3> QED BY <3>1, <3>2, <3>3, <3>4 DEF n
  <2>2. schemas' = schemas /\ idByName' = idByName
    BY <1>1 DEF registry
  <2>3. \A n, v : Stored(n, v) = (IF HasNumber(n)' THEN v % Width[NumberField(n)'.type] ELSE 0)
    BY <2>2 DEF Stored, HasNumber, NumberField, NumberFields, SchemaOf
  <2> HIDE DEF w, map, new, rewritten
  <2>4. ASSUME NEW p \in DOMAIN result.given, p[1] \in Range(map), result.given[p] \in DOMAIN map
        PROVE  worlds'[w][p[1]][p[2]] =
                 (IF HasNumber(p[2])' THEN map[result.given[p]] % Width[NumberField(p[2])'.type] ELSE 0)
    BY <2>1, <2>3, <2>4
  <2> QED BY <1>3, <2>4 DEF ReferencesFollow, Stored
<1> QED BY <1>1, <1>4, <1>8, <1>9, <1>10 DEF BulkInv, registry, Current, RegistryOK

(***************************************************************************)
(* spawn_from_data(): the loop that makes the entities.                    *)
(***************************************************************************)

\* A batch is a sequence of records with bundles.
BatchOK(batch) ==
  /\ Len(batch) \in Nat /\ DOMAIN batch = 1..Len(batch)
  /\ \A i \in 1..Len(batch) : IsBundle(batch[i].components)

\* The got are got, or 0.
IdsOK(batch, got) == \A i \in 1..Len(batch) : got[i] \in EntityId \cup {0}

\* Spawning() is the function it is written as.
LEMMA SpawningFacts ==
  ASSUME NEW w, NEW batch, BatchOK(batch), NEW got
  PROVE  LET f == Spawning(w, batch, got) IN
         /\ f[0] = [store |-> worlds[w], mapping |-> Nothing, made |-> Nothing, out |-> <<>>]
         /\ \A i \in 1..Len(batch) : f[i] = SpawnNext(batch, got, f[i - 1], i)
<1> DEFINE N == Len(batch)
           x == [store |-> worlds[w], mapping |-> Nothing, made |-> Nothing, out |-> <<>>]
           op(i, v) == SpawnNext(batch, got, v, i)
           E(n, g) == [i \in 0..n |-> IF i = 0 THEN x ELSE op(i, g[i - 1])]
           P == {n \in Nat : \E g : g = E(n, g)}
           f == CHOOSE g : g = E(N, g)
<1>1. f = Spawning(w, batch, got)
  BY DEF Spawning
<1> HIDE DEF op, x
<1>2. 0 \in P
  <2> DEFINE g == [i \in 0..0 |-> x]
  <2>1. g = E(0, g)
    OBVIOUS
  <2> QED BY <2>1
<1>3. ASSUME NEW n \in Nat, n \in P
      PROVE  n + 1 \in P
  <2>1. PICK g : g = E(n, g)
    BY <1>3
  <2> DEFINE h == E(n + 1, g)
  <2>2. \A i \in 0..n : h[i] = g[i]
    BY <2>1
  <2>3. \A i \in 0..n + 1 : i # 0 => i - 1 \in 0..n
    BY <1>3
  <2>4. ASSUME NEW i \in 0..n + 1, i # 0
        PROVE  op(i, h[i - 1]) = op(i, g[i - 1])
    <3>1. h[i - 1] = g[i - 1]
      BY <2>2, <2>3, <2>4
    <3> QED BY <3>1
  <2>5. h = E(n + 1, h)
    BY <2>4, Zenon
  <2> HIDE DEF h
  <2>6. \E k : k = E(n + 1, k)
    BY <2>5, Zenon
  <2> QED BY <2>6
<1>4. \E g : g = E(N, g)
  <2> HIDE DEF P
  <2>1. N \in P
    BY <1>2, <1>3, Induction DEF BatchOK
  <2> QED BY <2>1 DEF P
<1>5. f = E(N, f)
  BY <1>4
<1> HIDE DEF f
<1>6. f[0] = x /\ \A i \in 1..N : f[i] = op(i, f[i - 1])
  BY <1>5 DEF BatchOK
<1> QED BY <1>1, <1>6 DEF op, x

\* What has been made of the first i records of a batch, in a world that had
\* the entities `old`: each entity is new, is made of one record, and has just
\* the components that the record names; as long as no record was skipped, the
\* i-th entity is that of the i-th record.
SpawnInv(old, batch, acc, i) ==
  /\ DOMAIN acc = {"store", "mapping", "made", "out"}
  /\ StoreOK(acc.store)
  /\ DOMAIN acc.store = DOMAIN old \cup Range(acc.made)
  /\ \A e \in DOMAIN old : acc.store[e] = old[e]
  /\ DOMAIN acc.made \subseteq 1..i
  /\ \A j \in DOMAIN acc.made : LET e == acc.made[j] IN
       /\ e \in EntityId \ DOMAIN old
       /\ AllRegistered(batch[j].components)
       /\ acc.store[e] = Components(batch[j].components)
  /\ IsInjective(acc.made)
  /\ acc.out \in Seq(EntityId) /\ Len(acc.out) <= i
  /\ Range(acc.out) = Range(acc.made) /\ IsInjective(acc.out)
  /\ \A k \in 1..i : 1..k \subseteq DOMAIN acc.made =>
       k <= Len(acc.out) /\ acc.out[k] = acc.made[k]
  /\ \A k \in DOMAIN acc.mapping : acc.mapping[k] \in EntityId
  /\ \A p \in DOMAIN acc.made : LET key == Key(batch, p) IN
       /\ key \in DOMAIN acc.mapping
       /\ \E j \in DOMAIN acc.made : Key(batch, j) = key /\ acc.mapping[key] = acc.made[j]

\* A record is made or skipped as a whole.
LEMMA SpawnNextFacts ==
  ASSUME NEW old, NEW batch, BatchOK(batch), NEW got, IdsOK(batch, got),
         NEW i \in Nat, i + 1 <= Len(batch), NEW acc, SpawnInv(old, batch, acc, i)
  PROVE  SpawnInv(old, batch, SpawnNext(batch, got, acc, i + 1), i + 1)
<1> DEFINE m == i + 1
           id == got[m]
           new == SpawnNext(batch, got, acc, m)
<1>1. m \in 1..Len(batch) /\ id \in EntityId \cup {0}
  BY DEF BatchOK, IdsOK
<1>2. m \notin DOMAIN acc.made
  BY DEF SpawnInv
<1>3. CASE id \in DOMAIN acc.store \/ id = 0 \/ ~AllRegistered(batch[m].components)
  <2>1. new = acc
    BY <1>3 DEF SpawnNext
  <2>2. DOMAIN acc.made \subseteq 1..m /\ Len(acc.out) <= m
    BY DEF SpawnInv
  <2>3. \A k \in 1..m : 1..k \subseteq DOMAIN acc.made =>
          k <= Len(acc.out) /\ acc.out[k] = acc.made[k]
    <3> SUFFICES ASSUME NEW k \in 1..m, 1..k \subseteq DOMAIN acc.made
                 PROVE  k <= Len(acc.out) /\ acc.out[k] = acc.made[k]
      OBVIOUS
    <3>1. k \in 1..k
      OBVIOUS
    <3>2. k \in 1..i
      BY <1>2, <3>1
    <3> QED BY <3>2 DEF SpawnInv
  <2> HIDE DEF new, m
  <2>4. SpawnInv(old, batch, new, m)
    BY <2>1, <2>2, <2>3 DEF SpawnInv
  <2> QED BY <2>4 DEF new, m
<1>4. CASE id \notin DOMAIN acc.store /\ id # 0 /\ AllRegistered(batch[m].components)
  <2> DEFINE comps == Components(batch[m].components)
             kept == Put(acc.store, id, comps)
             mapping == Put(acc.mapping, Key(batch, m), id)
             made == Put(acc.made, m, id)
             out == Append(acc.out, id)
  <2>1. /\ new.store = kept /\ new.mapping = mapping /\ new.made = made /\ new.out = out
        /\ DOMAIN new = {"store", "mapping", "made", "out"}
    BY <1>4 DEF SpawnNext
  <2>2. id \in EntityId /\ Fits(comps)
    BY <1>1, <1>4, ComponentsFit DEF BatchOK
  <2>3. /\ DOMAIN kept = DOMAIN acc.store \cup {id} /\ kept[id] = comps
        /\ \A e \in DOMAIN acc.store : kept[e] = acc.store[e]
    <3> HIDE DEF comps, id, m
    <3> QED BY <1>4 DEF Put
  <2>4. /\ DOMAIN made = DOMAIN acc.made \cup {m} /\ made[m] = id
        /\ \A j \in DOMAIN acc.made : made[j] = acc.made[j]
        /\ Range(made) = Range(acc.made) \cup {id}
    <3> HIDE DEF id, m
    <3>1. DOMAIN made = DOMAIN acc.made \cup {m} /\ made[m] = id
          /\ \A j \in DOMAIN acc.made : made[j] = acc.made[j]
      BY <1>2 DEF Put
    <3> HIDE DEF made
    <3> QED BY <1>2, <3>1 DEF Range
  <2>5. /\ DOMAIN mapping = DOMAIN acc.mapping \cup {Key(batch, m)}
        /\ mapping[Key(batch, m)] = id
        /\ \A k \in DOMAIN acc.mapping : k # Key(batch, m) => mapping[k] = acc.mapping[k]
    <3> HIDE DEF comps, id, m
    <3> QED BY DEF Put
  <2>6. /\ acc.out \in Seq(EntityId) /\ out \in Seq(EntityId) /\ Len(out) = Len(acc.out) + 1
        /\ DOMAIN out = DOMAIN acc.out \cup {Len(acc.out) + 1} /\ out[Len(acc.out) + 1] = id
        /\ \A k \in DOMAIN acc.out : out[k] = acc.out[k]
        /\ Len(acc.out) + 1 \notin DOMAIN acc.out
    BY <2>2 DEF SpawnInv
  <2>7. Range(out) = Range(acc.out) \cup {id}
    <3> HIDE DEF out
    <3> QED BY <2>6 DEF Range
  <2> HIDE DEF new, kept, mapping, made, out, comps
  <2>8. StoreOK(kept)
    BY <2>2, <2>3 DEF SpawnInv, StoreOK
  <2>9. id \notin DOMAIN old /\ id \notin Range(acc.made) /\ id \notin Range(acc.out)
    BY <1>4 DEF SpawnInv
  <2>10. /\ DOMAIN kept = DOMAIN old \cup Range(made)
         /\ \A e \in DOMAIN old : kept[e] = old[e]
    BY <2>3, <2>4 DEF SpawnInv
  <2>11. DOMAIN made \subseteq 1..m
    BY <2>4 DEF SpawnInv
  <2>12. ASSUME NEW j \in DOMAIN made
         PROVE  /\ made[j] \in EntityId \ DOMAIN old
                /\ AllRegistered(batch[j].components)
                /\ kept[made[j]] = Components(batch[j].components)
    <3>1. CASE j = m
      BY <1>4, <2>2, <2>3, <2>4, <2>9, <3>1 DEF comps
    <3>2. CASE j \in DOMAIN acc.made
      <4>1. made[j] = acc.made[j] /\ acc.made[j] \in DOMAIN acc.store
        BY <2>4, <3>2 DEF SpawnInv, Range
      <4> QED BY <2>3, <3>2, <4>1 DEF SpawnInv
    <3> QED BY <2>4, <3>1, <3>2
  <2>13. IsInjective(made)
    <3>1. IsInjective(acc.made)
      BY DEF SpawnInv
    <3>2. \A j \in DOMAIN acc.made : acc.made[j] # id
      BY <2>9 DEF Range
    <3> HIDE DEF m
    <3> QED BY <2>4, <3>1, <3>2 DEF IsInjective
  <2>14. IsInjective(out)
    <3>1. IsInjective(acc.out)
      BY DEF SpawnInv
    <3>2. \A j \in DOMAIN acc.out : acc.out[j] # id
      BY <2>9 DEF Range
    <3> QED BY ONLY <2>6, <3>1, <3>2 DEF IsInjective
  <2>15. Range(out) = Range(made)
    BY <2>4, <2>7 DEF SpawnInv
  <2>16. Len(out) <= m /\ Len(acc.out) <= i /\ Len(acc.out) \in Nat
    BY <2>6 DEF SpawnInv
  <2>17. ASSUME NEW k \in 1..m, 1..k \subseteq DOMAIN made
         PROVE  k <= Len(out) /\ out[k] = made[k]
    <3>1. CASE k \in 1..i
      <4>1. m \notin 1..k
        BY <3>1
      <4>2. 1..k \subseteq DOMAIN acc.made /\ k \in 1..k
        BY <2>4, <2>17, <4>1
      <4>3. k <= Len(acc.out) /\ acc.out[k] = acc.made[k]
        BY <3>1, <4>2 DEF SpawnInv
      <4>4. k \in DOMAIN acc.out
        BY <2>6, <3>1, <4>3
      <4> QED BY <2>4, <2>6, <2>16, <4>2, <4>3, <4>4
    <3>2. CASE k = m
      <4>1. 1..i \subseteq DOMAIN acc.made
        <5>1. \A j \in 1..i : j \in 1..k /\ j # m
          BY <3>2
        <5> QED BY <2>4, <2>17, <5>1
      <4>2. i <= Len(acc.out)
        <5>1. CASE i = 0
          BY <2>16, <5>1
        <5>2. CASE i # 0
          <6>1. i \in 1..i
            BY <5>2
          <6> QED BY <4>1, <6>1 DEF SpawnInv
        <5> QED BY <5>1, <5>2
      <4>3. Len(acc.out) + 1 = m
        BY <2>16, <4>2
      <4> QED BY <2>4, <2>6, <3>2, <4>3
    <3> QED BY <3>1, <3>2
  <2>18. \A k \in DOMAIN mapping : mapping[k] \in EntityId
    BY <2>2, <2>5 DEF SpawnInv
  <2>19. ASSUME NEW p \in DOMAIN made
         PROVE  /\ Key(batch, p) \in DOMAIN mapping
                /\ \E j \in DOMAIN made :
                     Key(batch, j) = Key(batch, p) /\ mapping[Key(batch, p)] = made[j]
    <3>1. CASE Key(batch, p) = Key(batch, m)
      BY <2>4, <2>5, <3>1
    <3>2. CASE Key(batch, p) # Key(batch, m)
      <4>1. p \in DOMAIN acc.made
        BY <2>4, <3>2
      <4>2. /\ Key(batch, p) \in DOMAIN acc.mapping
            /\ \E j \in DOMAIN acc.made :
                 Key(batch, j) = Key(batch, p) /\ acc.mapping[Key(batch, p)] = acc.made[j]
        BY <4>1 DEF SpawnInv
      <4> QED BY <2>4, <2>5, <3>2, <4>2
    <3> QED BY <3>1, <3>2
  <2> HIDE DEF m
  <2>20. SpawnInv(old, batch, new, m)
    BY <2>1, <2>6, <2>8, <2>10, <2>11, <2>12, <2>13, <2>14, <2>15, <2>16, <2>17, <2>18, <2>19
    DEF SpawnInv
  <2> QED BY <2>20 DEF new, m
<1> QED BY <1>3, <1>4

\* The first loop keeps its invariant.
LEMMA SpawningInvariant ==
  ASSUME NEW w \in World, StoreOK(worlds[w]), NEW batch, BatchOK(batch), NEW got, IdsOK(batch, got)
  PROVE  SpawnInv(worlds[w], batch, Spawning(w, batch, got)[Len(batch)], Len(batch))
<1> DEFINE N == Len(batch)
           f == Spawning(w, batch, got)
           old == worlds[w]
           P == {i \in Nat : i <= N => SpawnInv(old, batch, f[i], i)}
<1>1. N \in Nat
  BY DEF BatchOK
<1>2. /\ f[0] = [store |-> old, mapping |-> Nothing, made |-> Nothing, out |-> <<>>]
      /\ \A i \in 1..N : f[i] = SpawnNext(batch, got, f[i - 1], i)
  BY SpawningFacts
<1> HIDE DEF f, old
<1>3. 0 \in P
  <2>1. /\ DOMAIN f[0] = {"store", "mapping", "made", "out"}
        /\ f[0].store = old /\ f[0].mapping = Nothing /\ f[0].made = Nothing /\ f[0].out = <<>>
    BY <1>2
  <2>2. DOMAIN Nothing = {} /\ Range(Nothing) = {} /\ IsInjective(Nothing)
    BY DEF Nothing, Range, IsInjective
  <2>3. <<>> \in Seq(EntityId) /\ Len(<<>>) = 0 /\ Range(<<>>) = {} /\ IsInjective(<<>>)
    BY DEF Range, IsInjective
  <2>4. StoreOK(old)
    BY DEF old
  <2>5. SpawnInv(old, batch, f[0], 0)
    BY <2>1, <2>2, <2>3, <2>4 DEF SpawnInv
  <2> QED BY <2>5
<1>4. ASSUME NEW i \in Nat, i \in P
      PROVE  i + 1 \in P
  <2> SUFFICES ASSUME i + 1 <= N PROVE SpawnInv(old, batch, f[i + 1], i + 1)
    OBVIOUS
  <2>1. i + 1 \in 1..N /\ (i + 1) - 1 = i /\ i <= N
    BY <1>1
  <2>2. f[i + 1] = SpawnNext(batch, got, f[i], i + 1)
    BY <1>2, <2>1
  <2>3. SpawnInv(old, batch, f[i], i)
    BY <1>4, <2>1
  <2> QED BY <2>2, <2>3, SpawnNextFacts
<1> HIDE DEF P
<1>5. N \in P
  BY <1>1, <1>3, <1>4, Induction
<1> QED BY <1>5 DEF P, f, old

(***************************************************************************)
(* spawn_from_data(): the loop that attaches the children.                 *)
(***************************************************************************)

\* Attaching() is the function it is written as.
LEMMA AttachingFacts ==
  ASSUME NEW batch, BatchOK(batch), NEW made
  PROVE  LET f == Attaching(batch, made) IN
         f[0] = made /\ \A i \in 1..Len(batch) : f[i] = Attach(batch, f[i - 1], i)
<1> DEFINE N == Len(batch)
           op(i, v) == Attach(batch, v, i)
           E(n, g) == [i \in 0..n |-> IF i = 0 THEN made ELSE op(i, g[i - 1])]
           P == {n \in Nat : \E g : g = E(n, g)}
           f == CHOOSE g : g = E(N, g)
<1>1. f = Attaching(batch, made)
  BY DEF Attaching
<1> HIDE DEF op
<1>2. 0 \in P
  <2> DEFINE g == [i \in 0..0 |-> made]
  <2>1. g = E(0, g)
    OBVIOUS
  <2> QED BY <2>1
<1>3. ASSUME NEW n \in Nat, n \in P
      PROVE  n + 1 \in P
  <2>1. PICK g : g = E(n, g)
    BY <1>3
  <2> DEFINE h == E(n + 1, g)
  <2>2. \A i \in 0..n : h[i] = g[i]
    BY <2>1
  <2>3. \A i \in 0..n + 1 : i # 0 => i - 1 \in 0..n
    BY <1>3
  <2>4. ASSUME NEW i \in 0..n + 1, i # 0
        PROVE  op(i, h[i - 1]) = op(i, g[i - 1])
    <3>1. h[i - 1] = g[i - 1]
      BY <2>2, <2>3, <2>4
    <3> QED BY <3>1
  <2>5. h = E(n + 1, h)
    BY <2>4, Zenon
  <2> HIDE DEF h
  <2>6. \E k : k = E(n + 1, k)
    BY <2>5, Zenon
  <2> QED BY <2>6
<1>4. \E g : g = E(N, g)
  <2> HIDE DEF P
  <2>1. N \in P
    BY <1>2, <1>3, Induction DEF BatchOK
  <2> QED BY <2>1 DEF P
<1>5. f = E(N, f)
  BY <1>4
<1> HIDE DEF f
<1>6. f[0] = made /\ \A i \in 1..N : f[i] = op(i, f[i - 1])
  BY <1>5 DEF BatchOK
<1> QED BY <1>1, <1>6 DEF op

\* The entities whose record, of the first i, names a parent that is known.
Children(batch, spawned, i) ==
  {spawned.out[j] : j \in {j \in 1..i :
     j \in DOMAIN spawned.out /\ batch[j].parent \in DOMAIN spawned.mapping}}

\* What the loop has done after i records: each child is attached once.
AttachInv(batch, spawned, acc, i) ==
  /\ DOMAIN acc = {"store", "mapping", "made", "out"}
  /\ acc.mapping = spawned.mapping /\ acc.made = spawned.made /\ acc.out = spawned.out
  /\ DOMAIN acc.store = DOMAIN spawned.store
  /\ \A e \in DOMAIN spawned.store :
       acc.store[e] = IF e \in Children(batch, spawned, i)
                      THEN Attached(spawned.store[e], spawned.mapping) ELSE spawned.store[e]

\* A round attaches the entity it is about, which no round before it attached.
LEMMA AttachNextFacts ==
  ASSUME NEW old, NEW batch, BatchOK(batch), NEW spawned, SpawnInv(old, batch, spawned, Len(batch)),
         NEW i \in Nat, i + 1 <= Len(batch), NEW acc, AttachInv(batch, spawned, acc, i)
  PROVE  AttachInv(batch, spawned, Attach(batch, acc, i + 1), i + 1)
<1> DEFINE m == i + 1
           id == spawned.out[m]
           map == spawned.mapping
           new == Attach(batch, acc, m)
<1>1. m \in Nat /\ 1..m = 1..i \cup {m} /\ m \notin 1..i
  OBVIOUS
<1>2. acc.mapping = map /\ acc.out = spawned.out
  BY DEF AttachInv
<1> HIDE DEF m
<1>3. CASE ~(m \in DOMAIN spawned.out /\ batch[m].parent \in DOMAIN map)
  <2>1. new = acc
    BY <1>2, <1>3 DEF Attach
  <2>2. Children(batch, spawned, m) = Children(batch, spawned, i)
    BY <1>1, <1>3 DEF Children
  <2>3. AttachInv(batch, spawned, new, m)
    BY <2>1, <2>2 DEF AttachInv
  <2> QED BY <2>3 DEF m
<1>4. CASE m \in DOMAIN spawned.out /\ batch[m].parent \in DOMAIN map
  <2>1. id \in DOMAIN spawned.store
    BY <1>4 DEF SpawnInv, Range
  <2>2. id \in DOMAIN acc.store /\ DOMAIN acc = {"store", "mapping", "made", "out"}
    BY <2>1 DEF AttachInv
  <2>3. new = [acc EXCEPT !.store[id] = Attached(acc.store[id], map)]
    BY <1>2, <1>4 DEF Attach
  <2>4. /\ DOMAIN new = {"store", "mapping", "made", "out"}
        /\ new.mapping = acc.mapping /\ new.made = acc.made /\ new.out = acc.out
        /\ DOMAIN new.store = DOMAIN acc.store
        /\ new.store[id] = Attached(acc.store[id], map)
        /\ \A e \in DOMAIN acc.store : e # id => new.store[e] = acc.store[e]
    BY <2>2, <2>3
  <2>5. Children(batch, spawned, m) = Children(batch, spawned, i) \cup {id}
    BY <1>1, <1>4 DEF Children
  <2>6. id \notin Children(batch, spawned, i)
    BY <1>1, <1>4 DEF Children, SpawnInv, IsInjective
  <2> HIDE DEF new, id
  <2>7. AttachInv(batch, spawned, new, m)
    BY <2>1, <2>4, <2>5, <2>6 DEF AttachInv
  <2> QED BY <2>7 DEF m, new
<1> QED BY <1>3, <1>4

\* The second loop keeps its invariant.
LEMMA AttachingInvariant ==
  ASSUME NEW old, NEW batch, BatchOK(batch), NEW spawned, SpawnInv(old, batch, spawned, Len(batch))
  PROVE  AttachInv(batch, spawned, Attaching(batch, spawned)[Len(batch)], Len(batch))
<1> DEFINE N == Len(batch)
           f == Attaching(batch, spawned)
           P == {i \in Nat : i <= N => AttachInv(batch, spawned, f[i], i)}
<1>1. N \in Nat
  BY DEF BatchOK
<1>2. f[0] = spawned /\ \A i \in 1..N : f[i] = Attach(batch, f[i - 1], i)
  BY AttachingFacts
<1> HIDE DEF f
<1>3. 0 \in P
  <2>1. Children(batch, spawned, 0) = {}
    BY DEF Children
  <2>2. AttachInv(batch, spawned, f[0], 0)
    BY <1>2, <2>1 DEF AttachInv, SpawnInv
  <2> QED BY <2>2
<1>4. ASSUME NEW i \in Nat, i \in P
      PROVE  i + 1 \in P
  <2> SUFFICES ASSUME i + 1 <= N PROVE AttachInv(batch, spawned, f[i + 1], i + 1)
    OBVIOUS
  <2>1. i + 1 \in 1..N /\ (i + 1) - 1 = i /\ i <= N
    BY <1>1
  <2>2. f[i + 1] = Attach(batch, f[i], i + 1)
    BY <1>2, <2>1
  <2>3. AttachInv(batch, spawned, f[i], i)
    BY <1>4, <2>1
  <2> QED BY <2>2, <2>3, AttachNextFacts
<1> HIDE DEF P
<1>5. N \in P
  BY <1>1, <1>3, <1>4, Induction
<1> QED BY <1>5 DEF P, f

\* What a batch leaves in a world.
Spawned(w, batch, got) == Attaching(batch, Spawning(w, batch, got)[Len(batch)])[Len(batch)]

\* The entities there were are as they were; those made are those of the
\* records reported, and have just the components named.
LEMMA SpawnedFacts ==
  ASSUME NEW w \in World, StoreOK(worlds[w]), NEW batch, BatchOK(batch), NEW got, IdsOK(batch, got)
  PROVE  LET end == Spawned(w, batch, got) IN
         /\ StoreOK(end.store)
         /\ DOMAIN end.store = AliveIn(w) \cup Range(end.made)
         /\ \A e \in AliveIn(w) : end.store[e] = worlds[w][e]
         /\ IsInjective(end.made) /\ Range(end.out) = Range(end.made)
         /\ Range(end.made) \cap AliveIn(w) = {}
         /\ \A i \in DOMAIN end.made :
              DOMAIN end.store[end.made[i]] = DOMAIN batch[i].components
         /\ \A k \in DOMAIN end.mapping : end.mapping[k] \in EntityId
<1> DEFINE N == Len(batch)
           spawned == Spawning(w, batch, got)[N]
           end == Attaching(batch, spawned)[N]
           old == worlds[w]
<1>1. SpawnInv(old, batch, spawned, N)
  BY SpawningInvariant
<1>2. AttachInv(batch, spawned, end, N)
  BY <1>1, AttachingInvariant
<1> HIDE DEF spawned, end, N
<1>3. /\ DOMAIN end.store = DOMAIN old \cup Range(end.made)
      /\ IsInjective(end.made) /\ Range(end.out) = Range(end.made)
      /\ Range(end.made) \cap DOMAIN old = {}
      /\ \A k \in DOMAIN end.mapping : end.mapping[k] \in EntityId
  <2>1. /\ end.made = spawned.made /\ end.out = spawned.out /\ end.mapping = spawned.mapping
        /\ DOMAIN end.store = DOMAIN spawned.store
    BY <1>2 DEF AttachInv
  <2>2. /\ DOMAIN spawned.store = DOMAIN old \cup Range(spawned.made)
        /\ IsInjective(spawned.made) /\ Range(spawned.out) = Range(spawned.made)
        /\ \A k \in DOMAIN spawned.mapping : spawned.mapping[k] \in EntityId
        /\ \A j \in DOMAIN spawned.made : spawned.made[j] \notin DOMAIN old
    BY <1>1 DEF SpawnInv
  <2>3. Range(spawned.made) \cap DOMAIN old = {}
    BY <2>2 DEF Range
  <2> QED BY <2>1, <2>2, <2>3
<1>4. ASSUME NEW e \in DOMAIN end.store
      PROVE  Fits(end.store[e]) /\ DOMAIN end.store[e] = DOMAIN spawned.store[e]
  <2>1. Fits(spawned.store[e])
    BY <1>1, <1>2 DEF AttachInv, SpawnInv, StoreOK
  <2>2. end.store[e] \in {spawned.store[e], Attached(spawned.store[e], spawned.mapping)}
    BY <1>2 DEF AttachInv
  <2>3. \A k \in DOMAIN spawned.mapping : spawned.mapping[k] \in EntityId
    BY <1>1 DEF SpawnInv
  <2> QED BY <2>1, <2>2, <2>3, AttachedFits
<1>5. StoreOK(end.store)
  BY <1>1, <1>2, <1>4 DEF AttachInv, SpawnInv, StoreOK
<1>6. ASSUME NEW e \in DOMAIN old
      PROVE  end.store[e] = old[e]
  <2>1. e \notin Range(spawned.out)
    BY <1>2, <1>3 DEF AttachInv
  <2>2. e \notin Children(batch, spawned, N)
    BY <2>1 DEF Children, Range
  <2> QED BY <1>1, <1>2, <2>2 DEF AttachInv, SpawnInv
<1>7. ASSUME NEW i \in DOMAIN end.made
      PROVE  DOMAIN end.store[end.made[i]] = DOMAIN batch[i].components
  <2>1. end.made = spawned.made /\ end.made[i] \in DOMAIN end.store
    BY <1>2, <1>3 DEF AttachInv, Range
  <2>2. spawned.store[end.made[i]] = Components(batch[i].components)
    BY <1>1, <2>1 DEF SpawnInv
  <2> QED BY <1>4, <2>1, <2>2 DEF Components
<1> HIDE DEF old
<1>8. end = Spawned(w, batch, got)
  BY DEF Spawned, end, spawned, N
<1> QED BY <1>3, <1>5, <1>6, <1>7, <1>8 DEF AliveIn, old

\* The child of a record that was not skipped, nor one before it, has the entity
\* of its parent's record.
LEMMA SpawnedAttaches ==
  ASSUME NEW w \in World, StoreOK(worlds[w]), NEW batch, BatchOK(batch), NEW got, IdsOK(batch, got),
         NEW end, end = Spawned(w, batch, got),
         NEW i \in DOMAIN end.made, NEW p \in DOMAIN end.made, 1..i \subseteq DOMAIN end.made,
         \A j \in DOMAIN end.made : Key(batch, j) = batch[i].parent <=> j = p,
         NEW n \in ParentComponent(batch[i].components),
         HasNumber(n), NumberField(n).name = "parent",
         batch[i].components[n] = batch[i].parent,
         {batch[i].parent, end.made[p]} \subseteq 0..Width[NumberField(n).type] - 1
  PROVE  end.store[end.made[i]][n] = end.made[p]
<1> DEFINE N == Len(batch)
           spawned == Spawning(w, batch, got)[N]
           parent == batch[i].parent
           comps == batch[i].components
           id == end.made[i]
<1>1. SpawnInv(worlds[w], batch, spawned, N)
  BY SpawningInvariant
<1>2. AttachInv(batch, spawned, end, N)
  BY <1>1, AttachingInvariant DEF Spawned
<1> HIDE DEF spawned
<1>3. end.made = spawned.made /\ N \in Nat /\ i \in 1..N
  BY <1>1, <1>2 DEF AttachInv, SpawnInv, BatchOK
<1> HIDE DEF N
<1>4. i <= Len(spawned.out) /\ spawned.out[i] = id /\ i \in DOMAIN spawned.out
  <2>1. i <= Len(spawned.out) /\ spawned.out[i] = spawned.made[i] /\ spawned.out \in Seq(EntityId)
    BY <1>1, <1>3 DEF SpawnInv
  <2> QED BY <1>3, <2>1
<1>5. parent \in DOMAIN spawned.mapping /\ spawned.mapping[parent] = end.made[p]
  <2>1. Key(batch, p) = parent
    OBVIOUS
  <2>2. \A q \in DOMAIN spawned.made : LET key == Key(batch, q) IN
          /\ key \in DOMAIN spawned.mapping
          /\ \E j \in DOMAIN spawned.made :
               Key(batch, j) = key /\ spawned.mapping[key] = spawned.made[j]
    BY <1>1 DEF SpawnInv
  <2>3. /\ parent \in DOMAIN spawned.mapping
        /\ \E j \in DOMAIN spawned.made :
             Key(batch, j) = parent /\ spawned.mapping[parent] = spawned.made[j]
    BY <1>3, <2>1, <2>2
  <2> QED BY <1>3, <2>3
<1>6. /\ id \in DOMAIN spawned.store /\ spawned.store[id] = Components(comps)
  BY <1>1, <1>3 DEF SpawnInv, Range
<1>7. id \in Children(batch, spawned, N)
  BY <1>3, <1>4, <1>5 DEF Children
<1>8. end.store[id] = Attached(Components(comps), spawned.mapping)
  BY <1>2, <1>6, <1>7 DEF AttachInv
<1>9. n \in DOMAIN comps /\ DOMAIN Components(comps) = DOMAIN comps
  BY DEF ParentComponent, Components
<1>10. n \in ParentComponent(Components(comps))
  BY <1>9 DEF ParentComponent
<1>11. end.store[id][n] = Remapped(n, Stored(n, parent), "parent", spawned.mapping)
  BY <1>8, <1>9, <1>10 DEF Attached, Components
<1>12. Stored(n, parent) = parent /\ Stored(n, end.made[p]) = end.made[p]
  <2>1. parent \in 0..Width[NumberField(n).type] - 1 /\ end.made[p] \in 0..Width[NumberField(n).type] - 1
    OBVIOUS
  <2>2. parent \in Int /\ end.made[p] \in Int
    BY <2>1
  <2> QED BY <2>1, <2>2, StoredFacts
<1>13. Remapped(n, parent, "parent", spawned.mapping) = Stored(n, spawned.mapping[parent])
  BY <1>5 DEF Remapped
<1> QED BY <1>5, <1>11, <1>12, <1>13

\* What is given are numbers that are there.
LEMMA GivenFacts ==
  ASSUME NEW kept, NEW made
  PROVE  \A p \in DOMAIN Given(kept, made) :
           /\ p[1] \in DOMAIN kept /\ p[2] \in DOMAIN kept[p[1]] /\ HasNumber(p[2])
           /\ Given(kept, made)[p] = kept[p[1]][p[2]]
<1> DEFINE S == {p \in (made \cap DOMAIN kept) \X CompName :
                   p[2] \in DOMAIN kept[p[1]] /\ HasNumber(p[2])}
<1>1. Given(kept, made) = [p \in S |-> kept[p[1]][p[2]]]
  BY DEF Given
<1>2. \A p \in S : p[1] \in DOMAIN kept /\ p[2] \in DOMAIN kept[p[1]] /\ HasNumber(p[2])
  OBVIOUS
<1> HIDE DEF S
<1> QED BY <1>1, <1>2

\* What was given of a world is given of it, after a step that keeps the types.
LEMMA GivenNow ==
  ASSUME UNCHANGED registry, NEW made,
         result'.given = Given(worlds'[result'.world], made)
  PROVE  GivenKept'
<1> DEFINE kept == worlds'[result'.world]
<1>1. \A p \in DOMAIN result'.given :
        /\ p[1] \in DOMAIN kept /\ p[2] \in DOMAIN kept[p[1]] /\ HasNumber(p[2])
        /\ result'.given[p] = kept[p[1]][p[2]]
  BY GivenFacts
<1>2. \A n : HasNumber(n)' = HasNumber(n)
  BY DEF HasNumber, NumberFields, SchemaOf, registry
<1> QED BY <1>1, <1>2 DEF GivenKept

\* A batch adds the entities it reports and no others.
SpawnedWell(w) ==
  LET made == result'.made IN
  /\ IsInjective(made) /\ Range(result'.out) = Range(made)
  /\ Range(made) \cap AliveIn(w) = {}
  /\ DOMAIN worlds'[w] = AliveIn(w) \cup Range(made)
  /\ \A e \in AliveIn(w) : worlds'[w][e] = worlds[w][e]
  /\ \A i \in DOMAIN made : DOMAIN worlds'[w][made[i]] = DOMAIN result'.batch[i].components

\* A batch adds the entities it reports, and attaches the children among them.
LEMMA SpawnStep ==
  ASSUME BulkInv, NEW w \in World, NEW batch, BatchOK(batch), SpawnFromData(w, batch)
  PROVE  BulkInv' /\ result'.op = "spawn" /\ result'.world = w /\ SpawnedWell(w)
<1>1. PICK got \in IdsFor(w, batch) :
        LET end == Spawned(w, batch, got) IN
        /\ worlds' = [worlds EXCEPT ![w] = end.store]
        /\ result' = [op |-> "spawn", world |-> w, batch |-> batch, out |-> end.out,
                      made |-> end.made, mapping |-> end.mapping, remapped |-> FALSE,
                      given |-> Given(end.store, {end.made[i] : i \in
                                  {i \in DOMAIN end.made : batch[i].parent = NoKey}})]
        /\ UNCHANGED <<registry, pending>>
  BY Zenon DEF SpawnFromData, Spawned
<1> DEFINE end == Spawned(w, batch, got)
<1>2. IdsOK(batch, got)
  BY DEF IdsFor, IdsOK, BatchOK
<1>3. WorldsOK /\ RegistryOK(Current) /\ StoreOK(worlds[w])
  BY DEF BulkInv, WorldsOK
<1>4. /\ StoreOK(end.store)
      /\ DOMAIN end.store = AliveIn(w) \cup Range(end.made)
      /\ \A e \in AliveIn(w) : end.store[e] = worlds[w][e]
      /\ IsInjective(end.made) /\ Range(end.out) = Range(end.made)
      /\ Range(end.made) \cap AliveIn(w) = {}
      /\ \A i \in DOMAIN end.made : DOMAIN end.store[end.made[i]] = DOMAIN batch[i].components
      /\ \A k \in DOMAIN end.mapping : end.mapping[k] \in EntityId
  BY <1>2, <1>3, SpawnedFacts
<1>5. ASSUME NEW i \in DOMAIN end.made, NEW p \in DOMAIN end.made, 1..i \subseteq DOMAIN end.made,
             \A j \in DOMAIN end.made : Key(batch, j) = batch[i].parent <=> j = p,
             NEW n \in ParentComponent(batch[i].components),
             HasNumber(n), NumberField(n).name = "parent",
             batch[i].components[n] = batch[i].parent,
             {batch[i].parent, end.made[p]} \subseteq 0..Width[NumberField(n).type] - 1
      PROVE  end.store[end.made[i]][n] = end.made[p]
  BY <1>2, <1>3, <1>5, SpawnedAttaches
<1> HIDE DEF end
<1>6. /\ worlds' = [worlds EXCEPT ![w] = end.store]
      /\ result'.op = "spawn" /\ result'.world = w /\ result'.batch = batch
      /\ result'.out = end.out /\ result'.made = end.made /\ result'.mapping = end.mapping
      /\ result'.remapped = FALSE
      /\ {"op", "world", "mapping", "remapped", "given"} \subseteq DOMAIN result'
      /\ UNCHANGED <<registry, pending>>
  BY <1>1 DEF end
<1>7. \E made : result'.given = Given(end.store, made)
  BY <1>1 DEF end
<1>8. /\ worlds'[w] = end.store /\ worlds' = [x \in World |-> worlds'[x]]
      /\ \A x \in World : StoreOK(worlds'[x])
  BY <1>3, <1>4, <1>6 DEF WorldsOK
<1>9. WorldsOK'
  BY <1>3, <1>6, <1>8, WorldsKept DEF WorldsOK
<1>10. GivenKept'
  BY <1>6, <1>7, <1>8, GivenNow
<1>11. ResultOK'
  <2>1. \A k \in DOMAIN result'.mapping : result'.mapping[k] \in EntityId
    BY <1>4, <1>6
  <2> QED BY <1>6, <1>10, <2>1 DEF ResultOK
<1>12. ReferencesFollow'
  BY <1>6 DEF ReferencesFollow
<1>13. ParentsAttached'
  <2>1. schemas' = schemas /\ idByName' = idByName
    BY <1>6 DEF registry
  <2>2. /\ \A comps : ParentComponent(comps)' = ParentComponent(comps)
        /\ \A n : HasNumber(n)' = HasNumber(n) /\ NumberField(n)' = NumberField(n)
    BY <2>1 DEF ParentComponent, HasField, HasNumber, NumberField, NumberFields, SchemaOf
  <2>3. ASSUME NEW i \in DOMAIN end.made, NEW p \in DOMAIN end.made, 1..i \subseteq DOMAIN end.made,
               \A j \in DOMAIN end.made : Key(batch, j) = batch[i].parent <=> j = p,
               NEW n \in ParentComponent(batch[i].components),
               HasNumber(n)', NumberField(n)'.name = "parent",
               batch[i].components[n] = batch[i].parent,
               {batch[i].parent, end.made[p]} \subseteq 0..Width[NumberField(n)'.type] - 1
        PROVE  worlds'[w][end.made[i]][n] = end.made[p]
    <3>1. HasNumber(n) /\ NumberField(n).name = "parent"
          /\ {batch[i].parent, end.made[p]} \subseteq 0..Width[NumberField(n).type] - 1
      BY <2>2, <2>3
    <3> QED BY <1>5, <1>8, <2>3, <3>1
  <2>4. SUFFICES ASSUME NEW i \in DOMAIN end.made, NEW p \in DOMAIN end.made,
                        1..i \subseteq DOMAIN end.made,
                        \A j \in DOMAIN end.made : Key(batch, j) = batch[i].parent <=> j = p,
                        NEW n \in ParentComponent(result.batch[i].components)',
                        HasNumber(n)', NumberField(n)'.name = "parent",
                        batch[i].components[n] = batch[i].parent,
                        {batch[i].parent, end.made[p]} \subseteq 0..Width[NumberField(n)'.type] - 1
                 PROVE  worlds'[w][end.made[i]][n] = end.made[p]
    BY <1>6 DEF ParentsAttached, Key
  <2>5. n \in ParentComponent(batch[i].components)
    BY <1>6, <2>1, <2>4 DEF ParentComponent, HasField, SchemaOf
  <2> QED BY <2>3, <2>4, <2>5
<1>14. SpawnedWell(w)
  BY <1>4, <1>6, <1>8 DEF SpawnedWell
<1>15. RegistryOK(Current)'
  BY <1>3, <1>6 DEF registry, Current, RegistryOK
<1> QED BY <1>6, <1>9, <1>11, <1>12, <1>13, <1>14, <1>15 DEF BulkInv

(***************************************************************************)
(* copy_entity_to() and merge_world().                                     *)
(***************************************************************************)

\* What the copies of a merge are made in.
CopyFields == {"worlds", "pending", "mapping", "ok"}

\* Copying() is the function it is written as.
LEMMA CopyingFacts ==
  ASSUME NEW x, NEW v, NEW w, NEW walk, Len(walk) \in Nat, NEW got
  PROVE  LET f == Copying(x, v, w, walk, got) IN
         /\ f[0].worlds = worlds /\ f[0].pending = pending /\ f[0].mapping = Nothing
         /\ DOMAIN f[0] = CopyFields
         /\ \A i \in 1..Len(walk) : f[i] = Copied(f[i - 1], x, v, w, walk[i], got[walk[i]], AliveIn(w))
<1> DEFINE N == Len(walk)
           start == [worlds |-> worlds, pending |-> pending, mapping |-> Nothing, ok |-> TRUE]
           op(i, y) == Copied(y, x, v, w, walk[i], got[walk[i]], AliveIn(w))
           E(n, g) == [i \in 0..n |-> IF i = 0 THEN start ELSE op(i, g[i - 1])]
           P == {n \in Nat : \E g : g = E(n, g)}
           f == CHOOSE g : g = E(N, g)
<1>1. f = Copying(x, v, w, walk, got)
  BY DEF Copying
<1> HIDE DEF op, start
<1>2. 0 \in P
  <2> DEFINE g == [i \in 0..0 |-> start]
  <2>1. g = E(0, g)
    OBVIOUS
  <2> QED BY <2>1
<1>3. ASSUME NEW n \in Nat, n \in P
      PROVE  n + 1 \in P
  <2>1. PICK g : g = E(n, g)
    BY <1>3
  <2> DEFINE h == E(n + 1, g)
  <2>2. \A i \in 0..n : h[i] = g[i]
    BY <2>1
  <2>3. \A i \in 0..n + 1 : i # 0 => i - 1 \in 0..n
    BY <1>3
  <2>4. ASSUME NEW i \in 0..n + 1, i # 0
        PROVE  op(i, h[i - 1]) = op(i, g[i - 1])
    <3>1. h[i - 1] = g[i - 1]
      BY <2>2, <2>3, <2>4
    <3> QED BY <3>1
  <2>5. h = E(n + 1, h)
    BY <2>4, Zenon
  <2> HIDE DEF h
  <2>6. \E k : k = E(n + 1, k)
    BY <2>5, Zenon
  <2> QED BY <2>6
<1>4. \E g : g = E(N, g)
  <2> HIDE DEF P
  <2>1. N \in P
    BY <1>2, <1>3, Induction
  <2> QED BY <2>1 DEF P
<1>5. f = E(N, f)
  BY <1>4
<1> HIDE DEF f
<1>6. f[0] = start /\ \A i \in 1..N : f[i] = op(i, f[i - 1])
  BY <1>5
<1>7. /\ start.worlds = worlds /\ start.pending = pending /\ start.mapping = Nothing
      /\ DOMAIN start = CopyFields
  BY DEF start, CopyFields
<1> HIDE DEF start
<1> QED BY <1>1, <1>6, <1>7 DEF op

\* What the flush of the first copy destroys in the target, and of the source.
Gone(x, w) == IF x = w THEN pending[w] ELSE {}
Lost(x, v, w) == IF v = w THEN Gone(x, w) ELSE {}

\* What there is when the first i entities of the walk are copied: each that no
\* queued command destroyed has a copy of its own, an entity that was not there.
CopyInv(x, v, w, walk, acc, i) ==
  /\ acc.worlds = [u \in World |-> acc.worlds[u]]
  /\ \A u \in World : StoreOK(acc.worlds[u]) /\ (u # w => acc.worlds[u] = worlds[u])
  /\ acc.pending \in [World -> SUBSET EntityId]
  /\ x = w => acc.pending[w] = IF DOMAIN acc.mapping = {} THEN pending[w] ELSE {}
  /\ \A e \in DOMAIN acc.mapping :
       acc.mapping[e] \in EntityId \ AliveIn(w) /\ \E j \in 1..i : e = walk[j]
  /\ IsInjective(acc.mapping)
  /\ \A j \in 1..i : walk[j] \in DOMAIN acc.mapping \cup Lost(x, v, w)
  /\ DOMAIN acc.mapping # {} => AliveIn(w) \cap Gone(x, w) \cap DOMAIN acc.worlds[w] = {}
  /\ DOMAIN acc.worlds[w] \cup Gone(x, w) = AliveIn(w) \cup Range(acc.mapping) \cup Gone(x, w)
  /\ \A e \in AliveIn(w) \cap DOMAIN acc.worlds[w] : acc.worlds[w][e] = worlds[w][e]
  /\ \A e \in DOMAIN acc.mapping :
       acc.mapping[e] \notin Gone(x, w) => acc.worlds[w][acc.mapping[e]] = worlds[v][e]

\* A copy that is made is of an entity of the source, and is new in the target.
LEMMA CopiedFacts ==
  ASSUME WorldsOK, NEW x \in World, NEW v \in World, NEW w \in World,
         NEW walk, Len(walk) \in Nat, IsInjective(walk), DOMAIN walk = 1..Len(walk),
         \A j \in 1..Len(walk) : walk[j] \in AliveIn(v),
         NEW i \in Nat, i + 1 <= Len(walk),
         NEW acc, DOMAIN acc = CopyFields, NEW id \in EntityId,
         NEW new, new = Copied(acc, x, v, w, walk[i + 1], id, AliveIn(w))
  PROVE  /\ DOMAIN new = CopyFields
         /\ new.ok => acc.ok
         /\ new.ok /\ CopyInv(x, v, w, walk, acc, i) => CopyInv(x, v, w, walk, new, i + 1)
<1> DEFINE m == i + 1
           e == walk[m]
           gone == Gone(x, w)
           lost == Lost(x, v, w)
<1>1. m \in 1..Len(walk) /\ 1..m = 1..i \cup {m} /\ e \in AliveIn(v)
  OBVIOUS
<1>2. \A j \in 1..i : walk[j] # e
  <2>1. \A j \in 1..i : j \in DOMAIN walk /\ j # m
    OBVIOUS
  <2> QED BY <1>1, <2>1 DEF IsInjective
<1>3. e \in EntityId /\ AliveIn(w) = DOMAIN worlds[w] /\ AliveIn(v) = DOMAIN worlds[v]
  BY <1>1 DEF AliveIn, WorldsOK, StoreOK
<1> HIDE DEF m, e, gone, lost
<1>4. CASE e \notin DOMAIN acc.worlds[v]
  <2>1. new = [acc EXCEPT !.ok = @ /\ id = e]
    BY <1>4 DEF Copied, e, m
  <2>2. DOMAIN new = CopyFields /\ new.worlds = acc.worlds /\ new.pending = acc.pending
        /\ new.mapping = acc.mapping /\ new.ok = (acc.ok /\ id = e)
    BY <2>1 DEF CopyFields
  <2>3. ASSUME CopyInv(x, v, w, walk, acc, i)
        PROVE  CopyInv(x, v, w, walk, new, m)
    <3>1. e \in lost
      <4>1. v = w
        BY <1>1, <1>3, <1>4, <2>3 DEF CopyInv
      <4>2. e \in gone
        BY <1>1, <1>4, <2>3, <4>1 DEF CopyInv, gone
      <4> QED BY <4>1, <4>2 DEF lost, gone, Lost
    <3>2. \A j \in 1..m : walk[j] \in DOMAIN acc.mapping \cup lost
      BY <1>1, <2>3, <3>1 DEF CopyInv, lost, e
    <3>3. \A d \in DOMAIN acc.mapping : \E j \in 1..m : d = walk[j]
      <4>1. \A d \in DOMAIN acc.mapping : \E j \in 1..i : d = walk[j]
        BY <2>3 DEF CopyInv
      <4>2. \A j \in 1..i : j \in 1..m
        BY <1>1
      <4> QED BY <4>1, <4>2, Zenon
    <3> QED BY <2>2, <2>3, <3>2, <3>3 DEF CopyInv, gone, lost
  <2> QED BY <2>2, <2>3 DEF m
<1>5. CASE e \in DOMAIN acc.worlds[v]
  <2> DEFINE keep == x # w /\ e \notin DOMAIN acc.worlds[w]
             with == Put(acc.worlds[w], id, acc.worlds[v][e])
             left == IF x = w THEN Survivors(with, acc.pending[w]) ELSE with
             mapping == Put(acc.mapping, e, id)
  <2>1. /\ new.worlds = [acc.worlds EXCEPT ![w] = left]
        /\ new.pending = IF x = w THEN [acc.pending EXCEPT ![w] = {}] ELSE acc.pending
        /\ new.mapping = mapping
        /\ new.ok = (acc.ok /\ IF keep THEN id = e
                               ELSE id \notin AliveIn(w) \cup Range(acc.mapping)
                                              \cup DOMAIN acc.worlds[w])
        /\ DOMAIN new = CopyFields
    BY <1>5 DEF Copied, CopyFields, e, m
  <2>2. new.ok => acc.ok
    BY <2>1
  <2>3. ASSUME new.ok, CopyInv(x, v, w, walk, acc, i)
        PROVE  CopyInv(x, v, w, walk, new, m)
    <3> DEFINE store0 == acc.worlds[w]
    <3>1. id \notin DOMAIN store0 /\ id \notin AliveIn(w) /\ id \notin Range(acc.mapping)
      <4>1. CASE keep
        <5>1. id = e /\ x # w /\ e \notin DOMAIN store0
          BY <2>1, <2>3, <4>1
        <5>2. gone = {}
          BY <5>1 DEF gone, Gone
        <5>3. DOMAIN store0 = AliveIn(w) \cup Range(acc.mapping)
          BY <2>3, <5>2 DEF CopyInv, gone
        <5> QED BY <5>1, <5>3
      <4>2. CASE ~keep
        BY <2>1, <2>3, <4>2
      <4> QED BY <4>1, <4>2
    <3>2. e \notin DOMAIN acc.mapping
      BY <1>2, <2>3 DEF CopyInv
    <3>3. acc.worlds[v][e] = worlds[v][e] /\ Fits(worlds[v][e])
      <4>1. v = w => acc.worlds[v][e] = worlds[v][e]
        BY <1>1, <1>5, <2>3 DEF CopyInv
      <4>2. v # w => acc.worlds[v][e] = worlds[v][e]
        BY <2>3 DEF CopyInv
      <4>3. Fits(worlds[v][e])
        BY <1>1, <1>3 DEF WorldsOK, StoreOK
      <4> QED BY <4>1, <4>2, <4>3
    <3>4. /\ DOMAIN with = DOMAIN store0 \cup {id} /\ with[id] = worlds[v][e]
          /\ \A d \in DOMAIN store0 : with[d] = store0[d]
      BY <3>1, <3>3 DEF Put
    <3> HIDE DEF with
    <3>5. /\ DOMAIN mapping = DOMAIN acc.mapping \cup {e} /\ mapping[e] = id
          /\ \A d \in DOMAIN acc.mapping : mapping[d] = acc.mapping[d]
      BY <3>2 DEF Put
    <3> HIDE DEF mapping
    <3>6. Range(mapping) = Range(acc.mapping) \cup {id}
      BY <3>2, <3>5 DEF Range
    <3>7. IsInjective(mapping)
      <4>1. \A d \in DOMAIN acc.mapping : acc.mapping[d] # id
        BY <3>1 DEF Range
      <4> QED BY <2>3, <3>5, <4>1 DEF CopyInv, IsInjective
    <3>8. /\ \A d \in DOMAIN left : d \in DOMAIN with /\ left[d] = with[d]
          /\ DOMAIN left \cup gone = DOMAIN with \cup gone
      <4>1. CASE x = w
        <5>1. left = [d \in DOMAIN with \ acc.pending[w] |-> with[d]]
          BY <4>1 DEF Survivors, Restrict
        <5>2. acc.pending[w] \subseteq gone
          BY <2>3, <4>1 DEF CopyInv, gone, Gone
        <5> QED BY <5>1, <5>2
      <4>2. CASE x # w
        BY <4>2
      <4> QED BY <4>1, <4>2
    <3>19. x = w /\ DOMAIN acc.mapping = {} => DOMAIN left \cap gone = {}
      <4> SUFFICES ASSUME x = w, DOMAIN acc.mapping = {}
                   PROVE  DOMAIN left \cap gone = {}
        OBVIOUS
      <4>1. acc.pending[w] = gone
        BY <2>3 DEF CopyInv, gone, Gone
      <4> QED BY <4>1 DEF Survivors, Restrict
    <3> HIDE DEF left
    <3>9. StoreOK(left)
      <4>1. StoreOK(store0)
        BY <2>3 DEF CopyInv
      <4> QED BY <3>3, <3>4, <3>8, <4>1 DEF StoreOK
    <3>10. /\ new.worlds[w] = left /\ new.worlds = [u \in World |-> new.worlds[u]]
           /\ \A u \in World : u # w => new.worlds[u] = acc.worlds[u]
      BY <2>1, <2>3 DEF CopyInv
    <3>11. \A u \in World : StoreOK(new.worlds[u]) /\ (u # w => new.worlds[u] = worlds[u])
      BY <2>3, <3>9, <3>10 DEF CopyInv
    <3>12. new.pending \in [World -> SUBSET EntityId] /\ (x = w => new.pending[w] = {})
      <4>1. acc.pending \in [World -> SUBSET EntityId]
        BY <2>3 DEF CopyInv
      <4> QED BY <2>1, <4>1
    <3>13. \A d \in DOMAIN mapping :
             mapping[d] \in EntityId \ AliveIn(w) /\ \E j \in 1..m : d = walk[j]
      <4>1. \A d \in DOMAIN acc.mapping : \E j \in 1..m : d = walk[j]
        <5>1. \A d \in DOMAIN acc.mapping : \E j \in 1..i : d = walk[j]
          BY <2>3 DEF CopyInv
        <5>2. \A j \in 1..i : j \in 1..m
          BY <1>1
        <5> QED BY <5>1, <5>2, Zenon
      <4>2. e = walk[m] /\ m \in 1..m
        BY <1>1 DEF e
      <4> QED BY <2>3, <3>1, <3>5, <4>1, <4>2 DEF CopyInv
    <3>14. \A j \in 1..m : walk[j] \in DOMAIN mapping \cup lost
      BY <1>1, <2>3, <3>5 DEF CopyInv, lost, e
    <3>15. DOMAIN left \cup gone = AliveIn(w) \cup Range(mapping) \cup gone
      <4>1. DOMAIN store0 \cup gone = AliveIn(w) \cup Range(acc.mapping) \cup gone
        BY <2>3 DEF CopyInv, gone
      <4> QED BY <3>4, <3>6, <3>8, <4>1
    <3>16. \A d \in AliveIn(w) \cap DOMAIN left : left[d] = worlds[w][d]
      <4>1. \A d \in AliveIn(w) \cap DOMAIN store0 : store0[d] = worlds[w][d]
        BY <2>3 DEF CopyInv
      <4> QED BY <3>1, <3>4, <3>8, <4>1
    <3>17. ASSUME NEW d \in DOMAIN mapping, mapping[d] \notin gone
           PROVE  left[mapping[d]] = worlds[v][d]
      <4>1. mapping[d] \in DOMAIN left
        BY <3>15, <3>17 DEF Range
      <4>2. left[mapping[d]] = with[mapping[d]]
        BY <3>8, <4>1
      <4>3. CASE d = e
        BY <3>4, <3>5, <4>2, <4>3
      <4>4. CASE d \in DOMAIN acc.mapping
        <5>1. mapping[d] = acc.mapping[d] /\ mapping[d] # id
          BY <3>1, <3>5, <4>4 DEF Range
        <5>2. mapping[d] \in DOMAIN store0
          BY <3>4, <3>8, <4>1, <5>1
        <5>3. store0[mapping[d]] = worlds[v][d]
          BY <2>3, <3>17, <4>4, <5>1 DEF CopyInv, gone
        <5> QED BY <3>4, <4>2, <5>2, <5>3
      <4> QED BY <3>5, <4>3, <4>4
    <3>18. AliveIn(w) \cap gone \cap DOMAIN left = {}
      <4>1. CASE DOMAIN acc.mapping # {}
        <5>1. AliveIn(w) \cap gone \cap DOMAIN store0 = {}
          BY <2>3, <4>1 DEF CopyInv, gone
        <5> QED BY <3>1, <3>4, <3>8, <5>1
      <4>2. CASE DOMAIN acc.mapping = {} /\ x = w
        BY <3>19, <4>2
      <4>3. CASE x # w
        BY <4>3 DEF gone, Gone
      <4> QED BY <4>1, <4>2, <4>3
    <3>20. x = w => new.pending[w] = IF DOMAIN mapping = {} THEN pending[w] ELSE {}
      BY <3>5, <3>12
    <3> HIDE DEF store0
    <3>21. new.mapping = mapping /\ new.worlds[w] = left
      BY <2>1, <3>10
    <3> QED BY <3>7, <3>10, <3>11, <3>12, <3>13, <3>14, <3>15, <3>16, <3>17, <3>18, <3>20, <3>21
         DEF CopyInv, gone, lost
  <2> QED BY <2>1, <2>2, <2>3 DEF m
<1> QED BY <1>4, <1>5

\* The walk of a merge keeps its invariant, if the ids are those the world gives.
LEMMA CopyingInvariant ==
  ASSUME WorldsOK, NEW x \in World, NEW v \in World, NEW w \in World,
         NEW walk, Len(walk) \in Nat, IsInjective(walk), DOMAIN walk = 1..Len(walk),
         \A j \in 1..Len(walk) : walk[j] \in AliveIn(v),
         NEW got, \A j \in 1..Len(walk) : got[walk[j]] \in EntityId,
         Copying(x, v, w, walk, got)[Len(walk)].ok
  PROVE  CopyInv(x, v, w, walk, Copying(x, v, w, walk, got)[Len(walk)], Len(walk))
<1> DEFINE N == Len(walk)
           f == Copying(x, v, w, walk, got)
           P == {i \in Nat : i <= N => /\ DOMAIN f[i] = CopyFields
                                       /\ f[i].ok => CopyInv(x, v, w, walk, f[i], i)}
<1>1. /\ f[0].worlds = worlds /\ f[0].pending = pending /\ f[0].mapping = Nothing
      /\ DOMAIN f[0] = CopyFields
      /\ \A i \in 1..N : f[i] = Copied(f[i - 1], x, v, w, walk[i], got[walk[i]], AliveIn(w))
  BY ONLY Len(walk) \in Nat, CopyingFacts
<1>2. f[N].ok
  OBVIOUS
<1> HIDE DEF f
<1>3. 0 \in P
  <2>2. DOMAIN Nothing = {} /\ Range(Nothing) = {} /\ IsInjective(Nothing)
    BY DEF Nothing, Range, IsInjective
  <2>3. CopyInv(x, v, w, walk, f[0], 0)
    BY <1>1, <2>2 DEF CopyInv, WorldsOK, AliveIn
  <2> QED BY <1>1, <2>3
<1>4. ASSUME NEW i \in Nat, i \in P
      PROVE  i + 1 \in P
  <2> SUFFICES ASSUME i + 1 <= N
               PROVE  /\ DOMAIN f[i + 1] = CopyFields
                      /\ f[i + 1].ok => CopyInv(x, v, w, walk, f[i + 1], i + 1)
    OBVIOUS
  <2>1. i + 1 \in 1..N /\ (i + 1) - 1 = i /\ i <= N
    OBVIOUS
  <2>2. f[i + 1] = Copied(f[i], x, v, w, walk[i + 1], got[walk[i + 1]], AliveIn(w))
    BY <1>1, <2>1
  <2>3. DOMAIN f[i] = CopyFields /\ (f[i].ok => CopyInv(x, v, w, walk, f[i], i))
    BY <1>4, <2>1
  <2>4. got[walk[i + 1]] \in EntityId
    BY <2>1
  <2>5. /\ DOMAIN f[i + 1] = CopyFields
        /\ f[i + 1].ok => f[i].ok
        /\ f[i + 1].ok /\ CopyInv(x, v, w, walk, f[i], i) => CopyInv(x, v, w, walk, f[i + 1], i + 1)
    BY <2>2, <2>3, <2>4, CopiedFacts
  <2> QED BY <2>3, <2>5
<1> HIDE DEF P
<1>5. N \in P
  BY <1>3, <1>4, Induction
<1> QED BY <1>2, <1>5 DEF P, f

\* A walk over a finite set visits each of its elements once.
LEMMA WalkFacts ==
  ASSUME NEW S, IsFiniteSet(S), NEW walk \in SetToSeqs(S)
  PROVE  /\ Len(walk) \in Nat /\ DOMAIN walk = 1..Len(walk)
         /\ IsInjective(walk) /\ Range(walk) = S
<1> DEFINE n == Cardinality(S)
<1>1. n \in Nat
  BY FS_CardinalityType
<1>2. walk \in [1..n -> S] /\ \A i, j \in 1..n : i # j => walk[i] # walk[j]
  BY DEF SetToSeqs
<1>3. Cardinality(1..n) = n
  <2> HIDE DEF n
  <2>1. Cardinality(1..n) = IF 1 > n THEN 0 ELSE n - 1 + 1
    BY <1>1, FS_Interval
  <2> QED BY <1>1, <2>1
<1> HIDE DEF n
<1>4. walk \in Injection(1..n, S)
  BY <1>2 DEF Injection, IsInjective
<1>5. walk \in Surjection(1..n, S)
  BY <1>3, <1>4, FS_Injection DEF n
<1>6. Range(walk) = S
  BY <1>2, <1>5 DEF Surjection, Range
<1>7. walk \in Seq(S) /\ Len(walk) = n /\ DOMAIN walk = 1..n
  BY <1>1, <1>2
<1> QED BY <1>1, <1>2, <1>6, <1>7 DEF IsInjective

\* A merge copies what no queued command destroys, and keeps all else.
MergedWell(x, v, w) ==
  LET map == result'.mapping
      gone == Gone(x, w)
  IN  /\ result'.entities \ Lost(x, v, w) \subseteq DOMAIN map
      /\ IsInjective(map) /\ Range(map) \cap AliveIn(w) = {}
      /\ DOMAIN worlds'[w] \cup gone = AliveIn(w) \cup Range(map) \cup gone
      /\ DOMAIN map # {} => AliveIn(w) \cap gone \cap DOMAIN worlds'[w] = {}
      /\ x = w /\ DOMAIN map # {} => pending'[w] = {}
      /\ \A e \in AliveIn(w) \cap DOMAIN worlds'[w] : worlds'[w][e] = worlds[w][e]
      /\ \A e \in DOMAIN map : map[e] \notin gone => worlds'[w][map[e]] = worlds[v][e]
      /\ v # w => worlds'[v] = worlds[v]

\* A merge copies the entities of the source and keeps those of the target.
LEMMA MergeStep ==
  ASSUME BulkInv, NEW x \in World, NEW v \in World, NEW w \in World,
         NEW entities, entities \subseteq AliveIn(v), CopyAll(x, v, w, entities)
  PROVE  /\ BulkInv' /\ result'.op = "merge" /\ result'.by = x /\ result'.from = v /\ result'.world = w
         /\ MergedWell(x, v, w)
<1>1. PICK walk \in SetToSeqs(entities) : \E got \in [entities -> EntityId] :
        LET end == Copying(x, v, w, walk, got)[Len(walk)] IN
        /\ end.ok
        /\ worlds' = end.worlds /\ pending' = end.pending
        /\ result' = [op |-> "merge", by |-> x, from |-> v, world |-> w, entities |-> entities,
                      mapping |-> end.mapping, remapped |-> FALSE,
                      given |-> Given(end.worlds[w], Range(end.mapping))]
        /\ UNCHANGED registry
  BY Zenon DEF CopyAll
<1>2. PICK got \in [entities -> EntityId] :
        LET end == Copying(x, v, w, walk, got)[Len(walk)] IN
        /\ end.ok
        /\ worlds' = end.worlds /\ pending' = end.pending
        /\ result' = [op |-> "merge", by |-> x, from |-> v, world |-> w, entities |-> entities,
                      mapping |-> end.mapping, remapped |-> FALSE,
                      given |-> Given(end.worlds[w], Range(end.mapping))]
        /\ UNCHANGED registry
  BY <1>1, Zenon
<1> DEFINE N == Len(walk)
           end == Copying(x, v, w, walk, got)[N]
<1>3. WorldsOK /\ RegistryOK(Current)
  BY DEF BulkInv
<1>4. IsFiniteSet(entities)
  <2>1. AliveIn(v) \subseteq EntityId
    BY <1>3 DEF WorldsOK, StoreOK, AliveIn
  <2> QED BY <2>1, FS_Subset, SpawnDataAssumption
<1>5. N \in Nat /\ DOMAIN walk = 1..N /\ IsInjective(walk) /\ Range(walk) = entities
  BY <1>4, WalkFacts
<1>6. \A j \in 1..N : walk[j] \in entities /\ walk[j] \in AliveIn(v) /\ got[walk[j]] \in EntityId
  BY <1>5 DEF Range
<1>7. CopyInv(x, v, w, walk, end, N)
  BY <1>2, <1>3, <1>5, <1>6, CopyingInvariant
<1> HIDE DEF end
<1>8. /\ worlds' = end.worlds /\ pending' = end.pending
      /\ result'.op = "merge" /\ result'.by = x /\ result'.from = v /\ result'.world = w
      /\ result'.entities = entities /\ result'.mapping = end.mapping /\ result'.remapped = FALSE
      /\ result'.given = Given(end.worlds[w], Range(end.mapping))
      /\ {"op", "world", "mapping", "remapped", "given"} \subseteq DOMAIN result'
      /\ UNCHANGED registry
  BY <1>2 DEF end
<1> HIDE DEF N
<1>9. WorldsOK'
  <2>1. /\ worlds' = [u \in World |-> worlds'[u]] /\ \A u \in World : StoreOK(worlds'[u])
        /\ pending' \in [World -> SUBSET EntityId]
    BY <1>7, <1>8 DEF CopyInv
  <2> QED BY <1>8, <2>1, WorldsKept
<1>10. GivenKept'
  BY <1>8, GivenNow
<1>11. ResultOK'
  <2>1. \A k \in DOMAIN result'.mapping : result'.mapping[k] \in EntityId
    BY <1>7, <1>8 DEF CopyInv
  <2> QED BY <1>8, <1>10, <2>1 DEF ResultOK
<1>12. ParentsAttached' /\ ReferencesFollow'
  BY <1>8 DEF ParentsAttached, ReferencesFollow
<1>13. RegistryOK(Current)'
  BY <1>3, <1>8 DEF registry, Current, RegistryOK
<1>14. MergedWell(x, v, w)
  <2>1. entities \ Lost(x, v, w) \subseteq DOMAIN end.mapping
    <3> SUFFICES ASSUME NEW e \in entities, e \notin Lost(x, v, w)
                 PROVE  e \in DOMAIN end.mapping
      OBVIOUS
    <3>1. PICK j \in 1..N : walk[j] = e
      BY <1>5 DEF Range
    <3> QED BY <1>7, <3>1 DEF CopyInv
  <2>2. Range(end.mapping) \cap AliveIn(w) = {}
    BY <1>7 DEF CopyInv, Range
  <2>3. v # w => worlds'[v] = worlds[v]
    BY <1>7, <1>8 DEF CopyInv
  <2>4. /\ IsInjective(end.mapping)
        /\ DOMAIN end.mapping # {} => AliveIn(w) \cap Gone(x, w) \cap DOMAIN end.worlds[w] = {}
        /\ x = w /\ DOMAIN end.mapping # {} => end.pending[w] = {}
        /\ DOMAIN end.worlds[w] \cup Gone(x, w) = AliveIn(w) \cup Range(end.mapping) \cup Gone(x, w)
        /\ \A e \in AliveIn(w) \cap DOMAIN end.worlds[w] : end.worlds[w][e] = worlds[w][e]
        /\ \A e \in DOMAIN end.mapping :
             end.mapping[e] \notin Gone(x, w) => end.worlds[w][end.mapping[e]] = worlds[v][e]
    BY <1>7 DEF CopyInv
  <2> QED BY <1>8, <2>1, <2>2, <2>3, <2>4 DEF MergedWell
<1> QED BY <1>8, <1>9, <1>11, <1>12, <1>13, <1>14 DEF BulkInv

(***************************************************************************)
(* The specification.                                                      *)
(***************************************************************************)

\* A process starts without types, entities and commands.
LEMMA BulkInitial == BulkInit => BulkInv
<1> SUFFICES ASSUME BulkInit PROVE BulkInv
  OBVIOUS
<1>1. schemas = <<>> /\ DOMAIN idByName = {} /\ idByName = [n \in {} |-> 0]
  BY DEF BulkInit, RegistryInit
<1>2. RegistryOK(Current)
  <2>1. idByName \in [{} -> DOMAIN schemas]
    BY <1>1
  <2>2. Current.schemas = schemas /\ Current.ids = idByName
        /\ Current = [schemas |-> Current.schemas, ids |-> Current.ids]
    BY DEF Current
  <2>3. schemas \in Seq(Range(schemas))
    BY <1>1
  <2> QED BY <1>1, <2>1, <2>2, <2>3 DEF RegistryOK
<1>3. WorldsOK
  <2>1. StoreOK(Nothing)
    BY DEF StoreOK, Nothing
  <2> QED BY <2>1 DEF BulkInit, WorldsOK
<1>4. ResultOK /\ ParentsAttached /\ ReferencesFollow
  BY DEF BulkInit, ResultOK, ParentsAttached, ReferencesFollow
<1> QED BY <1>2, <1>3, <1>4 DEF BulkInv

\* Batches are sequences of records with bundles; spawn() makes one of them.
LEMMA BatchesOK ==
  /\ \A batch \in Batches : BatchOK(batch)
  /\ \A bundle \in Bundles : BatchOK(<<[id |-> NoKey, parent |-> NoKey, components |-> bundle]>>)
<1>1. ASSUME NEW batch \in Batches
      PROVE  BatchOK(batch)
  <2>1. batch \in Seq(Range(batch)) /\ \A r \in Range(batch) : IsBundle(r.components)
    BY SpawnDataAssumption
  <2>2. Len(batch) \in Nat /\ DOMAIN batch = 1..Len(batch)
    BY <2>1
  <2>3. \A i \in 1..Len(batch) : batch[i] \in Range(batch)
    BY <2>2 DEF Range
  <2> QED BY <2>1, <2>2, <2>3 DEF BatchOK
<1>2. ASSUME NEW bundle \in Bundles
      PROVE  BatchOK(<<[id |-> NoKey, parent |-> NoKey, components |-> bundle]>>)
  <2> DEFINE r == [id |-> NoKey, parent |-> NoKey, components |-> bundle]
  <2>1. IsBundle(bundle)
    BY SpawnDataAssumption
  <2>2. r.components = bundle
    OBVIOUS
  <2> HIDE DEF r
  <2>3. Len(<<r>>) = 1 /\ DOMAIN <<r>> = 1..1 /\ <<r>>[1] = r
    OBVIOUS
  <2>4. BatchOK(<<r>>)
    BY <2>1, <2>2, <2>3 DEF BatchOK
  <2> QED BY <2>4 DEF r
<1> QED BY <1>1, <1>2

\* A step that makes entities makes those it reports, and fails without a trace.
SpawnsWell ==
  /\ result'.op = "spawn" /\ calls' # calls => SpawnedWell(result'.world)
  /\ result'.op = "create" /\ result'.entity = 0 => worlds' = worlds

\* A merge copies what it should.
MergesWell ==
  result'.op = "merge" /\ calls' # calls => MergedWell(result'.by, result'.from, result'.world)

\* Every call keeps the invariant, and so does the remapping of references.
LEMMA BulkStep ==
  ASSUME BulkInv, BulkNext
  PROVE  BulkInv' /\ SpawnsWell /\ MergesWell
<1>1. CASE RegistryNext /\ result' = [op |-> "none"] /\ UNCHANGED <<worlds, pending>>
  BY <1>1, RegisterStep DEF SpawnsWell, MergesWell
<1>2. ASSUME NEW w \in World, NEW batch \in Batches, SpawnFromData(w, batch)
      PROVE  BulkInv' /\ SpawnsWell /\ MergesWell
  BY <1>2, BatchesOK, SpawnStep DEF SpawnsWell, MergesWell
<1>3. ASSUME NEW w \in World, NEW bundle \in Bundles, Spawn(w, bundle)
      PROVE  BulkInv' /\ SpawnsWell /\ MergesWell
  <2> DEFINE batch == <<[id |-> NoKey, parent |-> NoKey, components |-> bundle]>>
  <2>1. BatchOK(batch) /\ SpawnFromData(w, batch)
    BY <1>3, BatchesOK DEF Spawn
  <2> HIDE DEF batch
  <2> QED BY <2>1, SpawnStep DEF SpawnsWell, MergesWell
<1>4. ASSUME NEW w \in World, NEW bundle \in Bundles, NEW defId \in EntityId \cup {0},
             CreateWithComponents(w, defId, bundle)
      PROVE  BulkInv' /\ SpawnsWell /\ MergesWell
  <2>1. result'.op = "create"
    BY <1>4 DEF CreateWithComponents
  <2> QED BY <1>4, <2>1, CreateStep DEF SpawnsWell, MergesWell
<1>5. ASSUME NEW w \in World, NEW e \in AliveIn(w), Destroy(w, e) \/ QueueDestroy(w, e)
      PROVE  BulkInv' /\ SpawnsWell /\ MergesWell
  <2>1. result' = [op |-> "none"]
    BY <1>5 DEF Destroy, QueueDestroy
  <2> QED BY <1>5, <2>1, DestroyStep DEF SpawnsWell, MergesWell
<1>6. ASSUME NEW x \in World, NEW v \in World, NEW w \in World,
             NEW entities, entities \subseteq AliveIn(v), CopyAll(x, v, w, entities)
      PROVE  BulkInv' /\ SpawnsWell /\ MergesWell
  BY <1>6, MergeStep DEF SpawnsWell, MergesWell
<1>7. ASSUME NEW x \in World, NEW v \in World, NEW w \in World, NEW e \in AliveIn(v),
             CopyEntityTo(x, v, e, w)
      PROVE  BulkInv' /\ SpawnsWell /\ MergesWell
  <2>1. {e} \subseteq AliveIn(v) /\ CopyAll(x, v, w, {e})
    BY <1>7 DEF CopyEntityTo
  <2> QED BY <2>1, <1>6
<1>8. ASSUME NEW v \in World, NEW w \in World, MergeWorld(v, w)
      PROVE  BulkInv' /\ SpawnsWell /\ MergesWell
  BY <1>6, <1>8 DEF MergeWorld
<1>9. CASE RemapReferences
  <2>1. result'.op \in {"spawn", "merge"}
    BY <1>9 DEF RemapReferences, BulkInv, ResultOK
  <2> QED BY <1>9, <2>1, RemapStep DEF SpawnsWell, MergesWell
<1> QED BY <1>1, <1>2, <1>3, <1>4, <1>5, <1>7, <1>8, <1>9 DEF BulkNext, Call

\* So does a step that changes nothing.
LEMMA BulkStutter ==
  ASSUME BulkInv, UNCHANGED bulkVars
  PROVE  BulkInv'
<1>1. /\ UNCHANGED registry /\ schemas' = schemas /\ idByName' = idByName
      /\ worlds' = worlds /\ pending' = pending /\ result' = result
  BY DEF bulkVars, registry
<1>2. /\ \A n : HasNumber(n)' = HasNumber(n) /\ NumberField(n)' = NumberField(n)
      /\ \A comps : ParentComponent(comps)' = ParentComponent(comps)
  BY <1>1 DEF HasNumber, NumberField, NumberFields, SchemaOf, ParentComponent, HasField
<1>3. RegistryOK(Current)'
  BY <1>1 DEF BulkInv, RegistryOK, Current
<1>4. WorldsOK'
  BY <1>1, WorldsKept DEF BulkInv, WorldsOK
<1>5. ResultOK'
  BY <1>1, <1>2 DEF BulkInv, ResultOK, GivenKept
<1>6. ReferencesFollow'
  BY <1>1, <1>2 DEF BulkInv, ReferencesFollow, Stored
<1>7. ParentsAttached'
  <2>1. \A i : ParentComponent(result.batch[i].components)' = ParentComponent(result.batch[i].components)
    BY <1>1 DEF ParentComponent, HasField, SchemaOf
  <2> QED BY <1>1, <1>2, <2>1 DEF BulkInv, ParentsAttached, Key
<1> QED BY <1>3, <1>4, <1>5, <1>6, <1>7 DEF BulkInv

\* The invariant holds for every number of worlds, entities, types and calls.
THEOREM BulkInvariant == BulkSpec => []BulkInv
<1>1. BulkInv /\ [BulkNext]_bulkVars => BulkInv'
  BY BulkStep, BulkStutter
<1> QED BY BulkInitial, <1>1, PTL DEF BulkSpec

\* Every component in a world is of a type that is registered, and holds what
\* the field of that type can hold; every name leads to a type of that name.
THEOREM BulkTypes == BulkSpec => []BulkTypeOK
<1>1. BulkInv => BulkTypeOK
  <2> SUFFICES ASSUME BulkInv PROVE BulkTypeOK
    OBVIOUS
  <2>1. Current.schemas = schemas /\ Current.ids = idByName
    BY DEF Current
  <2>2. /\ idByName \in [DOMAIN idByName -> DOMAIN schemas]
        /\ \A n \in DOMAIN idByName : SchemaOf(n).name = n
    BY <2>1 DEF BulkInv, RegistryOK, SchemaOf
  <2>3. pending \in [World -> SUBSET EntityId] /\ \A w \in World : StoreOK(worlds[w])
    BY DEF BulkInv, WorldsOK
  <2> QED BY <2>2, <2>3 DEF BulkTypeOK, StoreOK, Fits
<1> QED BY BulkInvariant, <1>1, PTL

\* align_up() and the padding of the size keep every field of every row of a
\* column in its place, whatever fields are declared.
THEOREM LayoutsSound == BulkSpec => []LayoutSound
<1>1. BulkInv => LayoutSound
  <2> SUFFICES ASSUME BulkInv PROVE LayoutSound
    OBVIOUS
  <2>1. Current.schemas = schemas /\ Current.ids = idByName
    BY DEF Current
  <2>2. \A n \in DOMAIN idByName : Sound(SchemaOf(n))
    BY <2>1 DEF BulkInv, RegistryOK, SchemaOf
  <2> QED BY <2>2 DEF LayoutSound, Sound
<1> QED BY BulkInvariant, <1>1, PTL

\* A batch attaches every child whose record was not skipped, nor one before it.
THEOREM ChildrenAttached == BulkSpec => []ParentsAttached
<1>1. BulkInv => ParentsAttached
  BY DEF BulkInv
<1> QED BY BulkInvariant, <1>1, PTL

\* Remapped once, a reference leads to the copy of what it led to.
THEOREM RemappedOnce == BulkSpec => []ReferencesFollow
<1>1. BulkInv => ReferencesFollow
  BY DEF BulkInv
<1> QED BY BulkInvariant, <1>1, PTL

\* A batch leaves the entities it reports, and nothing of a record it skips.
THEOREM BatchesLeaveNoGhosts == BulkSpec => NoGhosts
<1>1. BulkInv /\ [BulkNext]_bulkVars => [SpawnsWell]_bulkVars
  BY BulkStep
<1>2. SpawnsWell =>
        /\ result'.op = "spawn" /\ calls' # calls => LET w == result'.world
                                          made == result'.made IN
              /\ IsInjective(made) /\ Range(result'.out) = Range(made)
              /\ Range(made) \cap AliveIn(w) = {}
              /\ DOMAIN worlds'[w] = AliveIn(w) \cup Range(made)
              /\ \A e \in AliveIn(w) : worlds'[w][e] = worlds[w][e]
              /\ \A i \in DOMAIN made :
                   DOMAIN worlds'[w][made[i]] = DOMAIN result'.batch[i].components
        /\ result'.op = "create" /\ result'.entity = 0 => worlds' = worlds
  BY DEF SpawnsWell, SpawnedWell
<1> QED BY BulkInvariant, <1>1, <1>2, PTL DEF BulkSpec, NoGhosts

\* A merge copies every entity that no queued command destroys, keeps the
\* entities of both worlds, and destroys just what was queued for the target.
THEOREM MergesCopyAll == BulkSpec => MergeCopiesAll
<1>1. BulkInv /\ [BulkNext]_bulkVars => [MergesWell]_bulkVars
  BY BulkStep
<1>2. MergesWell =>
        (result'.op = "merge" /\ calls' # calls =>
           LET x == result'.by
               v == result'.from
               w == result'.world
               map == result'.mapping
               gone == IF x = w THEN pending[w] ELSE {}
           IN  /\ result'.entities \ (IF v = w THEN gone ELSE {}) \subseteq DOMAIN map
               /\ IsInjective(map) /\ Range(map) \cap AliveIn(w) = {}
               /\ DOMAIN worlds'[w] \cup gone = AliveIn(w) \cup Range(map) \cup gone
               /\ DOMAIN map # {} => AliveIn(w) \cap gone \cap DOMAIN worlds'[w] = {}
               /\ x = w /\ DOMAIN map # {} => pending'[w] = {}
               /\ \A e \in AliveIn(w) \cap DOMAIN worlds'[w] : worlds'[w][e] = worlds[w][e]
               /\ \A e \in DOMAIN map : map[e] \notin gone => worlds'[w][map[e]] = worlds[v][e]
               /\ v # w => worlds'[v] = worlds[v])
  BY DEF MergesWell, MergedWell, Gone, Lost
<1> QED BY BulkInvariant, <1>1, <1>2, PTL DEF BulkSpec, MergeCopiesAll
=============================================================================

# A TLA+ verification of VortarisECS

VortarisECS is an entity-component-system for Godot 4, a C++ GDExtension. A
`World` holds entities, which are 64-bit ids, and stores their components in
archetypes, one table for each set of component types. Scripts reach it
through `VECSWorld`; around it stand deferred structural changes, change
detection, observers, systems, snapshots and network replication.

The extension runs on one thread by contract. What makes it hard to get right
is not parallelism but

* **re-entrancy**: event callbacks, query predicates and systems run in the
  middle of an operation and call back into the world;
* **ids that come back**: slots are recycled, pooled, named by the caller and
  overwritten by a load;
* **two clocks**: operations recorded now and applied later, versions and log
  positions compared with a baseline taken earlier;
* **stale state**: row numbers, archetype pointers, cached lists, membership
  sets kept by hand;
* **packets**: spawns, deltas, despawns and full states applied by a client
  whose world differs from what the sender assumed;
* **save and load** on a world that already holds entities.

Paths below are relative to `src/src/` unless they start with `src/`.

## 1. The system

| Component | State | Operations | Talks to | Correct when |
|---|---|---|---|---|
| **Entity ids** (`core/world.cpp`, `entity.h`) | `slot_generations_`, `free_slots_`, `pool_slots_`, the keys of `entity_locations_` | create, create preassigned, create/destroy pooled, destroy, set range, clear, reset | called by everything that creates | no slot has two owners; a stale handle stays rejected |
| **World storage** (`core/world.cpp`, `archetype.*`, `column.h`) | archetypes with rows and columns, `entity_locations_`, `iteration_depth_` | add/remove component, overwrite, move between archetypes, compact, clear, reset, walks | ids; raises events | locations and rows agree; an operation touches one entity only; rows stay put under a walk |
| **Change tracking** (`world.h` ChangeView, `column.h`, `gdscript/vecs_query_builder.cpp`) | change clock, row versions, `max_version_`, the write log with its generation, baselines | write, mark_changed, advance, take, execute with `changed()`, log halving | storage, query cache | every write since the last look is reported, nothing else |
| **Query cache** (`core/query.*`) | lists of matching archetypes per signature | match, invalidate | storage | the list is the match |
| **Command buffer and flush** (`core/command_buffer.*`, `world.cpp` 374-405, 613-703) | queue, `pending_ops_`, `deferred_entities_`, `pending_destroy_` | queue, execute, commit | storage, observers | the batch ends as if applied in order; events are net |
| **Observer dispatch** (`core/observer_dispatch.*`) | an immutable list of callbacks, replaced at every change; `next_id_` | add, remove, clear, dispatch | everything that subscribes | each callback that was registered when an event was fired is called once, in order, whatever the callbacks do to the list |
| **VECSObserver** (`gdscript/vecs_observer.*`) | its id, its world, the set of matching entities | handle an event, evaluate a match, seed | dispatch, user code, command buffer | the set is that of the entities that match; nobody calls a freed node |
| **Registry and schemas** (`core/component_registry.*`) | types by id and by name, field layouts; one for the process | register, from code or a CSV table | all | a name keeps its id and an id its layout; layouts are aligned and disjoint |
| **VECSWorld facade** (`gdscript/vecs_world.*`) | the core world, field and event subscriptions | spawn from data, copy, merge, remap, process, save, load | all | bulk operations leave no half-made entity; references lead to the copies |
| **Scheduler and systems** (`gdscript/vecs_scheduler.*`, `vecs_system.*`) | systems by group, order cache, times of the last runs | add, remove, process, clear | world, commands | constraints kept if they can be; commands flushed as asked; no system starves |
| **Binary and JSON save** (`serialization/*`, `vecs_world.cpp` 1107-1330) | the file | save, load, restore a backup | ids, storage | a load ends with the save or with what a JSON string keeps of the world it found |
| **Network replication** (`network/network_sync.*`) | tracked, dirty, pending spawns and despawns, send times per bucket, replicated entities of a client | event handlers, tick, apply packet, full state | storage, observer dispatch, RPC | clients come to agree with the server |
| Script wrappers, reflection, settings, log, demo | none of their own | | | |

Interactions are direct calls, with one exception: events. Every structural
change and every write dispatches an event synchronously, from inside the
operation, to whoever registered; the network, the observers and the field
subscriptions live off them. The command buffer exists because callbacks and
walks must not change the structure under the operation that called them. Loads
bypass the events: `clear()` raises a single `world_cleared`.

## 2. Modules

| Module | Models | Status |
|---|---|---|
| `EntityIds` | the id allocator | every operation |
| `EntityStore` | abstract: a partial map from entities to components | |
| `World` | archetypes, rows, locations, the iteration guard; its steps on ids are steps of `EntityIds` (`Ids == INSTANCE`) | refines `EntityStore` |
| `ChangeTracking` | clock, versions, log, ChangeView, `changed()` query | |
| `CommandBuffer` | queue, recording, commit, events, nested flushes | |
| `Snapshot` | save, load, restore, restarts; its steps on ids are steps of `EntityIds` | |
| `Replication` | server, ordered channel, one client | |
| `Observers` | dispatch, `VECSObserver` membership, field subscriptions, callbacks that call back | |
| `Scheduler` | groups, order, intervals, flushes, `process()` inside `process()` | every operation |
| `Registry` | component types, their layout, CSV tables | scripts' operations |
| `SpawnData` | spawning from data, copying, merging, remapping; extends `Registry` | |
| `EntityIds_proofs`, `World_proofs` | theorems about the allocator and the storage that is built on it | |
| `WorldData_proofs` | theorems about the data of a world as a whole: `Snapshot`, and `Registry` with `SpawnData` | |
| `ChangeTracking_proofs` | theorems about the log, the `changed()` query and `take()` | |
| `CommandBuffer_proofs`, `Observers_proofs`, `Scheduler_proofs` | theorems about flushes, deliveries and `process()` | |
| `Replication_proofs` | theorems about what a client comes to have | |
| `MC*` | constants for TLC | |

Definitions carry the name of the function they model where there is one. An
operator named after another with a suffix and marked `Mutant:` is a wrong
variant of that definition; no specification uses it. It records a bug the
properties are known to notice.

### EntityIds

`slotGen`, `freeSlots` and `poolSlots` are the three vectors of the code, as
sequences; a slot is numbered from 1, which is the low half of the id as the code
packs it. `live` is the key set of `entity_locations_`. `clear()` is a loop that
releases ids in an order the hash map chooses; each round is a step
(`BeginClear`, `ClearOne`, `EndClear`), the others of the module are whole
functions. `SlotLimit`, `ForeignLimit` and `MaxGen` stand for `0xFFFFFFFE`, `2^24`
and `UINT32_MAX`; the behaviour at each limit is modelled (error, refusal,
retirement of the slot).

`CreateEntityPreassigned` is the function as it is: it refuses an id that is alive, and nothing else.
`Spec` lets callers name any id, and `entity_ids` shows what comes of it. `Unclaimed(id)` is what a caller would
have to know for the allocator to stay sound; `SpecUnclaimed`, and `World` which is built on it, are
restricted to such callers. `FreeSlotsUnowned`, `StaleHandlesRejected` and the theorems about them hold under
that restriction, which the code does not enforce. That no slot has two owners is part of it and is
therefore not claimed as a result. `Snapshot` uses the unrestricted action.

### World and EntityStore

An archetype is its rows and its own map from entities to rows (`entity_to_row`);
the other map, `loc`, is `entity_locations_`. The point of the module is that every
removal moves another entity's row, on each of the paths that remove one.
`for_each()`, `View` and `each()` are walks that may nest; the guard is
`iterDepth`, while `walks` counts the walks there really are, because `reset()` sets
the guard to zero whoever is walking. Without `reset()` and `compact()` inside a
walk (neither is guarded) no row moves under a walk. Values written are
nondeterministic; what a column does with its memory is left out.

### ChangeTracking

Rows are not numbered here: an entity's version follows it. An archetype has an
address, because `ChangeView` compares pointers. The module has the lazy
allocation of versions (`tracking`), the stamp a row receives when it arrives in a
tracked or an untracked column, the reset of `max_version_` by a removal, the log
with its halving and its generation, and both readers. `Picked` takes the places of a list
that are wanted, in their order: what a loop with a condition pushes. `viewDue`, `viewMayAdd` and
`queryDue` are history variables: what a reader should report.

### CommandBuffer

`frames` is the C++ call stack of `end_deferred_moves()`: a frame knows its loop, its
position in `deferred_entities_`, the commands it has yet to record (`RecordNext` is one round
of the loop over the batch) and the events it has yet to dispatch. Between two
events an observer may queue; in `SpecWrites` it may also write to any entity, the one it is
called for, one that is settled, or one whose recorded operations are still to be committed; in
`SpecNested` also flush.

Two history variables say what a flush has to come to. `settled` is the world but for what is
recorded and not committed; `effect[e]` maps whatever data `e` may have to what the commands recorded for it make of it,
applied one at a time. `FlushInOrder` compares them with the store. They fix an order among commands where the code has one:

* what a handler writes to an entity counts as made *before* the commands that are recorded for that entity
  and not yet committed, whose values therefore win over those of the handler;
* `add_entity` takes effect when it is recorded, ahead of a `remove_entity` of the same batch
  (`core/command_buffer.cpp:77`): `[remove_entity(e), add_entity(e)]` leaves `e` dead.

`mirror` is what an observer of ADDED and REMOVED believes. A handler that changes a component while an event
about it is still to be dispatched makes that event out of date; the pair of entity and component is then
`stale`, and `mirror` is put right when the outermost flush is over, as an observer that asks the world then
would be. All other components are checked through such flushes as well. The events of a handler's own write are
delivered within it, in one step.

### Snapshot

A save is the store at the time, and it survives `Restart`, which gives the allocator a fresh state and may come
in the middle of a load. Loading clears (one `EntityIds` clear), then creates entity after entity with
`create_entity_preassigned()`. The order is free: the file's order is that of the archetypes. A JSON load that
meets a record with an unregistered component creates the entity, destroys it, goes on, and at the end clears
again and loads the backup. The backup is a JSON *string*: `ReadBack` says what is left of the data of an entity
when such a string is parsed, and a save may be one too (`ThroughJson`). Vectors, colours, transforms and blobs
are written as text that is not read back, and integers above 2^53 lose digits; so "restores the previous world"
(`gdscript/vecs_world.cpp:1316`) is not literally true, and `LoadRestores` promises what the code keeps. An *id*
above 2^53, of an entity whose slot was recycled 2^21 times, would not come back either; ids survive in the
model. `bad` is the set of such records, chosen when the load begins.

### Replication

`server` and `client` are worlds; `pendingSpawn`, `pendingDespawn`, `dirty`, `tracked` are
the strategy's sets; `wait[e][t][b]` is the time left until bucket `b` of component `t`
of `e` may be sent again, which is `next_send_tick_` relative to the clock, so that the
clock needs no variable. `TickPackets` is what a tick sends, in the order it sends:
spawns, one delta, despawns, perhaps a full state. The channel is a sequence: RPCs
are reliable and ordered unless configured otherwise, and the constructor
(`network/network_sync.cpp:949`) sets only who may call them. A client that joins gets an empty world and loses what was in
flight. `unsure` is a history variable: entities for which the code leaves it to
the next full state.

### Observers

The C++ call stack again, as a sequence: a delivery with its snapshot of the list and its
position, the remaining REMOVED events of a `destroy_entity()`, the walk of
`seed_membership()`, and user code. Only the innermost moves, and user code may call
any operation: create, destroy, add, remove, write, clear, register, remove or free an
observer, subscribe, end a subscription, shut down. Archetypes are kept as
rows, because the seeding walk reads rows by index while callbacks move them.

Four things are undone by hand in this code and are what the properties are about: the list
is replaced while it is being walked, the membership is evaluated after an event from a
world that has moved on, the ids of callbacks start again at `shutdown()` while observers
keep theirs, and a callback that writes the field it watches makes values arrive out of
order. `missed` is the history of what an observer could not hear of (it was not
registered, its seeding walked rows that moved, or the world was cleared, which raises
one custom event only); `due` and `got` are the callbacks a delivery owes a call and those it
called, in order. A callback is taken off the list where its id is (`Without`), which is one place
at most.

`add_observer()` does not ask whether the observer is on the list, and `create_observer()` has put it there
already. One that is added again has two callbacks, is called twice, and remembers the second id only; removing
or freeing it leaves the first callback. `again` is the history of such observers: `FreedNotRegistered` exempts
them, against `gdscript/vecs_world.h:106`, and nothing else does. A call to an observer that is gone is a use
after free: `DeliverNext` stops short of it.

A freed observer that a running delivery has yet to reach is a use after
free: `FreeObserver` stops short of it. No deferred command is pending, so the flush
after a callback does nothing; `CommandBuffer` has deferred commands.

### Scheduler

`TopologicalOrder` is the Kahn algorithm of `recompute_order()`, with its fallback for cycles. What has been
pushed on the queue and what is placed are one sequence, of which the first `n` are placed after `n` rounds;
`indegree` is not kept but read off the edges (`Ready`: no edge from an entry that is not placed), and what a
round pushes comes in the order of the edges that bring it to 0 (`Pushed`). The graph is that of the *entries*
of a group. `add_system()` does not ask whether the system is there: one that was added twice has two entries,
is in the order twice and, without an interval, runs twice. A name stands for the last entry that has it
(`EntryNamed`), so that a constraint on a system that was added twice is kept for the last entry only and the
first may run on the wrong side of it; `OrderKeepsConstraints` says just that. Systems may share a name
(`Name`). `process()` is a loop whose position is on a stack, because a handler may process another group; a
handler may also queue commands, switch systems on and off, and add or remove systems of
*other* groups. To change the group that is running destroys the vector the loop walks,
which is undefined behaviour: the guards of `AddSystem` and `RemoveSystem` exclude it. Time advances by one per
call; `elapsed` and `since` are kept only up to the longest interval, beyond which no comparison differs, so
that the model is finite. `deps` and the groups of the systems are chosen once, among `Setups`. `With` and
`Forget` are the two changes of the order cache.

### Registry and SpawnData

A component type is what `register_schema_component()` computes: its fields at offsets, a
size and an alignment. The sizes and alignments of the field types are parameters. A
CSV table is a sequence of rows; reading the file and splitting it is left out.

`SpawnData` is about operations made of many. A batch is two loops over its records: `Spawning` (create, check
every name, add, note the key) and `Attaching`, which gives the i-th entity *made* the parent of the i-th
*record*. `Copying` is a loop over the entities of the source in any order. Each loop is a recursive function of
the number of its rounds, as `Ends` of `Registry` is, and its round an operator (`SpawnNext`, `Attach`,
`Copied`, `Offset`). Ids of new entities are any that no entity of the world has, so that a fresh id may be that
of an entity still to be copied. `copy_entity_to()` tells by `p_target == this` what to do: a copy into the
object it is called on gets a fresh id, wherever it comes from, and goes through the command buffer, whose flush
applies all it holds, destructions included; any other copy is written at once, under the id it has if that is
free. `merge_world()` calls it with itself as the target, so that a merge never keeps an id and flushes after
each entity (`Copied` has the object called on as its parameter `x`). Of what a flush applies only destructions
are modelled. A component's value is that of its one integer field, cut to the width of its type. `result`
records the last call and what it returned; `given` what references held before they were remapped.

Three of its properties have a condition that the proofs brought to light:

* `ReferencesFollow` speaks of the entities the mapping leads to. Two records may have one key, an explicit
  id and the index of another record; the mapping has the later one, and the entity of the earlier one is out of reach.
* `ParentsAttached` speaks of a field that can hold both the key and the id of the parent. A key that is
  cut to the width of the field is no longer the key that is looked up.
* `MergeCopiesAll`, where the target is the object called on, exempts a copy whose fresh id a queued command names. Ids have no
  generations here, so a destroy that was queued for an earlier owner of an id destroys the copy in the flush; in the
  code it takes an id that was named by the caller or by a load for that to happen.

## 3. Runs

Twelve runs; four of them are disagreements between the code and what its texts
say, each checking one property that TLC violates.

| Run | Specification and bounds | Checks |
|---|---|---|
| `entity_ids` | 2 slots, generations 0..1, callers name any id | `OneEntityPerSlot` **violated** |
| `world` | 3 slots, 2 component types, 2 values, generations 0..1, one walk, callers name unclaimed ids | type, `FreeSlotsUnowned`, `StaleHandlesRejected`, `LocationsAgree`, `ImplementsStore`, `RowsStableDuringWalk` |
| `change_view` | 2 entities, 2 types, 4 addresses, 5 ticks, queries up to tick 3, a log of at most 2 entries | type, `SteadyTakeExact`, `NoLostChangeUnlessDowngraded`, `OnlyChangesReported`, `LogSorted`, `NoLostQueryChange` |
| `change_lost` | 4 ticks, a log that is never halved | `NoLostChange` **violated** |
| `flush` | `SpecWrites`; 2 entities, 2 types with 2 values and 1, queue of 2, of 1 while the flush runs | type, `FlushInOrder`, `MembershipMirrored`, `EventsAreNet` |
| `flush_nested` | `SpecNested`; 2 entities, 1 type, flush in a flush | `FlushInOrder` **violated** |
| `snapshot` | 2 slots, generations 0..1, 3 data, of which one comes back from JSON as another | type, `FreshLoadKeepsSlots`, `LoadRestores` |
| `load_running` | same | `CreatedIsNew` **violated** |
| `replication` | 2 entities, 2 types, 3 buckets, full state every 3 ticks, 4 operations | type, `QuietInSync`, `EventuallyInSyncIfAnyLeft` |
| `observers` | 2 entities, 2 types, 2 observers, 1 field subscription, 5 operations, callbacks 2 deep, any initial world, observers added again | type, `MembershipFollowsWorld`, `EachCalledOnce`, `FreedNotRegistered`, `FieldSubsUpToDate` |
| `scheduler` | 3 systems, 2 groups of up to 3 entries and 1, a system in up to three of them, 3 sets of constraints, `process()` 2 deep | type, `OrderKeepsConstraints`, `CommandsApplied`, `NobodyStarves` |
| `spawn_data` | 2 worlds, ids 1, 2, 3 and 5, 3 types, 4 batches, 2 tables, merges of 2, 4 calls | `BulkTypeOK` (a name keeps its type, and components the layout they were stored with), `LayoutSound`, `NoGhosts`, `ParentsAttached`, `MergeCopiesAll`, `ReferencesFollow` |

**Why the bounds suffice.** With two generations a slot is recycled once, has a stale handle, and is
retired at the last; a swap-remove that moves a third party needs three rows, hence three entities; a row that
goes from a tracked to an untracked archetype and back needs two components and two entities (one to keep the
archetype occupied). The log cap is 2: the order of two entries matters, and the third entry halves the log
under a view that holds a position into it. Five ticks allow four ticked writes, of which the first, into an
archetype that is not tracked yet, is not logged, so that three entries are reached; the mutant
`LogChangeUnnoticed`, which halves the log without a new generation, is caught. A cap that is never reached is
the other extreme, in `change_lost`. A queue of two commands is refilled by observers while the flush runs
(`MaxRequeue`), so batches follow one another. In `replication` the intervals are 0, 2 and "spawn only": with a
reconciliation period of 3 there are ticks in which some buckets are due, all are, or none is; four operations
suffice for attach, write, write again while throttled and destroy. `MaxFlight` bounds the packets on the way
when the server ticks, one tick adding up to six. Symmetry is used for entities, addresses and worlds, in runs
without liveness.

In `observers` five operations are enough to register two observers, change an entity, and within the callbacks
remove or free one, undo the change and create another entity. One observer wants everything and follows both
types, so that a match depends on two events; the other filters. The world starts in every possible state, so no
operation is spent on building one. In `scheduler` one system has an interval of two calls, and the three flush
modes are each used by a system; the constraints ask for the reverse of the order of insertion, or hold a cycle
with a system behind it, or a cycle next to a group of one. `MaxEntries` leaves room for a system that is added
twice next to another, on either side of it. In `spawn_data` the ids overlap with the indices of records, one
batch names an id out of order and refers forward, one contains an id that is refused and a type that may not be
registered yet, and one component's field is too narrow for id 5.

**Deadlock** is checked in every run but `observers` and `spawn_data`: there the calls of
the program are counted (`MaxCalls`), and the behaviour ends when they are used up and
have returned.

**Fairness.** `Scheduler` has liveness: strong fairness of the main loop for each
group, because the application calls `process()` "once per frame ... for each group"
(`src/doc_classes/VECSWorld.xml:427`); weak fairness of the steps of the loop, which is C++
code that runs on; and strong fairness of the return of a handler at each depth of the
stack, because a handler that never returns stops the whole program. It is strong
because a handler may switch something off and on in between. No handler is forced to do
anything. `NobodyStarves` speaks of a system that stays in its group and is not
switched off for ever.

`Replication` states liveness under `WF(Tick)`, because the
application calls `VECSNetworkSync::tick()` again and again (`src/README.md:212`,
`src/demo/scripts/main.gd:149`), and `WF(Deliver)`, because a reliable
channel delivers. Nothing forces a client to join or the server's world to
change. The liveness properties speak of behaviours in which the changes end; the
bound `MaxOps` makes every behaviour such.

### What the violated properties show

* **`entity_ids`**: `create_entity_preassigned()` (`core/world.cpp:58`) refuses an *id* that is alive, not a *slot* that
  is taken, contrary to `src/doc_classes/VECSWorld.xml:89` and its own comment. With `1:0`
  alive, `1:1` is created on the same slot; destroying one of them corrupts the
  other's generation. It also leaves the slot of the id on the free stack if it was there.

* **`load_running`**: this is what a load does to a world that has run: `clear()` pushes
  every slot on `free_slots_`, the load creates entities on those slots, and
  the next `create_entity()` returns the id of a loaded entity and resets it to no
  components. From a fresh world all is well (`FreshLoadKeepsSlots`).
* **`change_lost`**: a removal sets `max_version_` to 0, meaning "scan again"; `take()` reads
  it as "nothing newer here".
* **`flush_nested`**: a flush inside a callback shares its bookkeeping with the flush
  around it; operations are applied again, over what was written since.

### Seen while reading, not shown by a run

* A full state without entities is not sent (`network/network_sync.cpp:610`), so a server
  world that is cleared and stays empty leaves its entities on every client, for all that
  `src/README.md:536` calls the reconciliation "anti-ghost". Hence the condition of
  `EventuallyInSyncIfAnyLeft`; without it TLC violates the property.
* `shutdown()` empties the list of callbacks and makes ids start again, but observers keep
  their `observer_id_` (`core/observer_dispatch.cpp:46`). Freeing an old observer afterwards
  removes the callback of a new one that got the same id. `src/src/gdscript/vecs_world.h:105`
  has free() unregister the observer itself. `FreedNotRegistered` holds, as the wrong callback
  is gone rather than kept.
* `spawn_from_data()` pairs records and created entities by index (`gdscript/vecs_world.cpp:1166`).
  After a record that was skipped, the parent of each record is written into the entity
  of the next. `ParentsAttached` speaks of the records before it.
* References of attached children are rewritten already; a script that then remaps the
  whole batch, as `src/doc_classes/VECSWorld.xml:588` suggests, rewrites them a second
  time, and an id that is also a key leads astray.
* After loading JSON text, numbers are floats, and so are the keys of the mapping; a lookup
  with the integer of `remap_reference()` does not find them.
* An explicit id may equal the index of a record without one. The mapping then leads to the later of the
  two only, and is smaller than the data, and `deserialize_snapshot_json_mapped()` takes that for a failed load.
* Registering a name again returns its id (`core/component_registry.cpp:119`), so
  `register_component()` says true; the header (`core/component_registry.h:30`) says a duplicate
  name returns the invalid id.
* `set_group()` on a system that is registered moves nothing; `remove_system()` then
  looks in the wrong group, and the scheduler keeps a pointer to a system that may be freed.
* A merge may give a fresh id that is the id of an entity still to be copied, which then gets a
  fresh one too; `MergeCopiesAll` holds all the same.
* `src/doc_classes/VECSWorld.xml:64` and `:357` describe copies that keep their ids where these are free. A merge never
  does, and a copy does only if it is called on another object than its target.
* A failed JSON load "restores the previous world" (`gdscript/vecs_world.cpp:1316`) from a JSON string, without the vectors, colours,
  transforms, blobs and integers above 2^53 it had.
* `free()` of an observer "auto-unregisters" (`gdscript/vecs_world.h:106`) its last callback. One that was given to `add_observer()` after
  `create_observer()` leaves the first on the list, with a pointer to the node that is gone.
* A system that is added twice runs twice in each `process()`, and may run once before a system that asks to come before it.
* `add_observer()` copies mask and filter; `set_events()` afterwards changes only what
  `evaluate_match()` reads.
* A view that is in use across `compact()` compares a deleted archetype's address; a new
  archetype there passes for it, and what moved there before tracking was on is not
  reported. `ChangeTracking!SpecCompact` has the behaviour; `SteadyTakeExact` fails for
  it. `Spec` compacts before there is a view.
* The first `take()` in the tick of the view's construction reports nothing
  (`core/world.h:470`).
* An entity removed and added again within one tick is refused as a spawn and then
  despawned; a removed component is not sent before the next full state (30 s by
  default). Hence the exceptions `QuietInSync` makes.
* `apply_full_state()` destroys and rebuilds entities, so observers of a client see
  REMOVED, contrary to `src/README.md:482`; version-2 deltas are written without a
  Changed event.
* JSON documentation (`src/doc_classes/VECSWorld.xml:194`) says unknown components are
  skipped; the code fails the load and restores the backup.
* `reset()` and `compact()` inside a walk are not guarded; neither is the `where()`
  callable of a query, which runs inside one.
* `[remove_entity(e), add_entity(e)]` in one batch leaves `e` dead, and a handler's write to an entity with recorded commands is
  overwritten by them when they are committed (`CommandBuffer` has both).
* `free_slots_` grows with every load; slots skipped by preassigned ids are never handed
  out; references saved in components can come alive after a restart, because the
  generation of a slot that was free when saving is not in the save.
* Observers that create entities while a load adds components can take ids the load
  has yet to create.

## 4. Proofs

Checked by TLAPS, for every value of the constants that satisfies the assumption
each module names. The assumptions say what the constants are (a limit is a number, a
filter is a set of component types) and, where the code works on finite tables, that
there are finitely many entities or component types. Nothing is assumed of a state or a step.

Every proof has the same shape: an inductive invariant, which says what the property
leaves out; one lemma per operation, or per group of operations that do the same to the state;
one lemma that puts them together by the disjuncts of `Next`; and one theorem per
property, which follows from the invariant.

| Module | Invariant | Theorems |
|---|---|---|
| `EntityIds_proofs` | `IdsInv` | `IdsInvariant` |
| `World_proofs` | `WorldInv` | `WorldTypeOK`, `FreeSlotsStayUnowned`, `StaleHandlesStayRejected`, `LocationsStayInAgreement`, `RowsStayDuringWalk`, `WorldImplementsStore` |
| `ChangeTracking_proofs` | `ChangeInv` | `ChangeTypeOK`, `LogStaysSorted`, `QueryLosesNoChange` |
| | `ViewInv` | `SteadyTakeStaysExact`, `OnlyChangesStayReported`, `NoChangeIsLost` |
| `CommandBuffer_proofs` | `FlushInv` | `FlushTypeOK`, `FlushAppliesInOrder`, `MembershipStaysMirrored`, `EventsStayNet` |
| `WorldData_proofs` | `SnapshotInv` | `SnapshotTypeOK`, `FreshLoadsKeepSlots`, `LoadsRestore` |
| | `BulkInv` | `BulkTypes`, `LayoutsSound`, `ChildrenAttached`, `RemappedOnce`, `BatchesLeaveNoGhosts`, `MergesCopyAll` |
| `Observers_proofs` | `ObserversInv` | `ObserversTypeOK`, `FreedStaysOffTheList`, `DeliveriesReachAll`, `SubscriptionsUpToDate`, `MembershipStaysTrue` |
| `Scheduler_proofs` | `SchedulerInv`, `RegistryInv` | `QueuedCommandsApplied`, `SchedulerTypeOK`, `OrdersKeepConstraints` |
| `Replication_proofs` | `ReplicationInv` | `ReplicationTypeOK`, `QuietStaysInSync` |

**Entity ids.** Of `SpecUnclaimed`: callers name unclaimed ids. That a stale handle stays rejected and a free slot has no
owner is not inductive: both say nothing of generations, and the step that breaks them is the recycling of a slot
whose owner is an id of another generation. `IdsInv` adds `OneEntityPerSlot`, `CurrentGenerations` (an
id in use carries its slot's generation), and `RecycledOutdated` (a
recycled id is behind its slot's generation, or the slot is retired, at the last
generation and off the stack). The lemmas follow the code: what a pop and a push do to
a stack without duplicates, what growing the vector does, then one lemma per group
of operations.

**World.** `WorldInv` is `IdsInv` of the allocator inside, `Placed` and `WalksCounted`. `Placed`
is more than `LocationsAgree`: each archetype by itself is `WellFormed` (its map inverts its
rows), an entity is in the rows of the archetype of its location and of no other, and
both maps give the same row. The lemma behind it is `SwapRemoveKeepsOthers`: the last row
goes into the hole, and all the others keep theirs. The refinement to `EntityStore` is proved step by step
(`StepImplements`): each operation changes the components of the entity it was called
for and of no other, which is where a wrong row after a swap-remove would
show. Since a step of `World` on ids is a step of `EntityIds` or a stutter
(`AllocatorSteps`), the allocator's invariant is taken from `EntityIds_proofs` and not proved again.

**Change tracking.** `ChangeInv`, of `SpecCompact`, which allows more than `Spec`. `DueInv` says what an
unreported write rests on: its row's version is above the baseline where the column is
tracked, and where it is not the *clock* is, with which the row will be stamped when
tracking is turned on. Then there is the order of the log, on which the binary search depends.

**ChangeView.** `ViewInv` adds what a `take()` relies on when it does not scan. `Logged`: if no scan is
needed, every write that is due has an entry after the view's position, through halvings
of the log too. `LogTells` is the converse. `AllTracked`: a warm view whose list of archetypes has not grown tracks
all that match. `Settled`: an entity that has not moved since the last `take()` has a
new version only if it was written. That a list which has not grown is the *same* list rests on
the archetypes being appended only; `MatchedLength` and `MatchedStep` say so. The theorems are about `Spec`: for
`SpecCompact`, `SteadyTakeExact` is false (see "Seen while reading").

**Command buffer.** Of `SpecWrites`: observers queue, and write to any entity. In
`FlushInv`, `OnTheWay` says that what the flush has still to do to an entity (destroy it, commit its operations,
or nothing), whatever data the entity has by then, is what its recorded commands do, applied one by one
(`effect`). It speaks of every data an entity may have, and not of those it has, because a handler may write to
it before its commit; that is also why committing is a function of the data. A command that is recorded changes
both sides alike, for which the last operation on a component decides (`Latest`), and one that is committed
changes neither. `Mirrored` says that the events still to be dispatched are about different memberships, and
that each which is not out of date is news and true. For `SpecNested` the invariant fails, as `flush_nested`
shows. The queue may have any length.

**Snapshot.** `SnapshotInv` has `OnTheWay` too: a load that will succeed has loaded a part of the
save, with the rest still in `todo`, and one with an unknown component is bound to fail and to return to the
backup, which is the world it found as a JSON string keeps it (`ReadBack`, of which nothing is assumed but that
it keeps an entity without components). `Apart`: what is loaded and what remains share no slot, so that
`create_entity_preassigned()` never meets an id that is alive. `Fresh` is about the free stack in a world that
had issued no ids. The allocator is again that of `EntityIds_proofs`, of which only the lemmas are used:
`OneEntityPerSlot` is what a load breaks.

**Observers.** The invariant speaks of each call on the stack: what it has done, and what it still has
to do. `Listed`: ids in the list grow, and each belongs to an observer or a subscription that is there and has
that id, if the observer was not added while it was there. `Deliveries`: what a delivery has called are those it
owes a call before its position; at the end `got` is `due`. `Fields`: a subscription has been told the value, or
a delivery of a write to that entity has it before it, and that delivery reads the value when it comes to it.
`Seedings` and `Members`: an observer is right about an entity, or could not hear of it (`missed`), or is
awaited, which means that a delivery has still to evaluate the entity for it, a destruction has still an event
to raise, or a seeding has the entity's row before it. None of these is an invariant by itself while a callback
runs, as the world moves on under the calls that wait; `Fine` is their disjunction. A call deeper in the stack
keeps its promise because nothing above changes its frame, and the rows a seeding has before it either stay or
what moved is noted as missed.

**Scheduler.** `SchedulerInv`: a call of `process()` walks an order that is in the cache and does not
change under it, and commands that wait belong to a handler that runs, or to a system of
a group that is still walked and will be flushed at its end. How the order is computed plays no part.

`RegistryInv` says of the cache that an order that is there is what `recompute_order()` would return now
(`Groups`): whatever changes a group drops its order. It does not say that a group has a system once, which the
code does not see to. What that function returns is a fact about data, `OrderFacts`, and is proved by induction
over its rounds. The library's induction theorems take the predicate as a parameter, which the provers cannot
instantiate; `Induction` takes a *set* of numbers instead and follows from the library's least-element theorem,
and `Recursion` shows once that a recursive function with values in a set exists. For this the loops of the
model are recursive functions (`At`, `Kahn`) and not `SelectSeq` or a fold. `KahnInv` is what a round keeps:
what has been pushed are the entries at 0, each once, and an entry that must come before another that was pushed
was pushed before it. After as many rounds as there are entries the queue is empty (`NoLonger`), so that what is
left waits for something else that is left; without a cycle there is no such set (`OrderIsRight`).

**Replication.** `ReplicationInv` looks at the world `d` the client will have when all that is in flight has
arrived (`Leads`: there are worlds, one for each packet, of which each is the one before after that packet), and
says how `d` differs from the server's world: by what is pending (`Agrees`). An entity that is tracked and not
in `d` is to be spawned, one that is in `d` and not tracked is to be despawned, and a component whose values `d`
has not got is dirty. Delivery leaves `d` as it is, so that only the server's steps matter; among them a tick,
whose packets are applied in their order (`TickLeads`): a spawn may be refused because a full state came first,
and then what was written since is dirty and in the delta behind it. `Pending` names the one case in which the
order of a tick leads astray, an entity both tracked and to be despawned, and puts it among the `unsure`.
`QuietStaysInSync` supposes that deltas carry some bucket: otherwise a component that is added to a tracked
entity is taken off the dirty ones unsent (`network/network_sync.cpp:438`) and waits for the next full state.

**Registry and SpawnData.** `BulkInv` says of the registry (`RegistryOK`) that each name leads to a type of that name
whose layout is sound, of the worlds (`WorldsOK`) that each component is of a registered type and holds what
its field can hold (`Fits`), and of the last call (`ResultOK`) that what it left in its entities is there until
the references are remapped (`GivenKept`). The last is what makes `ReferencesFollow` inductive: the history
of what a reference led to is worth something only while the reference is as it was.

A layout is sound because `align_up()` is the least multiple of an alignment that is not below its
argument, and because the alignment of a component is a multiple of that of each of its fields. For the latter
`RegistryAssumption` says that of two alignments one divides the other, which is so for
powers of two, as all alignments of `field_type_align()` are. Registering adds types and changes none (`Grown`), so
that components which fit go on to fit.

Each of the loops has an invariant of its rounds. `SpawnInv`: what has been made is new, each entity is that of one
record and has just its components, and as long as no record was skipped the i-th entity is that of the i-th
record. `AttachInv`: the children so far are attached once, and nothing else has changed; one
entity is not attached twice because no two records made the same. `CopyInv`: each entity walked so
far has a copy of its own that was not there, but for those a flush destroyed (`Gone`); that a fresh id may be
one of the source makes no difference, as the target's entities and the copies are kept apart by what was there when the
merge began. The induction over the rounds shows at once that the recursive function has a value after n rounds and that
this is what the rounds before made it, so that no set of all values is needed.

These proofs share a module with those of `Snapshot`, of which they are independent: the assumptions of
the two components are about different constants.

**Only model-checked.**

* Liveness: `NobodyStarves` and `EventuallyInSyncIfAnyLeft`. The prover has no ENABLED, and both
  need fairness. They are the only properties of a passing run that no theorem states.
* The four properties that fail, of course, and what `Unclaimed` and the other
  restrictions named in section 2 exclude.

## 5. Not modelled

* The bytes: columns' memory, serialised formats, Variant conversion, validation of
  malformed packets and files. A file is a world that was saved, a packet one that
  was sent.
* Saturation of clocks at 2^64.
* The enabled flag of entities, which no caller sets; custom commands, whose effect
  is the application's; suppression of a cache version nobody reads.
* Replication: session ids, version-1 packets, `seed_from_world()`, `reset()` and custom
  strategies; several clients (each has its own channel and receives the same
  packets).
* Observers: throttling, the filter of field names, the names of custom events, and the
  option dictionary of `create_observer()`. Their configuration does not change.
* Registration of components from C++ macros, and the registry's `clear()` at teardown.
* What is undefined in C++: changing a group from a system it is running, freeing an observer
  that a delivery has yet to reach, changing the world from the `where()` callable of a query.
* Events while data is spawned or merged: `SpawnData` has no observers, `Observers` no batches.
* Reflection except for integers, settings, log, monitors, the debugger's messages and the
  demo; script wrappers beyond the writing of a field.

## 6. Plan

Done: ids, storage, change tracking, flush, snapshot, replication, observers, scheduler,
registry, spawned data; proofs of every safety property that a passing run checks. In order of importance:

1. A load with observers registered, and a load inside a walk.
2. A client that loads a world, and a second client, in `Replication`.
3. Throttling and the flush after a callback, by composing `Observers` with `CommandBuffer`.

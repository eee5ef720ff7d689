------------------------------ MODULE SpawnData -------------------------------
(***************************************************************************)
(* The bulk operations of VECSWorld: entities created from data, copied    *)
(* to another world or merged into it, and the references between them     *)
(* rewritten to the ids they got.  The worlds of a process share the       *)
(* component types of Registry, which grow meanwhile.                      *)
(*                                                                         *)
(* A world is its entities, with the components of each.  A component has  *)
(* at most one field that is a single number, and its value is the value   *)
(* of that field: it may be the id of an entity.  The id of a new entity   *)
(* is any that no entity of the world has (EntityIds has the allocator).   *)
(* Calls are made outside walks and outside callbacks.                     *)
(***************************************************************************)
EXTENDS Registry

CONSTANTS
  World,      \* the VECSWorld objects
  EntityId,   \* ids, positive
  NoKey,      \* a key the data lacks
  Number,     \* the field types that are numbers
  Width,      \* [Number -> how many values the type has]
  Bundles,    \* components by name, as scripts give them: [names -> numbers]
  Batches,    \* data for spawn_from_data(): sequences of [id, parent, components]
  MaxMerge,   \* bound: worlds with more entities are not merged
  MaxCalls    \* bound on the calls made

IsBundle(b) == DOMAIN b \subseteq CompName /\ b \in [DOMAIN b -> Int]

ASSUME SpawnDataAssumption ==
  /\ EntityId \subseteq Nat \ {0} /\ IsFiniteSet(EntityId)
  /\ Number \subseteq FieldType \ ByteBuffer
  /\ Width \in [Number -> Nat \ {0}]
  /\ \A bundle \in Bundles : IsBundle(bundle)
  /\ \A batch \in Batches : batch \in Seq(Range(batch)) /\ \A r \in Range(batch) : IsBundle(r.components)
  /\ MaxMerge \in Nat /\ MaxCalls \in Nat

VARIABLES
  worlds,    \* [World -> [the entities alive -> [their components -> value]]]
  pending,   \* [World -> the entities whose destruction is queued in commands()]
  result,    \* history: the last call and what it returned
  calls      \* history: calls made

bulkVars == <<registry, worlds, pending, result, calls>>

Nothing == [x \in {} |-> 0]
AliveIn(w) == DOMAIN worlds[w]
Put(f, x, y) == [z \in DOMAIN f \cup {x} |-> IF z = x THEN y ELSE f[z]]

\* The field of a component type that is a single number, if it has one.
NumberFields(n) ==
  {i \in DOMAIN SchemaOf(n).fields : LET fd == SchemaOf(n).fields[i] IN
     fd.type \in Number /\ fd.bytes = SizeOf[fd.type]}
HasNumber(n) == NumberFields(n) # {}
NumberField(n) == SchemaOf(n).fields[CHOOSE i \in NumberFields(n) : TRUE]

\* What a component keeps of a number: the bits its field has.
Stored(n, v) == IF HasNumber(n) THEN v % Width[NumberField(n).type] ELSE 0
Components(bundle) == [n \in DOMAIN bundle |-> Stored(n, bundle[n])]
AllRegistered(bundle) == \A n \in DOMAIN bundle : Registered(n)

(***************************************************************************)
(* remap_reference().                                                      *)
(***************************************************************************)

\* Mutant: the new id is looked up in its turn.
RemappedThrough(n, v, field, map) ==
  LET once(x) == IF x \in DOMAIN map THEN map[x] ELSE x IN
  IF HasNumber(n) /\ NumberField(n).name = field THEN Stored(n, once(once(v))) ELSE v

\* The value of the field, if it is a number the map has, becomes what the map
\* gives for it.
Remapped(n, v, field, map) ==
  IF HasNumber(n) /\ NumberField(n).name = field /\ v \in DOMAIN map
  THEN Stored(n, map[v])
  ELSE v

\* A script walks the entities of its last batch or merge and rewrites every
\* reference once, with the mapping it was given.
RemapReferences ==
  LET w == result.world
      rewritten(comps) ==
        [n \in DOMAIN comps |->
           IF HasNumber(n) THEN Remapped(n, comps[n], NumberField(n).name, result.mapping)
           ELSE comps[n]]
  IN  /\ result.op \in {"spawn", "merge"}
      /\ ~result.remapped
      /\ worlds' = [worlds EXCEPT ![w] =
           [e \in DOMAIN @ |-> IF e \in Range(result.mapping) THEN rewritten(@[e]) ELSE @[e]]]
      /\ result' = [result EXCEPT !.remapped = TRUE]
      /\ UNCHANGED <<registry, pending, calls>>

(***************************************************************************)
(* spawn_from_data().                                                      *)
(***************************************************************************)

\* The ids the records of a batch ask for or are given.
IdsFor(w, batch) ==
  {ids \in [DOMAIN batch -> EntityId \cup {0}] : \A i \in DOMAIN batch :
     IF batch[i].id # NoKey THEN ids[i] = batch[i].id
     ELSE ids[i] \in EntityId \ (AliveIn(w) \cup {ids[j] : j \in 1..i - 1})}

\* An explicit id is the key of its record; the others have their index.
Key(batch, i) == IF batch[i].id # NoKey THEN batch[i].id ELSE i - 1

\* Mutant: the entity of a record that is not valid is left behind.
SpawnNextGhost(batch, ids, acc, i) ==
  IF ids[i] \in DOMAIN acc.store \/ ids[i] = 0 THEN acc
  ELSE IF ~AllRegistered(batch[i].components)
  THEN [acc EXCEPT !.store = Put(@, ids[i], Nothing)]
  ELSE [store   |-> Put(acc.store, ids[i], Components(batch[i].components)),
        mapping |-> Put(acc.mapping, Key(batch, i), ids[i]),
        made    |-> Put(acc.made, i, ids[i]),
        out     |-> Append(acc.out, ids[i])]

\* A record whose id is taken is skipped, and so is one that names a component
\* nobody registered: the entity made for it is destroyed again.
SpawnNext(batch, ids, acc, i) ==
  IF \/ ids[i] \in DOMAIN acc.store \/ ids[i] = 0
     \/ ~AllRegistered(batch[i].components)
  THEN acc
  ELSE [store   |-> Put(acc.store, ids[i], Components(batch[i].components)),
        mapping |-> Put(acc.mapping, Key(batch, i), ids[i]),
        made    |-> Put(acc.made, i, ids[i]),
        out     |-> Append(acc.out, ids[i])]

\* The component remapped for an entity: the first by type id with such a field.
ParentComponent(comps) ==
  LET with == {n \in DOMAIN comps : HasField(n, "parent")}
  IN  {n \in with : \A m \in with : idByName[n] <= idByName[m]}

Attached(comps, map) ==
  [n \in DOMAIN comps |->
     IF n \in ParentComponent(comps) THEN Remapped(n, comps[n], "parent", map) ELSE comps[n]]

\* Mutant: a child is attached as soon as it is made, before the later records.
AttachAtOnce(batch, acc, i) ==
  LET known == [k \in {k \in DOMAIN acc.mapping : \E j \in 1..i : Key(batch, j) = k}
                  |-> acc.mapping[k]]
  IN  IF i \in DOMAIN acc.out /\ batch[i].parent \in DOMAIN known
      THEN [acc EXCEPT !.store[acc.out[i]] = Attached(@, known)]
      ELSE acc

\* The i-th entity made is taken for that of the i-th record.
Attach(batch, acc, i) ==
  IF i \in DOMAIN acc.out /\ batch[i].parent \in DOMAIN acc.mapping
  THEN [acc EXCEPT !.store[acc.out[i]] = Attached(@, acc.mapping)]
  ELSE acc

\* History: the numbers a batch or a merge left in its entities, but those of
\* children that were attached.
Given(store, made) ==
  [p \in {p \in (made \cap DOMAIN store) \X CompName :
            p[2] \in DOMAIN store[p[1]] /\ HasNumber(p[2])} |-> store[p[1]][p[2]]]

\* The first loop, after each of its rounds.
Spawning(w, batch, ids) ==
  LET after[i \in 0..Len(batch)] ==
        IF i = 0
        THEN [store |-> worlds[w], mapping |-> Nothing, made |-> Nothing, out |-> <<>>]
        ELSE SpawnNext(batch, ids, after[i - 1], i)
  IN  after

\* The second one.
Attaching(batch, spawned) ==
  LET after[i \in 0..Len(batch)] ==
        IF i = 0 THEN spawned ELSE Attach(batch, after[i - 1], i)
  IN  after

SpawnFromData(w, batch) ==
  \E ids \in IdsFor(w, batch) :
    LET end == Attaching(batch, Spawning(w, batch, ids)[Len(batch)])[Len(batch)] IN
    /\ worlds' = [worlds EXCEPT ![w] = end.store]
    /\ result' = [op |-> "spawn", world |-> w, batch |-> batch, out |-> end.out,
                  made |-> end.made, mapping |-> end.mapping, remapped |-> FALSE,
                  given |-> Given(end.store, {end.made[i] : i \in
                              {i \in DOMAIN end.made : batch[i].parent = NoKey}})]
    /\ UNCHANGED <<registry, pending>>

\* spawn(): a batch of one
Spawn(w, bundle) ==
  SpawnFromData(w, <<[id |-> NoKey, parent |-> NoKey, components |-> bundle]>>)

\* create_with_components(), with the id asked for or 0
CreateWithComponents(w, defId, bundle) ==
  \E id \in IF defId > 0 THEN {defId} ELSE EntityId \ AliveIn(w) :
    LET ok == id \notin AliveIn(w) /\ AllRegistered(bundle) IN
    /\ worlds' = IF ok THEN [worlds EXCEPT ![w] = Put(@, id, Components(bundle))]
                 ELSE worlds
    /\ result' = [op |-> "create", world |-> w, entity |-> IF ok THEN id ELSE 0]
    /\ UNCHANGED <<registry, pending>>

(***************************************************************************)
(* Destroying, at once or by a command.                                    *)
(***************************************************************************)

Survivors(store, dead) == Restrict(store, DOMAIN store \ dead)

Destroy(w, e) ==
  /\ worlds' = [worlds EXCEPT ![w] = Survivors(@, {e})]
  /\ result' = [op |-> "none"]
  /\ UNCHANGED <<registry, pending>>

QueueDestroy(w, e) ==
  /\ pending' = [pending EXCEPT ![w] = @ \cup {e}]
  /\ result' = [op |-> "none"]
  /\ UNCHANGED <<registry, worlds>>

(***************************************************************************)
(* copy_entity_to() and merge_world().  x is the object they are called    *)
(* on, v the world of the entities and w the one they are copied to.       *)
(***************************************************************************)

\* Mutant: the id of the source is used although an entity has it.
CopiedOver(acc, x, v, w, e, id, taken) ==
  IF e \notin DOMAIN acc.worlds[v] THEN acc
  ELSE LET to == IF x # w THEN e ELSE id IN
       [worlds  |-> [acc.worlds EXCEPT ![w] = Put(@, to, acc.worlds[v][e])],
        pending |-> acc.pending,
        mapping |-> Put(acc.mapping, e, to),
        ok      |-> acc.ok]

\* e copied under `id`; an entity that is gone is not.  A copy to x itself gets a
\* new id, wherever it comes from, and goes through the command buffer of x, whose
\* flush applies all it holds; a copy to another world is written there at once,
\* under the id it has if that is free.  acc.ok says whether `id` is such an id.
Copied(acc, x, v, w, e, id, taken) ==
  IF e \notin DOMAIN acc.worlds[v] THEN [acc EXCEPT !.ok = @ /\ id = e]
  ELSE
  LET keep == x # w /\ e \notin DOMAIN acc.worlds[w]
      with == Put(acc.worlds[w], id, acc.worlds[v][e])
  IN  [worlds  |-> [acc.worlds EXCEPT ![w] =
                      IF x = w THEN Survivors(with, acc.pending[w]) ELSE with],
       pending |-> IF x = w THEN [acc.pending EXCEPT ![w] = {}] ELSE acc.pending,
       mapping |-> Put(acc.mapping, e, id),
       ok      |-> acc.ok /\ IF keep THEN id = e
                             ELSE id \notin taken \cup Range(acc.mapping)
                                            \cup DOMAIN acc.worlds[w]]

\* The entities copied in the order of `walk` under `ids`: what there is after each.
Copying(x, v, w, walk, ids) ==
  LET after[i \in 0..Len(walk)] ==
        IF i = 0
        THEN [worlds |-> worlds, pending |-> pending, mapping |-> Nothing, ok |-> TRUE]
        ELSE Copied(after[i - 1], x, v, w, walk[i], ids[walk[i]], AliveIn(w))
  IN  after

CopyAll(x, v, w, entities) ==
  \E walk \in SetToSeqs(entities), ids \in [entities -> EntityId] :
    LET end == Copying(x, v, w, walk, ids)[Len(walk)] IN
    /\ end.ok
    /\ worlds' = end.worlds /\ pending' = end.pending
    /\ result' = [op |-> "merge", by |-> x, from |-> v, world |-> w, entities |-> entities,
                  mapping |-> end.mapping, remapped |-> FALSE,
                  given |-> Given(end.worlds[w], Range(end.mapping))]
    /\ UNCHANGED registry

CopyEntityTo(x, v, e, w) == CopyAll(x, v, w, {e})

\* w calls copy_entity_to() with itself as the target.  The ids are taken down
\* first; the order is that of the archetypes and rows.
MergeWorld(v, w) ==
  /\ Cardinality(AliveIn(v)) <= MaxMerge
  /\ CopyAll(w, v, w, AliveIn(v))

(***************************************************************************)
(* Specification.                                                          *)
(***************************************************************************)

BulkInit ==
  /\ RegistryInit
  /\ worlds = [w \in World |-> Nothing]
  /\ pending = [w \in World |-> {}]
  /\ result = [op |-> "none"]
  /\ calls = 0

Call ==
  \/ RegistryNext /\ result' = [op |-> "none"] /\ UNCHANGED <<worlds, pending>>
  \/ \E w \in World, batch \in Batches : SpawnFromData(w, batch)
  \/ \E w \in World, bundle \in Bundles : Spawn(w, bundle)
  \/ \E w \in World, bundle \in Bundles, defId \in EntityId \cup {0} :
       CreateWithComponents(w, defId, bundle)
  \/ \E w \in World : \E e \in AliveIn(w) : Destroy(w, e) \/ QueueDestroy(w, e)
  \/ \E x, v, w \in World : \E e \in AliveIn(v) : CopyEntityTo(x, v, e, w)
  \/ \E v, w \in World : MergeWorld(v, w)

BulkNext ==
  \/ calls < MaxCalls /\ Call /\ calls' = calls + 1
  \/ RemapReferences

BulkSpec == BulkInit /\ [][BulkNext]_bulkVars

(***************************************************************************)
(* Properties.                                                             *)
(***************************************************************************)

\* Every column, save and packet holds type ids, and bytes laid out by a schema:
\* the components there are agree with the types, whatever was registered since,
\* under whatever name.
BulkTypeOK ==
  /\ idByName \in [DOMAIN idByName -> DOMAIN schemas]
  /\ \A n \in DOMAIN idByName : SchemaOf(n).name = n
  /\ \A w \in World : LET store == worlds[w] IN
       /\ DOMAIN store \subseteq EntityId
       /\ \A e \in DOMAIN store : \A n \in DOMAIN store[e] :
            Registered(n) /\ store[e][n] = Stored(n, store[e][n])
  /\ pending \in [World -> SUBSET EntityId]

\* "Every named component must be registered, otherwise the entity would be left
\* partially initialized (ghost entity)" (vecs_world.cpp:1130): a batch adds one
\* entity, with just the components named, for each record it reports, leaves
\* nothing of those it skips, whichever step of a record failed, and does not
\* touch the entities there were; a creation that fails leaves nothing.
NoGhosts ==
  [][/\ result'.op = "spawn" /\ calls' # calls => LET w == result'.world
                                    made == result'.made IN
        /\ IsInjective(made) /\ Range(result'.out) = Range(made)
        /\ Range(made) \cap AliveIn(w) = {}
        /\ DOMAIN worlds'[w] = AliveIn(w) \cup Range(made)
        /\ \A e \in AliveIn(w) : worlds'[w][e] = worlds[w][e]
        /\ \A i \in DOMAIN made :
             DOMAIN worlds'[w][made[i]] = DOMAIN result'.batch[i].components
     /\ result'.op = "create" /\ result'.entity = 0 => worlds' = worlds]_bulkVars

\* "After the batch, the child's field literally named parent is automatically
\* rewritten to the freshly assigned parent id" (VECSWorld.xml:575), wherever in
\* the batch the parent is: of the records before the first that was skipped,
\* with a field that can hold the key and the id, and a key of one record only.
ParentsAttached ==
  result.op = "spawn" => \A i, p \in DOMAIN result.made :
    LET rec == result.batch[i] IN
    (/\ 1..i \subseteq DOMAIN result.made
     /\ \A j \in DOMAIN result.made : Key(result.batch, j) = rec.parent <=> j = p
     /\ ~result.remapped)
    => \A n \in ParentComponent(rec.components) :
         (/\ HasNumber(n) /\ NumberField(n).name = "parent"
          /\ rec.components[n] = rec.parent
          /\ {rec.parent, result.made[p]} \subseteq 0..Width[NumberField(n).type] - 1)
         => worlds[result.world][result.made[i]][n] = result.made[p]

\* A merge copies every entity of the source, each to an entity of its own that
\* was not there, with the same components; the entities of the target stay, and
\* so does the source.  Only what was queued to be destroyed in the target is
\* gone: the flush of the first copy applies the queue and leaves nothing of it.
\* In a merge of a world with itself that spares an entity its copy, and a copy
\* may go too if it got an id that a command names since its last owner.
MergeCopiesAll ==
  [][result'.op = "merge" /\ calls' # calls =>
       LET x == result'.by
           v == result'.from
           w == result'.world
           map == result'.mapping
           gone == IF x = w THEN pending[w] ELSE {}
       IN  /\ result'.entities \ (IF v = w THEN gone ELSE {}) \subseteq DOMAIN map
           /\ IsInjective(map) /\ Range(map) \cap AliveIn(w) = {}
           /\ DOMAIN worlds'[w] \cup gone = AliveIn(w) \cup Range(map) \cup gone
           /\ DOMAIN map # {} => AliveIn(w) \cap gone \cap DOMAIN worlds'[w] = {}
           /\ x = w /\ DOMAIN map # {} => pending'[w] = {}
           /\ \A e \in AliveIn(w) \cap DOMAIN worlds'[w] : worlds'[w][e] = worlds[w][e]
           /\ \A e \in DOMAIN map : map[e] \notin gone => worlds'[w][map[e]] = worlds[v][e]
           /\ v # w => worlds'[v] = worlds[v]]_bulkVars

\* "Pass the mapping to remap_reference to rewrite cross-entity references after
\* the batch" (VECSWorld.xml:588): once done for a component, its reference leads
\* to the copy of the entity that it led to before, though the ids of the copies
\* and the keys they replace are numbers of one kind and may be equal.  Of two
\* records with one key, the mapping leads to the entity of the later one only.
ReferencesFollow ==
  (result.op \in {"spawn", "merge"} /\ result.remapped) =>
    \A p \in DOMAIN result.given :
      LET ref == result.given[p] IN
      p[1] \in Range(result.mapping) /\ ref \in DOMAIN result.mapping =>
        worlds[result.world][p[1]][p[2]] = Stored(p[2], result.mapping[ref])
=============================================================================

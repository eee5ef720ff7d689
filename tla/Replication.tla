----------------------------- MODULE Replication -----------------------------
(***************************************************************************)
(* VECSSnapshotReplication: a server world, one client and the connection  *)
(* between them, which is reliable and ordered (the default of an RPC).    *)
(*                                                                         *)
(* The server learns of its world's changes from Added, Changed and        *)
(* Removed events and keeps, until the next tick, who is to be spawned,    *)
(* sent a delta or despawned.  The fields of a component fall into buckets *)
(* by sync priority, each with its own interval between deltas.  Every so  *)
(* many ticks the server sends its full state.                             *)
(*                                                                         *)
(* Time is counted in ticks.  All components and fields of the module are  *)
(* networked; entities without components are not replicated.              *)
(***************************************************************************)
EXTENDS Integers, Sequences, FiniteSets, SequencesExt

CONSTANTS
  Entity,
  Comp,
  Bucket,           \* sync priorities of the fields of a component
  Interval,         \* [Bucket -> ticks between deltas], Never for spawn-only
  Val,
  ReconcileTicks,   \* reconciliation_interval_
  MaxOps,           \* bound: changes of the server world but creations, full
                    \* states requested and clients that join
  MaxFlight         \* bound: the server ticks with fewer packets in flight

Never == -1

ASSUME ReplicationAssumption ==
  /\ IsFiniteSet(Entity)
  /\ Val # {}
  /\ Interval \in [Bucket -> Nat \cup {Never}]
  /\ ReconcileTicks \in Nat \ {0}
  /\ MaxOps \in Nat
  /\ MaxFlight \in Nat \ {0}

VARIABLES
  server,          \* the world: [alive -> [its components -> [Bucket -> Val]]]
  tracked,         \* tracked_
  pendingSpawn,    \* pending_spawn_
  pendingDespawn,  \* pending_despawn_
  dirty,           \* dirty_: [Entity -> components to send]
  wait,            \* next_send_tick_ - elapsed_time_, at least 0:
                   \* [Entity -> [Comp -> [Bucket -> Nat]]]
  accum,           \* reconcile_accum_
  channel,         \* packets in flight
  client,          \* the client's world, like server
  replicated,      \* client_replicated_
  unsure,          \* history: entities the client may have wrong until the
                   \* next full state
  ops              \* changes so far

pendingVars == <<tracked, pendingSpawn, pendingDespawn, dirty, wait>>
clientVars == <<client, replicated>>
vars == <<server, pendingVars, accum, channel, clientVars, unsure, ops>>

Alive == DOMAIN server
NoEntities == [e \in {} |-> 0]
NoWait == [t \in Comp |-> [b \in Bucket |-> 0]]
Zero == [b \in Bucket |-> CHOOSE v \in Val : TRUE]
DeltaBuckets == {b \in Bucket : Interval[b] # Never}

With(s, e, x) == [f \in DOMAIN s \cup {e} |-> IF f = e THEN x ELSE s[f]]
Without(s, E) == Restrict(s, DOMAIN s \ E)

\* Entities with a networked component, which are all a packet ever carries.
Networked(s) == Restrict(s, {e \in DOMAIN s : DOMAIN s[e] # {}})

(***************************************************************************)
(* Events of the server world.                                             *)
(***************************************************************************)

\* on_entity_component_added
Added(e, t) ==
  IF e \in tracked
  THEN /\ dirty' = [dirty EXCEPT ![e] = @ \cup {t}]
       /\ UNCHANGED <<tracked, pendingSpawn, pendingDespawn, wait, unsure>>
  ELSE /\ tracked' = tracked \cup {e}
       /\ pendingSpawn' = pendingSpawn \cup {e}
       /\ unsure' = unsure \cup (pendingDespawn \cap {e})
       /\ UNCHANGED <<pendingDespawn, dirty, wait>>

\* on_entity_component_changed
Changed(e, t) ==
  /\ dirty' = IF e \in tracked THEN [dirty EXCEPT ![e] = @ \cup {t}] ELSE dirty
  /\ UNCHANGED <<tracked, pendingSpawn, pendingDespawn, wait, unsure>>

\* Mutant: the entity stays tracked.
LastRemovedStillTracked(e) ==
  /\ dirty' = [dirty EXCEPT ![e] = {}]
  /\ wait' = [wait EXCEPT ![e] = NoWait]
  /\ pendingDespawn' = pendingDespawn \cup {e}
  /\ UNCHANGED <<tracked, pendingSpawn, unsure>>

\* on_entity_component_removed, when no networked component is left
LastRemoved(e) ==
  /\ tracked' = tracked \ {e}
  /\ dirty' = [dirty EXCEPT ![e] = {}]
  /\ wait' = [wait EXCEPT ![e] = NoWait]
  /\ pendingDespawn' = pendingDespawn \cup ({e} \cap tracked)
  /\ UNCHANGED <<pendingSpawn, unsure>>

\* on_entity_component_removed, when another one is left: no packet says so
Removed(e, t) ==
  /\ dirty' = [dirty EXCEPT ![e] = @ \ {t}]
  /\ UNCHANGED <<tracked, pendingSpawn, pendingDespawn, wait, unsure>>

(***************************************************************************)
(* The server world.                                                       *)
(***************************************************************************)

\* An id may be one that was alive before: the pool hands ids out again.
Create(e) ==
  /\ e \notin Alive
  /\ server' = With(server, e, [t \in {} |-> 0])
  /\ UNCHANGED <<pendingVars, accum, channel, clientVars, unsure, ops>>

Destroy(e) ==
  /\ server' = Without(server, {e})
  /\ IF DOMAIN server[e] = {} THEN UNCHANGED <<pendingVars, unsure>> ELSE LastRemoved(e)

\* Fields start at their default; writing them is SetField().
Attach(e, t) ==
  /\ t \notin DOMAIN server[e]
  /\ server' = [server EXCEPT ![e] = With(@, t, Zero)]
  /\ Added(e, t)

SetField(e, t, b, v) ==
  /\ t \in DOMAIN server[e] /\ server[e][t][b] # v
  /\ server' = [server EXCEPT ![e][t][b] = v]
  /\ Changed(e, t)

Detach(e, t) ==
  /\ t \in DOMAIN server[e]
  /\ server' = [server EXCEPT ![e] = Without(@, {t})]
  /\ IF DOMAIN server[e] = {t} THEN LastRemoved(e) ELSE Removed(e, t)

\* clear(), which a load begins with, dispatches "world_cleared" only:
\* reset_state() forgets everything that was to be sent.
ClearWorld ==
  /\ server' = NoEntities
  /\ tracked' = {} /\ pendingSpawn' = {} /\ pendingDespawn' = {}
  /\ dirty' = [e \in Entity |-> {}] /\ wait' = [e \in Entity |-> NoWait]
  /\ accum' = 0
  /\ unsure' = Entity
  /\ UNCHANGED <<channel, clientVars>>

(***************************************************************************)
(* The tick of the server.                                                 *)
(***************************************************************************)

FullState == [kind |-> "FullState", data |-> Networked(server)]
SpawnOf(e) == [kind |-> "Spawn", ent |-> e, data |-> server[e]]
DespawnOf(e) == [kind |-> "Despawn", ent |-> e]

\* elapsed_time_ has advanced by one tick when a bucket is looked at.
Due(e, t, b) == wait[e][t][b] <= 1
DueBuckets(e, t) == {b \in DeltaBuckets : Due(e, t, b)}

ToSend(e) == IF e \in Alive THEN dirty[e] \cap DOMAIN server[e] ELSE {}

\* Mutant: a component is clean once any bucket was sent.
StillDirtyIfNoneSent(e) == {t \in ToSend(e) : DueBuckets(e, t) = {} /\ DeltaBuckets # {}}

\* A component stays dirty while one of its buckets is not due.
StillDirty(e) == {t \in ToSend(e) : DueBuckets(e, t) # DeltaBuckets}

DeltaOf(e) ==
  [t \in {u \in ToSend(e) : DueBuckets(e, u) # {}} |->
     [b \in DueBuckets(e, t) |-> server[e][t][b]]]

\* build_delta
Delta ==
  [kind |-> "Delta",
   data |-> [e \in {f \in Entity : DOMAIN DeltaOf(f) # {}} |-> DeltaOf(e)]]

WaitAfterTick(e, t, b) ==
  IF e \in pendingDespawn THEN 0
  ELSE IF t \in ToSend(e) /\ b \in DueBuckets(e, t) THEN Interval[b]
  ELSE IF wait[e][t][b] = 0 THEN 0 ELSE wait[e][t][b] - 1

Packets(E, Op(_)) == [i \in DOMAIN SetToSeq(E) |-> Op(SetToSeq(E)[i])]
IfAny(packet) == IF packet.data = NoEntities THEN <<>> ELSE <<packet>>

ReconcileNow == accum + 1 >= ReconcileTicks

\* Mutant: no full state in a tick that has nothing else to send.
TickPacketsIdle ==
  Packets(pendingSpawn \cap Alive, SpawnOf)
    \o IfAny(Delta)
    \o Packets(pendingDespawn, DespawnOf)
    \o (IF ReconcileNow /\ pendingSpawn \cup pendingDespawn # {}
        THEN IfAny(FullState) ELSE <<>>)

TickPackets ==
  Packets(pendingSpawn \cap Alive, SpawnOf)
    \o IfAny(Delta)
    \o Packets(pendingDespawn, DespawnOf)
    \o (IF ReconcileNow THEN IfAny(FullState) ELSE <<>>)

FullStateSent == \E i \in DOMAIN TickPackets : TickPackets[i].kind = "FullState"

Tick ==
  /\ Len(channel) < MaxFlight
  /\ channel' = channel \o TickPackets
  /\ pendingSpawn' = {} /\ pendingDespawn' = {}
  /\ dirty' = [e \in Entity |-> StillDirty(e)]
  /\ wait' = [e \in Entity |-> [t \in Comp |-> [b \in Bucket |-> WaitAfterTick(e, t, b)]]]
  /\ accum' = IF ReconcileNow THEN 0 ELSE accum + 1
  /\ unsure' = IF FullStateSent THEN {} ELSE unsure
  /\ UNCHANGED <<server, tracked, clientVars, ops>>

\* request_full_state(): what is pending is sent later all the same.
RequestFullState ==
  /\ channel' = channel \o IfAny(FullState)
  /\ UNCHANGED <<server, pendingVars, accum, clientVars, unsure>>

(***************************************************************************)
(* The client.                                                             *)
(***************************************************************************)

\* apply_spawn: refused when the id is alive
ApplySpawn(p) ==
  IF p.ent \in DOMAIN client THEN UNCHANGED clientVars
  ELSE /\ client' = With(client, p.ent, p.data)
       /\ replicated' = replicated \cup {p.ent}

\* The components of an entity after a delta: a component it had not starts
\* from zero, and fields outside of the delta stay.
Merged(data, delta) ==
  [t \in DOMAIN data \cup DOMAIN delta |->
     LET old == IF t \in DOMAIN data THEN data[t] ELSE Zero
     IN IF t \in DOMAIN delta
        THEN [b \in Bucket |-> IF b \in DOMAIN delta[t] THEN delta[t][b] ELSE old[b]]
        ELSE old]

\* apply_delta: entities that are not alive are skipped
ApplyDelta(p) ==
  /\ client' = [e \in DOMAIN client |->
                  IF e \in DOMAIN p.data THEN Merged(client[e], p.data[e]) ELSE client[e]]
  /\ replicated' = replicated \cup (DOMAIN p.data \cap DOMAIN client)

\* apply_full_state: every entity of it is destroyed and built again, and what
\* was replicated before and is not in it is destroyed
ApplyFullState(p) ==
  /\ client' = [e \in (DOMAIN client \ replicated) \cup DOMAIN p.data |->
                  IF e \in DOMAIN p.data THEN p.data[e] ELSE client[e]]
  /\ replicated' = DOMAIN p.data

ApplyDespawn(p) ==
  /\ client' = Without(client, {p.ent})
  /\ replicated' = replicated \ {p.ent}

\* apply_packet
Deliver ==
  /\ channel # <<>>
  /\ channel' = Tail(channel)
  /\ LET p == Head(channel)
     IN \/ p.kind = "Spawn" /\ ApplySpawn(p)
        \/ p.kind = "Delta" /\ ApplyDelta(p)
        \/ p.kind = "FullState" /\ ApplyFullState(p)
        \/ p.kind = "Despawn" /\ ApplyDespawn(p)
  /\ UNCHANGED <<server, pendingVars, accum, unsure, ops>>

\* A client joins, with an empty world; what was sent before does not reach it.
Join ==
  /\ channel' = <<>>
  /\ client' = NoEntities /\ replicated' = {}
  /\ unsure' = Entity
  /\ UNCHANGED <<server, pendingVars, accum>>

(***************************************************************************)
(* Specification.                                                          *)
(***************************************************************************)

Init ==
  /\ server = NoEntities /\ client = NoEntities
  /\ tracked = {} /\ pendingSpawn = {} /\ pendingDespawn = {}
  /\ dirty = [e \in Entity |-> {}]
  /\ wait = [e \in Entity |-> NoWait]
  /\ accum = 0
  /\ channel = <<>>
  /\ replicated = {} /\ unsure = {}
  /\ ops = 0

WorldOp ==
  /\ \/ \E e \in Alive : Destroy(e)
     \/ \E e \in Alive, t \in Comp : Attach(e, t)
     \/ \E e \in Alive, t \in Comp, b \in Bucket, v \in Val : SetField(e, t, b, v)
     \/ \E e \in Alive, t \in Comp : Detach(e, t)
  /\ UNCHANGED <<accum, channel, clientVars>>

Op(A) == ops < MaxOps /\ ops' = ops + 1 /\ A

Next ==
  \/ \E e \in Entity : Create(e)
  \/ Op(WorldOp \/ ClearWorld \/ RequestFullState \/ Join)
  \/ Tick
  \/ Deliver

\* The application goes on calling tick(), and the connection delivers what it
\* was given.
Fairness == WF_vars(Tick) /\ WF_vars(Deliver)

Spec == Init /\ [][Next]_vars /\ Fairness

(***************************************************************************)
(* Properties.                                                             *)
(***************************************************************************)

World(w) ==
  /\ DOMAIN w \subseteq Entity
  /\ \A e \in DOMAIN w : DOMAIN w[e] \subseteq Comp /\ w[e] \in [DOMAIN w[e] -> [Bucket -> Val]]

TypeOK ==
  /\ World(server) /\ World(client)
  /\ tracked = DOMAIN Networked(server)
  /\ pendingSpawn \subseteq Entity /\ pendingDespawn \subseteq Entity
  /\ dirty \in [Entity -> SUBSET Comp]
  /\ accum \in 0..ReconcileTicks - 1
  /\ replicated \subseteq DOMAIN client

Quiet == channel = <<>> /\ pendingSpawn = {} /\ pendingDespawn = {} /\ \A e \in Entity : dirty[e] = {}

\* "entities with at least one networked component are spawned, their dirty
\* fields are pushed as deltas, and destroyed entities are despawned"
\* (README.md:536): when nothing is pending or in flight, the client has the
\* entities of the server, and every field that deltas carry has its value on
\* the server, however the writes fell between the intervals of the buckets.
\* Excepted, until the next full state, are a client that has just joined, a
\* server world that was cleared, and entities that lost their last component
\* and got one back within one tick.
QuietInSync ==
  Quiet =>
    \A e \in Entity \ unsure :
      /\ e \in DOMAIN client <=> e \in DOMAIN Networked(server)
      /\ e \in DOMAIN client =>
           \A t \in DOMAIN server[e] :
             t \in DOMAIN client[e] /\ \A b \in DeltaBuckets : client[e][t][b] = server[e][t][b]

InSync == client = Networked(server)

\* "Periodic reconciliation broadcasts a full state (anti-ghost)"
\* (README.md:536): once the server world changes no more, and if an entity is
\* left to broadcast, the client's world comes to equal it and stays so.  Late
\* joins, cleared worlds, removed components, spawn-only fields and entities
\* respawned within one tick are all repaired by the full state.
EventuallyInSyncIfAnyLeft ==
  <>[](Networked(server) # NoEntities) => <>[]InSync
=============================================================================

-------------------------- MODULE Replication_proofs --------------------------
(***************************************************************************)
(* When nothing is pending and nothing is in flight the client has what    *)
(* the server has, however writes, throttled buckets, full states and      *)
(* packets that are refused follow one another, for every set of entities, *)
(* components and buckets.                                                 *)
(*                                                                         *)
(* The invariant looks at the world that the client will have when all     *)
(* that is in flight has been delivered, and says how it differs from that *)
(* of the server: by what the server has noted for its next ticks.         *)
(***************************************************************************)
EXTENDS Replication, SequenceTheorems, FiniteSetTheorems, TLAPS

(***************************************************************************)
(* Worlds and packets.                                                     *)
(***************************************************************************)

CompData == UNION {[T -> [Bucket -> Val]] : T \in SUBSET Comp}
Worlds == UNION {[E -> CompData] : E \in SUBSET Entity}

\* What a delta says of an entity: of some components some buckets.
PartialData == UNION {[T -> UNION {[B -> Val] : B \in SUBSET Bucket}] : T \in SUBSET Comp}
Deltas == UNION {[E -> PartialData] : E \in SUBSET Entity}

SpawnPacket == [kind : {"Spawn"}, ent : Entity, data : CompData]
DeltaPacket == [kind : {"Delta"}, data : Deltas]
DespawnPacket == [kind : {"Despawn"}, ent : Entity]
FullStatePacket == [kind : {"FullState"}, data : Worlds]
Packet == SpawnPacket \cup DeltaPacket \cup DespawnPacket \cup FullStatePacket

Typed ==
  /\ server \in Worlds /\ client \in Worlds
  /\ tracked = DOMAIN Networked(server)
  /\ pendingSpawn \subseteq Entity /\ pendingDespawn \subseteq Entity
  /\ dirty \in [Entity -> SUBSET Comp]
  /\ accum \in 0..ReconcileTicks - 1
  /\ replicated = DOMAIN client
  /\ channel \in Seq(Packet)

(***************************************************************************)
(* The invariant.                                                          *)
(***************************************************************************)

\* The world of a client after a packet.
Applied(c, p) ==
  CASE p.kind = "Spawn" -> IF p.ent \in DOMAIN c THEN c ELSE With(c, p.ent, p.data)
    [] p.kind = "Delta" -> [e \in DOMAIN c |-> IF e \in DOMAIN p.data
                                               THEN Merged(c[e], p.data[e]) ELSE c[e]]
    [] p.kind = "FullState" -> p.data
    [] p.kind = "Despawn" -> Without(c, {p.ent})

\* The packets ps, delivered one after another, make the world d of c.
Leads(c, d, ps) ==
  \E w : /\ w = [i \in 0..Len(ps) |-> w[i]]
         /\ w[0] = c /\ w[Len(ps)] = d
         /\ \A i \in 1..Len(ps) : w[i] = Applied(w[i - 1], ps[i])

\* An entity is spawned or despawned for the reason that it is, or was, tracked;
\* only where it is both does the order of a tick lead astray.
Pending ==
  /\ pendingSpawn \subseteq tracked \cup pendingDespawn
  /\ tracked \cap pendingDespawn \subseteq unsure

\* d is the world of the server but for what is pending: entities that are not
\* in it are to be spawned, those of it that are gone to be despawned, and a
\* component whose values it has not got is dirty.
Agrees(d, e) ==
  /\ e \in tracked \ pendingSpawn => e \in DOMAIN d
  /\ e \in DOMAIN d => e \in tracked \cup pendingDespawn
  /\ e \in tracked \cap DOMAIN d =>
       \A t \in DOMAIN server[e] \ dirty[e] :
         t \in DOMAIN d[e] /\ \A b \in DeltaBuckets : d[e][t][b] = server[e][t][b]

Reflects(d) == \A e \in Entity \ unsure : Agrees(d, e)

OnTheWay == \E d \in Worlds : Leads(client, d, channel) /\ Reflects(d)

ReplicationInv == Typed /\ Pending /\ OnTheWay

(***************************************************************************)
(* Worlds.                                                                 *)
(***************************************************************************)

\* A component's fields, and an entity's components, are of their types.
LEMMA CompDataFacts ==
  ASSUME NEW x
  PROVE  x \in CompData <=>
           /\ DOMAIN x \subseteq Comp /\ x = [t \in DOMAIN x |-> x[t]]
           /\ \A t \in DOMAIN x : x[t] \in [Bucket -> Val]
BY DEF CompData

\* A world is a function on some entities.
LEMMA WorldFacts ==
  ASSUME NEW w
  PROVE  w \in Worlds <=>
           /\ DOMAIN w \subseteq Entity /\ w = [e \in DOMAIN w |-> w[e]]
           /\ \A e \in DOMAIN w : w[e] \in CompData
BY DEF Worlds

\* A field's default is a value.
LEMMA ZeroFacts == Zero \in [Bucket -> Val]
BY ReplicationAssumption DEF Zero, ReplicationAssumption

\* What adding to a function and taking from it give.
LEMMA WithFacts ==
  ASSUME NEW s, NEW e, NEW x
  PROVE  /\ DOMAIN With(s, e, x) = DOMAIN s \cup {e}
         /\ With(s, e, x)[e] = x
         /\ \A f \in DOMAIN s : f # e => With(s, e, x)[f] = s[f]
BY DEF With

\* Taking from a function leaves the others.
LEMMA WithoutFacts ==
  ASSUME NEW s, NEW E
  PROVE  /\ DOMAIN Without(s, E) = DOMAIN s \ E
         /\ Without(s, E) = [f \in DOMAIN s \ E |-> s[f]]
BY DEF Without, Restrict

\* The networked entities are those with a component, as they are.
LEMMA NetworkedFacts ==
  ASSUME NEW s
  PROVE  /\ DOMAIN Networked(s) = {e \in DOMAIN s : DOMAIN s[e] # {}}
         /\ Networked(s) = [e \in {f \in DOMAIN s : DOMAIN s[f] # {}} |-> s[e]]
BY DEF Networked, Restrict

\* A world with an entity more, or with an entity changed, is a world.
LEMMA WithIsWorld ==
  ASSUME NEW w \in Worlds, NEW e \in Entity, NEW x \in CompData
  PROVE  With(w, e, x) \in Worlds
<1> DEFINE v == With(w, e, x)
<1>1. /\ DOMAIN v = DOMAIN w \cup {e} /\ v = [f \in DOMAIN v |-> v[f]]
      /\ v[e] = x /\ \A f \in DOMAIN w : f # e => v[f] = w[f]
  BY DEF With
<1> HIDE DEF v
<1>2. DOMAIN v \subseteq Entity /\ \A f \in DOMAIN v : v[f] \in CompData
  BY <1>1, WorldFacts
<1>3. v \in Worlds
  BY <1>1, <1>2, WorldFacts
<1> QED BY <1>3 DEF v

\* A world without some entities is a world.
LEMMA WithoutIsWorld ==
  ASSUME NEW w \in Worlds, NEW E
  PROVE  Without(w, E) \in Worlds
<1> DEFINE v == Without(w, E)
<1>1. /\ DOMAIN v = DOMAIN w \ E /\ v = [f \in DOMAIN v |-> v[f]]
      /\ \A f \in DOMAIN v : v[f] = w[f]
  BY DEF Without, Restrict
<1> HIDE DEF v
<1>2. DOMAIN v \subseteq Entity /\ \A f \in DOMAIN v : v[f] \in CompData
  BY <1>1, WorldFacts
<1>3. v \in Worlds
  BY <1>1, <1>2, WorldFacts
<1> QED BY <1>3 DEF v

\* What is broadcast of a world is a world.
LEMMA NetworkedIsWorld ==
  ASSUME NEW w \in Worlds
  PROVE  Networked(w) \in Worlds
<1>1. Networked(w) = Without(w, {e \in DOMAIN w : DOMAIN w[e] = {}})
  BY DEF Networked, Without, Restrict
<1> QED BY <1>1, WithoutIsWorld

\* The world without entities.
LEMMA NoEntitiesFacts ==
  /\ NoEntities \in Worlds /\ DOMAIN NoEntities = {}
  /\ \A w \in Worlds : DOMAIN w = {} => w = NoEntities
  /\ DOMAIN Networked(NoEntities) = {}
BY WorldFacts DEF NoEntities, Networked, Restrict

\* What a delta makes of an entity.
LEMMA MergedIsCompData ==
  ASSUME NEW x \in CompData, NEW y \in PartialData
  PROVE  Merged(x, y) \in CompData
<1>1. /\ DOMAIN y \subseteq Comp
      /\ \A t \in DOMAIN y : \E B \in SUBSET Bucket : y[t] \in [B -> Val]
  BY DEF PartialData
<1>2. DOMAIN Merged(x, y) = DOMAIN x \cup DOMAIN y
  BY DEF Merged
<1>3. ASSUME NEW t \in DOMAIN x \cup DOMAIN y
      PROVE  Merged(x, y)[t] \in [Bucket -> Val]
  <2> DEFINE old == IF t \in DOMAIN x THEN x[t] ELSE Zero
  <2>1. old \in [Bucket -> Val]
    BY CompDataFacts, ZeroFacts
  <2>2. CASE t \notin DOMAIN y
    BY <2>1, <2>2 DEF Merged
  <2>3. CASE t \in DOMAIN y
    <3>1. Merged(x, y)[t] = [b \in Bucket |-> IF b \in DOMAIN y[t] THEN y[t][b] ELSE old[b]]
      BY <2>3 DEF Merged
    <3>2. \A b \in DOMAIN y[t] : y[t][b] \in Val
      BY <1>1, <2>3
    <3> HIDE DEF old
    <3> QED BY <2>1, <3>1, <3>2
  <2> QED BY <2>2, <2>3
<1>4. Merged(x, y) = [t \in DOMAIN Merged(x, y) |-> Merged(x, y)[t]]
  BY DEF Merged
<1> QED BY <1>1, <1>2, <1>3, <1>4, CompDataFacts

(***************************************************************************)
(* Delivery.                                                               *)
(***************************************************************************)

\* What a packet of each kind holds.
LEMMA PacketFacts ==
  ASSUME NEW p \in Packet
  PROVE  \/ p.kind = "Spawn" /\ p.ent \in Entity /\ p.data \in CompData
         \/ p.kind = "Delta" /\ p.data \in Deltas
         \/ p.kind = "Despawn" /\ p.ent \in Entity
         \/ p.kind = "FullState" /\ p.data \in Worlds
BY DEF Packet, SpawnPacket, DeltaPacket, DespawnPacket, FullStatePacket

\* A packet makes a world of a world.
LEMMA AppliedIsWorld ==
  ASSUME NEW c \in Worlds, NEW p \in Packet
  PROVE  Applied(c, p) \in Worlds
<1>1. CASE p.kind = "Spawn"
  BY <1>1, PacketFacts, WithIsWorld DEF Applied
<1>2. CASE p.kind = "Delta"
  <2>1. p.data \in Deltas
    BY <1>2, PacketFacts
  <2>2. \A e \in DOMAIN p.data : p.data[e] \in PartialData
    BY <2>1 DEF Deltas
  <2> DEFINE d == [e \in DOMAIN c |-> IF e \in DOMAIN p.data
                                      THEN Merged(c[e], p.data[e]) ELSE c[e]]
  <2>3. \A e \in DOMAIN c : d[e] \in CompData
    BY <2>2, WorldFacts, MergedIsCompData
  <2>4. DOMAIN d = DOMAIN c /\ d = [e \in DOMAIN d |-> d[e]] /\ DOMAIN c \subseteq Entity
    BY WorldFacts
  <2>5. Applied(c, p) = d
    BY <1>2 DEF Applied
  <2> HIDE DEF d
  <2> QED BY <2>3, <2>4, <2>5, WorldFacts
<1>3. CASE p.kind = "Despawn"
  BY <1>3, WithoutIsWorld DEF Applied
<1>4. CASE p.kind = "FullState"
  BY <1>4, PacketFacts DEF Applied
<1> QED BY <1>1, <1>2, <1>3, <1>4, PacketFacts

\* The client applies the first packet in flight.
LEMMA DeliverApplies ==
  ASSUME Typed, Deliver
  PROVE  /\ channel # <<>> /\ Head(channel) \in Packet /\ channel' = Tail(channel)
         /\ client' = Applied(client, Head(channel))
         /\ replicated' = DOMAIN client'
<1> DEFINE p == Head(channel)
<1>1. channel # <<>> /\ channel' = Tail(channel) /\ p \in Packet
  BY HeadTailProperties DEF Typed, Deliver
<1>2. client \in Worlds /\ replicated = DOMAIN client
  BY DEF Typed
<1>3. /\ p.kind = "Spawn" => ApplySpawn(p)
      /\ p.kind = "Delta" => ApplyDelta(p)
      /\ p.kind = "FullState" => ApplyFullState(p)
      /\ p.kind = "Despawn" => ApplyDespawn(p)
  BY DEF Deliver
<1> HIDE DEF p
<1>4. CASE p.kind = "Spawn"
  <2>1. CASE p.ent \in DOMAIN client
    <3>1. client' = client /\ replicated' = replicated
      BY <1>3, <1>4, <2>1 DEF ApplySpawn, clientVars
    <3> QED BY <1>1, <1>2, <1>4, <2>1, <3>1 DEF Applied, p
  <2>2. CASE p.ent \notin DOMAIN client
    <3>1. client' = With(client, p.ent, p.data) /\ replicated' = replicated \cup {p.ent}
      BY <1>3, <1>4, <2>2 DEF ApplySpawn
    <3>2. DOMAIN client' = DOMAIN client \cup {p.ent}
      BY <3>1 DEF With
    <3> QED BY <1>1, <1>2, <1>4, <2>2, <3>1, <3>2 DEF Applied, p
  <2> QED BY <2>1, <2>2
<1>5. CASE p.kind = "Delta"
  <2>1. client' = Applied(client, p) /\ DOMAIN client' = DOMAIN client
    BY <1>3, <1>5 DEF ApplyDelta, Applied
  <2>2. replicated' = replicated
    BY <1>2, <1>3, <1>5 DEF ApplyDelta
  <2> QED BY <1>1, <1>2, <2>1, <2>2 DEF p
<1>6. CASE p.kind = "FullState"
  <2>1. p.data \in Worlds /\ p.data = [e \in DOMAIN p.data |-> p.data[e]]
    BY <1>1, <1>6, PacketFacts, WorldFacts
  <2>2. client' = p.data
    BY <1>2, <1>3, <1>6, <2>1 DEF ApplyFullState
  <2>3. Applied(client, p) = p.data
    BY <1>6 DEF Applied
  <2> QED BY <1>1, <1>3, <1>6, <2>2, <2>3 DEF ApplyFullState, p
<1>7. CASE p.kind = "Despawn"
  BY <1>1, <1>2, <1>3, <1>7, WithoutFacts DEF ApplyDespawn, Applied, p
<1> QED BY <1>1, <1>4, <1>5, <1>6, <1>7, PacketFacts

(***************************************************************************)
(* Operations on the server world.                                         *)
(***************************************************************************)

\* Nothing but e changes in the server world.
Only(e) ==
  /\ server' \in Worlds
  /\ \A f \in Entity \ {e} :
       /\ f \in DOMAIN server' <=> f \in DOMAIN server
       /\ f \in DOMAIN server => server'[f] = server[f]

Tracks(e) == e \in DOMAIN server /\ DOMAIN server[e] # {}

\* Those who are tracked have a networked component.
LEMMA TrackedFacts ==
  ASSUME tracked = DOMAIN Networked(server)
  PROVE  \A e : e \in tracked <=> Tracks(e)
<1>1. DOMAIN Networked(server) = {e \in DOMAIN server : DOMAIN server[e] # {}}
  BY NetworkedFacts
<1> QED BY <1>1 DEF Tracks

\* Events of an entity leave the others as they are: then tracked remains the
\* set of those with a component if it is right about that entity.
LEMMA TrackedStays ==
  ASSUME Typed, NEW e \in Entity, Only(e),
         tracked' \ {e} = tracked \ {e}, e \in tracked' <=> Tracks(e)'
  PROVE  tracked' = DOMAIN Networked(server')
<1>1. \A f : f \in tracked <=> f \in DOMAIN server /\ DOMAIN server[f] # {}
  BY TrackedFacts DEF Typed, Tracks
<1>2. DOMAIN server \subseteq Entity /\ DOMAIN server' \subseteq Entity
  BY WorldFacts DEF Typed, Only
<1>3. \A f : f \in tracked' <=> f \in DOMAIN server' /\ DOMAIN server'[f] # {}
  BY <1>1, <1>2 DEF Only, Tracks
<1> QED BY <1>3, NetworkedFacts

\* Operations change the entity they are called for only.
LEMMA CreateOnly ==
  ASSUME Typed, NEW e \in Entity, Create(e)
  PROVE  Only(e) /\ e \in DOMAIN server' /\ server'[e] = [t \in {} |-> 0] /\ e \notin DOMAIN server
<1> DEFINE x == [t \in {} |-> 0]
<1>1. server \in Worlds /\ server' = With(server, e, x) /\ e \notin DOMAIN server
  BY DEF Typed, Create, Alive
<1>2. x \in CompData
  BY CompDataFacts
<1> HIDE DEF x
<1>3. With(server, e, x) \in Worlds
  BY <1>1, <1>2, WithIsWorld
<1>4. /\ DOMAIN server' = DOMAIN server \cup {e} /\ server'[e] = x
      /\ \A f \in DOMAIN server : f # e => server'[f] = server[f]
  BY <1>1 DEF With
<1> QED BY <1>1, <1>3, <1>4 DEF Only, x

\* A world in which an entity has other components is a world.
LEMMA ChangedOnly ==
  ASSUME Typed, NEW e \in DOMAIN server, NEW x \in CompData,
         server' = [server EXCEPT ![e] = x]
  PROVE  /\ Only(e) /\ e \in Entity
         /\ e \in DOMAIN server' /\ server'[e] = x
<1>1. /\ DOMAIN server \subseteq Entity /\ server = [f \in DOMAIN server |-> server[f]]
      /\ \A f \in DOMAIN server : server[f] \in CompData
  BY WorldFacts DEF Typed
<1>2. /\ DOMAIN server' = DOMAIN server /\ server'[e] = x
      /\ \A f \in DOMAIN server : f # e => server'[f] = server[f]
      /\ server' = [f \in DOMAIN server' |-> server'[f]]
  BY <1>1
<1>3. \A f \in DOMAIN server' : server'[f] \in CompData
  BY <1>1, <1>2
<1>4. server' \in Worlds
  BY <1>1, <1>2, <1>3, WorldFacts
<1> QED BY <1>1, <1>2, <1>4 DEF Only

\* An entity gets a component,
LEMMA AttachOnly ==
  ASSUME Typed, NEW e \in DOMAIN server, NEW t \in Comp, Attach(e, t)
  PROVE  /\ Only(e) /\ e \in Entity /\ e \in DOMAIN server'
         /\ t \notin DOMAIN server[e] /\ DOMAIN server'[e] = DOMAIN server[e] \cup {t}
         /\ \A u \in DOMAIN server[e] : server'[e][u] = server[e][u]
<1> DEFINE y == server[e]
           x == With(y, t, Zero)
<1>1. y \in CompData /\ t \notin DOMAIN y /\ server' = [server EXCEPT ![e] = x]
  BY WorldFacts DEF Typed, Attach
<1> HIDE DEF y
<1>2. /\ DOMAIN x = DOMAIN y \cup {t} /\ x = [u \in DOMAIN x |-> x[u]] /\ x[t] = Zero
      /\ \A u \in DOMAIN y : u # t => x[u] = y[u]
  BY DEF With
<1> HIDE DEF x
<1>3. x \in CompData
  BY <1>1, <1>2, CompDataFacts, ZeroFacts
<1>4. Only(e) /\ e \in Entity /\ e \in DOMAIN server' /\ server'[e] = x
  BY <1>1, <1>3, ChangedOnly
<1> QED BY <1>1, <1>2, <1>4 DEF y

\* loses one,
LEMMA DetachOnly ==
  ASSUME Typed, NEW e \in DOMAIN server, NEW t \in Comp, Detach(e, t)
  PROVE  /\ Only(e) /\ e \in Entity /\ e \in DOMAIN server'
         /\ t \in DOMAIN server[e] /\ DOMAIN server'[e] = DOMAIN server[e] \ {t}
         /\ \A u \in DOMAIN server'[e] : server'[e][u] = server[e][u]
<1> DEFINE y == server[e]
           x == Without(y, {t})
<1>1. y \in CompData /\ t \in DOMAIN y /\ server' = [server EXCEPT ![e] = x]
  BY WorldFacts DEF Typed, Detach
<1> HIDE DEF y
<1>2. /\ DOMAIN x = DOMAIN y \ {t} /\ x = [u \in DOMAIN x |-> x[u]]
      /\ \A u \in DOMAIN x : x[u] = y[u]
  BY DEF Without, Restrict
<1> HIDE DEF x
<1>3. x \in CompData
  BY <1>1, <1>2, CompDataFacts
<1>4. Only(e) /\ e \in Entity /\ e \in DOMAIN server' /\ server'[e] = x
  BY <1>1, <1>3, ChangedOnly
<1> QED BY <1>1, <1>2, <1>4 DEF y

\* has a field written,
LEMMA SetFieldOnly ==
  ASSUME Typed, NEW e \in DOMAIN server, NEW t \in Comp, NEW b \in Bucket, NEW v \in Val,
         SetField(e, t, b, v)
  PROVE  /\ Only(e) /\ e \in Entity /\ e \in DOMAIN server'
         /\ t \in DOMAIN server[e] /\ DOMAIN server'[e] = DOMAIN server[e]
         /\ \A u \in DOMAIN server[e] : u # t => server'[e][u] = server[e][u]
<1> DEFINE y == server[e]
           x == [y EXCEPT ![t][b] = v]
<1>1. y \in CompData /\ t \in DOMAIN y /\ server' = [server EXCEPT ![e] = x]
  BY WorldFacts DEF Typed, SetField
<1> HIDE DEF y
<1>2. /\ DOMAIN x = DOMAIN y /\ x = [u \in DOMAIN x |-> x[u]]
      /\ \A u \in DOMAIN x : u # t => x[u] = y[u]
      /\ x[t] = [y[t] EXCEPT ![b] = v]
  BY <1>1, CompDataFacts
<1> HIDE DEF x
<1>3. \A u \in DOMAIN x : x[u] \in [Bucket -> Val]
  <2>1. \A u \in DOMAIN y : y[u] \in [Bucket -> Val]
    BY <1>1, CompDataFacts
  <2> QED BY <1>1, <1>2, <2>1
<1>4. DOMAIN x \subseteq Comp
  BY <1>1, <1>2, CompDataFacts
<1>5. x \in CompData
  BY <1>2, <1>3, <1>4, CompDataFacts
<1>6. Only(e) /\ e \in Entity /\ e \in DOMAIN server' /\ server'[e] = x
  BY <1>1, <1>5, ChangedOnly
<1> QED BY <1>1, <1>2, <1>6 DEF y

\* or is gone.
LEMMA DestroyOnly ==
  ASSUME Typed, NEW e \in DOMAIN server, Destroy(e)
  PROVE  Only(e) /\ e \in Entity /\ e \notin DOMAIN server'
<1>1. server \in Worlds /\ server' = Without(server, {e})
  BY DEF Typed, Destroy
<1>2. server' \in Worlds
  BY <1>1, WithoutIsWorld
<1>3. DOMAIN server' = DOMAIN server \ {e} /\ \A f \in DOMAIN server' : server'[f] = server[f]
  BY <1>1 DEF Without, Restrict
<1>4. e \in Entity
  BY <1>1, WorldFacts
<1> QED BY <1>2, <1>3, <1>4 DEF Only

(***************************************************************************)
(* Events of the server world.                                             *)
(***************************************************************************)

\* Nothing but e changes in what the server has noted for its next ticks.
NotedOnly(e) ==
  /\ tracked' \ {e} = tracked \ {e}
  /\ pendingSpawn' \ {e} = pendingSpawn \ {e}
  /\ pendingDespawn' \ {e} = pendingDespawn \ {e}
  /\ dirty' \in [Entity -> SUBSET Comp]
  /\ \A f \in Entity \ {e} : dirty'[f] = dirty[f]
  /\ unsure \subseteq unsure'
  /\ UNCHANGED <<channel, client, replicated, accum>>

\* What is noted of e after the step is right.
NotedRight(e) ==
  /\ e \in tracked' <=> Tracks(e)'
  /\ e \in pendingSpawn' => e \in tracked' \cup pendingDespawn'
  /\ e \in tracked' \cap pendingDespawn' => e \in unsure'
  /\ e \notin unsure' => \A d : Agrees(d, e) => Agrees(d, e)'

\* A step of the server world that keeps the invariant and the way to it.
Kept ==
  /\ Typed' /\ Pending'
  /\ UNCHANGED <<channel, client>>
  /\ \A d : Reflects(d) => Reflects(d)'

\* A step that concerns one entity keeps the invariant if it does for this one.
LEMMA EntityKept ==
  ASSUME Typed, Pending, NEW e \in Entity, Only(e), NotedOnly(e), NotedRight(e)
  PROVE  Kept
<1>1. Typed'
  <2>1. tracked' = DOMAIN Networked(server')
    BY TrackedStays DEF NotedOnly, NotedRight
  <2>2. pendingSpawn' \subseteq Entity /\ pendingDespawn' \subseteq Entity
    BY DEF Typed, NotedOnly
  <2>3. Networked(server)' = Networked(server')
    BY DEF Networked
  <2> QED BY <2>1, <2>2, <2>3 DEF Typed, NotedOnly, Only
<1>2. Pending'
  BY DEF Pending, NotedOnly, NotedRight
<1>3. ASSUME NEW d, NEW f \in Entity \ {e}, Agrees(d, f)
      PROVE  Agrees(d, f)'
  <2>1. /\ f \in tracked' <=> f \in tracked
        /\ f \in pendingSpawn' <=> f \in pendingSpawn
        /\ f \in pendingDespawn' <=> f \in pendingDespawn
        /\ dirty'[f] = dirty[f]
    BY DEF NotedOnly
  <2>2. f \in tracked => server'[f] = server[f]
    BY TrackedFacts DEF Typed, Only, Tracks
  <2> QED BY <1>3, <2>1, <2>2 DEF Agrees, DeltaBuckets
<1>4. \A d : Reflects(d) => Reflects(d)'
  BY <1>3 DEF Reflects, NotedOnly, NotedRight
<1> QED BY <1>1, <1>2, <1>4 DEF Kept, NotedOnly

\* A component is added: a spawn is noted, or the component is dirty.
LEMMA AttachKept ==
  ASSUME Typed, Pending, NEW e \in DOMAIN server, NEW t \in Comp, Attach(e, t),
         UNCHANGED <<accum, channel, clientVars>>
  PROVE  Kept
<1>1. /\ Only(e) /\ e \in Entity /\ e \in DOMAIN server'
      /\ t \notin DOMAIN server[e] /\ DOMAIN server'[e] = DOMAIN server[e] \cup {t}
      /\ \A u \in DOMAIN server[e] : server'[e][u] = server[e][u]
  BY AttachOnly
<1>2. dirty \in [Entity -> SUBSET Comp] /\ UNCHANGED <<client, replicated>>
  BY DEF Typed, clientVars
<1>3. Added(e, t)
  BY DEF Attach
<1>4. Tracks(e)'
  BY <1>1 DEF Tracks
<1>5. CASE e \in tracked
  <2>1. /\ dirty' = [dirty EXCEPT ![e] = @ \cup {t}]
        /\ UNCHANGED <<tracked, pendingSpawn, pendingDespawn, unsure>>
    BY <1>3, <1>5 DEF Added
  <2>2. NotedOnly(e)
    BY <1>1, <1>2, <2>1 DEF NotedOnly
  <2>3. ASSUME NEW d, Agrees(d, e) PROVE Agrees(d, e)'
    <3>1. dirty'[e] = dirty[e] \cup {t}
      BY <1>1, <1>2, <2>1
    <3> QED BY <1>1, <2>1, <2>3, <3>1 DEF Agrees, DeltaBuckets
  <2>4. NotedRight(e)
    BY <1>4, <1>5, <2>1, <2>3 DEF NotedRight, Pending
  <2> QED BY <1>1, <2>2, <2>4, EntityKept
<1>6. CASE e \notin tracked
  <2>1. /\ tracked' = tracked \cup {e} /\ pendingSpawn' = pendingSpawn \cup {e}
        /\ unsure' = unsure \cup (pendingDespawn \cap {e})
        /\ UNCHANGED <<pendingDespawn, dirty>>
    BY <1>3, <1>6 DEF Added
  <2>2. NotedOnly(e)
    BY <1>1, <1>2, <2>1 DEF NotedOnly
  <2>3. ASSUME NEW d, Agrees(d, e), e \notin unsure' PROVE Agrees(d, e)'
    <3>1. e \notin DOMAIN d
      BY <1>6, <2>1, <2>3 DEF Agrees
    <3> QED BY <2>1, <3>1 DEF Agrees
  <2>4. NotedRight(e)
    BY <1>4, <2>1, <2>3 DEF NotedRight
  <2> QED BY <1>1, <2>2, <2>4, EntityKept
<1> QED BY <1>5, <1>6

\* A field is written: its component is dirty.
LEMMA SetFieldKept ==
  ASSUME Typed, Pending, NEW e \in DOMAIN server, NEW t \in Comp, NEW b \in Bucket, NEW v \in Val,
         SetField(e, t, b, v), UNCHANGED <<accum, channel, clientVars>>
  PROVE  Kept
<1>1. /\ Only(e) /\ e \in Entity /\ e \in DOMAIN server'
      /\ t \in DOMAIN server[e] /\ DOMAIN server'[e] = DOMAIN server[e]
      /\ \A u \in DOMAIN server[e] : u # t => server'[e][u] = server[e][u]
  BY SetFieldOnly
<1>2. dirty \in [Entity -> SUBSET Comp] /\ UNCHANGED <<client, replicated>>
  BY DEF Typed, clientVars
<1>3. e \in tracked /\ Tracks(e)'
  BY <1>1, TrackedFacts DEF Typed, Tracks
<1>4. /\ dirty' = [dirty EXCEPT ![e] = @ \cup {t}]
      /\ UNCHANGED <<tracked, pendingSpawn, pendingDespawn, unsure>>
  BY <1>3 DEF SetField, Changed
<1>5. NotedOnly(e)
  BY <1>1, <1>2, <1>4 DEF NotedOnly
<1>6. ASSUME NEW d, Agrees(d, e) PROVE Agrees(d, e)'
  <2>1. dirty'[e] = dirty[e] \cup {t}
    BY <1>1, <1>2, <1>4
  <2> QED BY <1>1, <1>4, <1>6, <2>1 DEF Agrees, DeltaBuckets
<1>7. NotedRight(e)
  BY <1>3, <1>4, <1>6 DEF NotedRight, Pending
<1> QED BY <1>1, <1>5, <1>7, EntityKept

\* The last component goes: a despawn is noted.
LEMMA LastRemovedKept ==
  ASSUME Typed, Pending, NEW e \in tracked, Only(e), ~Tracks(e)', LastRemoved(e),
         UNCHANGED <<accum, channel, clientVars>>
  PROVE  Kept
<1>1. dirty \in [Entity -> SUBSET Comp] /\ UNCHANGED <<client, replicated>> /\ e \in Entity
  BY TrackedFacts, WorldFacts DEF Typed, clientVars, Tracks
<1>2. /\ tracked' = tracked \ {e} /\ dirty' = [dirty EXCEPT ![e] = {}]
      /\ pendingDespawn' = pendingDespawn \cup {e}
      /\ UNCHANGED <<pendingSpawn, unsure>>
  BY DEF LastRemoved
<1>3. NotedOnly(e)
  BY <1>1, <1>2 DEF NotedOnly
<1>4. \A d : Agrees(d, e)'
  BY <1>2 DEF Agrees
<1>5. NotedRight(e)
  BY <1>2, <1>4 DEF NotedRight
<1> QED BY <1>1, <1>3, <1>5, EntityKept

\* A component goes: it is not sent.
LEMMA DetachKept ==
  ASSUME Typed, Pending, NEW e \in DOMAIN server, NEW t \in Comp, Detach(e, t),
         UNCHANGED <<accum, channel, clientVars>>
  PROVE  Kept
<1>1. /\ Only(e) /\ e \in Entity /\ e \in DOMAIN server'
      /\ t \in DOMAIN server[e] /\ DOMAIN server'[e] = DOMAIN server[e] \ {t}
      /\ \A u \in DOMAIN server'[e] : server'[e][u] = server[e][u]
  BY DetachOnly
<1>2. dirty \in [Entity -> SUBSET Comp] /\ UNCHANGED <<client, replicated>>
  BY DEF Typed, clientVars
<1>3. e \in tracked
  BY <1>1, TrackedFacts DEF Typed, Tracks
<1>4. CASE DOMAIN server[e] = {t}
  BY <1>1, <1>3, <1>4, LastRemovedKept DEF Detach, Tracks
<1>5. CASE DOMAIN server[e] # {t}
  <2>1. /\ dirty' = [dirty EXCEPT ![e] = @ \ {t}]
        /\ UNCHANGED <<tracked, pendingSpawn, pendingDespawn, unsure>>
    BY <1>5 DEF Detach, Removed
  <2>2. NotedOnly(e)
    BY <1>1, <1>2, <2>1 DEF NotedOnly
  <2>3. ASSUME NEW d, Agrees(d, e) PROVE Agrees(d, e)'
    <3>1. dirty'[e] = dirty[e] \ {t}
      BY <1>1, <1>2, <2>1
    <3> QED BY <1>1, <2>1, <2>3, <3>1 DEF Agrees, DeltaBuckets
  <2>4. Tracks(e)'
    BY <1>1, <1>5 DEF Tracks
  <2>5. NotedRight(e)
    BY <1>3, <2>1, <2>3, <2>4 DEF NotedRight, Pending
  <2> QED BY <1>1, <2>2, <2>5, EntityKept
<1> QED BY <1>4, <1>5

\* What is noted does not change with an entity that has no components.
LEMMA QuietKept ==
  ASSUME Typed, Pending, NEW e \in Entity, Only(e), ~Tracks(e), ~Tracks(e)',
         UNCHANGED <<pendingVars, unsure, accum, channel, clientVars>>
  PROVE  Kept
<1>1. dirty \in [Entity -> SUBSET Comp] /\ UNCHANGED <<client, replicated>> /\ e \notin tracked
  BY TrackedFacts DEF Typed, clientVars
<1>2. UNCHANGED <<tracked, pendingSpawn, pendingDespawn, dirty, unsure>>
  BY DEF pendingVars
<1>3. NotedOnly(e)
  BY <1>1, <1>2 DEF NotedOnly
<1>4. \A d : Agrees(d, e) => Agrees(d, e)'
  BY <1>1, <1>2 DEF Agrees
<1>5. NotedRight(e)
  BY <1>1, <1>2, <1>4 DEF NotedRight, Pending
<1> QED BY <1>3, <1>5, EntityKept

\* An entity is created, or destroyed with all its components.
LEMMA CreateKept ==
  ASSUME Typed, Pending, NEW e \in Entity, Create(e)
  PROVE  Kept
<1>1. Only(e) /\ ~Tracks(e) /\ ~Tracks(e)'
  BY CreateOnly DEF Tracks
<1> QED BY <1>1, QuietKept DEF Create

\* An entity is destroyed.
LEMMA DestroyKept ==
  ASSUME Typed, Pending, NEW e \in DOMAIN server, Destroy(e),
         UNCHANGED <<accum, channel, clientVars>>
  PROVE  Kept
<1>1. Only(e) /\ e \in Entity /\ ~Tracks(e)'
  BY DestroyOnly DEF Tracks
<1>2. CASE DOMAIN server[e] = {}
  <2>1. ~Tracks(e) /\ UNCHANGED <<pendingVars, unsure>>
    BY <1>2 DEF Destroy, Tracks
  <2> QED BY <1>1, <2>1, QuietKept
<1>3. CASE DOMAIN server[e] # {}
  <2>1. e \in tracked /\ LastRemoved(e)
    BY <1>3, TrackedFacts DEF Destroy, Typed, Tracks
  <2> QED BY <1>1, <2>1, LastRemovedKept
<1> QED BY <1>2, <1>3

\* Every operation on the world is one of these.
LEMMA WorldOpKept ==
  ASSUME Typed, Pending, WorldOp
  PROVE  Kept
BY DestroyKept, AttachKept, SetFieldKept, DetachKept DEF WorldOp, Alive

(***************************************************************************)
(* Packets delivered one after another.                                    *)
(***************************************************************************)

\* No packet changes nothing.
LEMMA NoneLead ==
  ASSUME NEW c, NEW d
  PROVE  Leads(c, d, <<>>) <=> c = d
<1>1. Len(<<>>) = 0 /\ 0..0 = {0}
  OBVIOUS
<1>2. ASSUME c = d PROVE Leads(c, d, <<>>)
  <2> DEFINE w == [i \in 0..0 |-> c]
  <2>1. w = [i \in 0..Len(<<>>) |-> w[i]] /\ w[0] = c /\ w[Len(<<>>)] = d
    BY <1>1, <1>2
  <2> HIDE DEF w
  <2> QED BY <1>1, <2>1 DEF Leads
<1> QED BY <1>1, <1>2 DEF Leads

\* One packet is applied.
LEMMA OneLeads ==
  ASSUME NEW c, NEW p
  PROVE  Leads(c, Applied(c, p), <<p>>)
<1> DEFINE d == Applied(c, p)
           ps == <<p>>
           w == [i \in 0..1 |-> IF i = 0 THEN c ELSE d]
<1>1. Len(ps) = 1 /\ ps[1] = p /\ \A i \in 1..1 : i = 1
  OBVIOUS
<1>2. w = [i \in 0..1 |-> w[i]] /\ w[0] = c /\ w[1] = d
  OBVIOUS
<1>3. w[1] = Applied(w[1 - 1], ps[1])
  BY <1>1, <1>2
<1> HIDE DEF w, ps
<1>4. Leads(c, d, ps)
  BY <1>1, <1>2, <1>3 DEF Leads
<1> QED BY <1>4 DEF ps

\* What comes behind is applied to what came of the first.
LEMMA LeadsOn ==
  ASSUME NEW S, NEW p \in Seq(S), NEW q \in Seq(S), NEW c, NEW d, NEW f,
         Leads(c, d, p), Leads(d, f, q)
  PROVE  Leads(c, f, p \o q)
<1>1. PICK v : /\ v = [i \in 0..Len(p) |-> v[i]] /\ v[0] = c /\ v[Len(p)] = d
               /\ \A i \in 1..Len(p) : v[i] = Applied(v[i - 1], p[i])
  BY DEF Leads
<1>2. PICK w : /\ w = [i \in 0..Len(q) |-> w[i]] /\ w[0] = d /\ w[Len(q)] = f
               /\ \A i \in 1..Len(q) : w[i] = Applied(w[i - 1], q[i])
  BY DEF Leads
<1> DEFINE m == Len(p)
           n == Len(q)
           pq == p \o q
           u == [i \in 0..m + n |-> IF i <= m THEN v[i] ELSE w[i - m]]
<1>3. m \in Nat /\ n \in Nat /\ Len(pq) = m + n
  BY LenProperties, ConcatProperties
<1>4. \A i \in 1..m + n : pq[i] = IF i <= m THEN p[i] ELSE q[i - m]
  BY ConcatProperties
<1> HIDE DEF m, n, pq
<1>5. /\ u = [i \in 0..m + n |-> u[i]]
      /\ u[0] = c /\ u[m] = d
      /\ \A i \in 0..m : u[i] = v[i]
      /\ \A i \in 0..m + n : i > m => u[i] = w[i - m]
  BY <1>1, <1>2, <1>3 DEF m
<1>6. u[m + n] = f
  <2>1. CASE n = 0
    BY <1>2, <1>3, <1>5, <2>1 DEF n
  <2>2. CASE n > 0
    BY <1>2, <1>3, <1>5, <2>2 DEF n
  <2> QED BY <1>3, <2>1, <2>2
<1> HIDE DEF u
<1>7. ASSUME NEW i \in 1..m + n
      PROVE  u[i] = Applied(u[i - 1], pq[i])
  <2>1. CASE i <= m
    <3>1. i \in 0..m /\ i - 1 \in 0..m /\ i \in 1..m
      BY <1>3, <2>1
    <3>2. u[i] = v[i] /\ u[i - 1] = v[i - 1]
      BY <1>5, <3>1
    <3>3. pq[i] = p[i]
      BY <1>4, <2>1
    <3>4. v[i] = Applied(v[i - 1], p[i])
      BY <1>1, <3>1 DEF m
    <3> QED BY <3>2, <3>3, <3>4
  <2>2. CASE i = m + 1
    <3>1. i \in 0..m + n /\ i > m /\ i - m = 1 /\ i - 1 = m /\ ~(i <= m) /\ 1 \in 1..n
      BY <1>3, <2>2
    <3>2. u[i] = w[1] /\ u[i - 1] = d /\ pq[i] = q[1] /\ 1 \in 1..n
      <4>1. u[i] = w[i - m] /\ u[i - 1] = d
        BY <1>5, <3>1
      <4>2. pq[i] = q[i - m]
        BY <1>4, <3>1
      <4> QED BY <3>1, <4>1, <4>2
    <3>3. w[1] = Applied(w[1 - 1], q[1])
      BY <1>2, <3>2 DEF n
    <3> QED BY <1>2, <3>2, <3>3
  <2>3. CASE i > m + 1
    <3>1. /\ i \in 0..m + n /\ i > m /\ i - 1 \in 0..m + n /\ i - 1 > m /\ ~(i <= m)
          /\ i - m \in 1..n /\ (i - 1) - m = (i - m) - 1
      BY <1>3, <2>3
    <3>2. u[i] = w[i - m] /\ u[i - 1] = w[(i - 1) - m]
      BY <1>5, <3>1
    <3>3. pq[i] = q[i - m]
      BY <1>4, <3>1
    <3>4. w[i - m] = Applied(w[(i - m) - 1], q[i - m])
      BY <1>2, <3>1 DEF n
    <3> QED BY <3>1, <3>2, <3>3, <3>4
  <2> QED BY <1>3, <2>1, <2>2, <2>3
<1>8. Leads(c, f, pq)
  <2>1. /\ u = [i \in 0..Len(pq) |-> u[i]] /\ u[0] = c /\ u[Len(pq)] = f
        /\ \A i \in 1..Len(pq) : u[i] = Applied(u[i - 1], pq[i])
    BY <1>3, <1>5, <1>6, <1>7
  <2> QED BY <2>1 DEF Leads
<1> QED BY <1>8 DEF pq

\* The first packet is delivered.
LEMMA LeadsAfterFirst ==
  ASSUME NEW S, NEW p \in Seq(S), p # <<>>, NEW c, NEW d, Leads(c, d, p)
  PROVE  Leads(Applied(c, Head(p)), d, Tail(p))
<1>1. PICK v : /\ v = [i \in 0..Len(p) |-> v[i]] /\ v[0] = c /\ v[Len(p)] = d
               /\ \A i \in 1..Len(p) : v[i] = Applied(v[i - 1], p[i])
  BY DEF Leads
<1> DEFINE n == Len(p)
           q == Tail(p)
           w == [i \in 0..n - 1 |-> v[i + 1]]
<1>2. n \in Nat /\ n > 0 /\ Len(q) = n - 1 /\ \A i \in 1..n - 1 : q[i] = p[i + 1]
  BY HeadTailProperties, EmptySeq, LenProperties
<1>3. Head(p) = p[1]
  OBVIOUS
<1> HIDE DEF q
<1>4. w = [i \in 0..n - 1 |-> w[i]] /\ w[n - 1] = d /\ w[0] = v[1]
  BY <1>1, <1>2
<1>5. v[1] = Applied(c, Head(p))
  <2>1. 1 \in 1..n /\ 1 - 1 = 0
    BY <1>2
  <2>2. v[1] = Applied(v[1 - 1], p[1])
    BY <1>1, <2>1
  <2> QED BY <1>1, <1>3, <2>1, <2>2
<1>6. ASSUME NEW i \in 1..n - 1
      PROVE  w[i] = Applied(w[i - 1], q[i])
  <2>1. w[i] = v[i + 1] /\ w[i - 1] = v[i] /\ q[i] = p[i + 1] /\ i + 1 \in 1..n /\ (i + 1) - 1 = i
    BY <1>2
  <2>2. v[i + 1] = Applied(v[(i + 1) - 1], p[i + 1])
    BY <1>1, <2>1
  <2> QED BY <2>1, <2>2
<1> HIDE DEF w, n
<1>7. Leads(Applied(c, Head(p)), d, q)
  BY <1>2, <1>4, <1>5, <1>6 DEF Leads
<1> QED BY <1>7 DEF q

(***************************************************************************)
(* The packets of a tick.                                                  *)
(***************************************************************************)

\* A set put in some order.
LEMMA SetToSeqFacts ==
  ASSUME NEW S, IsFiniteSet(S), NEW q, q = SetToSeq(S)
  PROVE  /\ q \in Seq(S)
         /\ \A x \in S : \E k \in DOMAIN q : q[k] = x
<1> DEFINE n == Cardinality(S)
<1>1. n \in Nat /\ IsFiniteSet(1..n) /\ Cardinality(1..n) = n
  <2>1. n \in Nat
    BY FS_CardinalityType
  <2>2. 1 \in Int /\ n \in Int /\ (1 > n => n = 0)
    BY <2>1
  <2> HIDE DEF n
  <2> QED BY <2>1, <2>2, FS_Interval
<1>2. PICK f \in [1..n -> S] : IsInjective(f)
  <2>1. ExistsBijection(1..n, S)
    BY <1>1, FS_SameCardinalityBij
  <2> QED BY <2>1 DEF ExistsBijection, Bijection, Injection, IsInjective
<1>3. q \in [1..n -> S] /\ IsInjective(q)
  BY <1>2 DEF SetToSeq
<1>4. q \in Injection(1..n, S)
  BY <1>3 DEF Injection
<1>5. q \in Surjection(1..n, S)
  BY <1>1, <1>4, FS_Injection
<1>6. \A x \in S : \E k \in 1..n : q[k] = x
  BY <1>5 DEF Surjection
<1> HIDE DEF n
<1> QED BY <1>1, <1>3, <1>6

\* What the spawns of a tick make of a world.
LEMMA SpawnsLead ==
  ASSUME NEW E, E \subseteq DOMAIN server, IsFiniteSet(E), NEW c \in Worlds, server \in Worlds
  PROVE  /\ Packets(E, SpawnOf) \in Seq(SpawnPacket)
         /\ \E d \in Worlds :
                   /\ Leads(c, d, Packets(E, SpawnOf))
                   /\ DOMAIN d = DOMAIN c \cup E
                   /\ \A e \in DOMAIN c : d[e] = c[e]
                   /\ \A e \in E \ DOMAIN c : d[e] = server[e]
<1> DEFINE q == SetToSeq(E)
           n == Len(q)
           ps == Packets(E, SpawnOf)
           U == [i \in 0..n |-> {q[j] : j \in 1..i}]
           w == [i \in 0..n |-> [e \in DOMAIN c \cup U[i] |->
                                   IF e \in DOMAIN c THEN c[e] ELSE server[e]]]
<1>1. q \in Seq(E) /\ \A e \in E : \E k \in DOMAIN q : q[k] = e
  BY SetToSeqFacts
<1>2. ps = [i \in DOMAIN q |-> [kind |-> "Spawn", ent |-> q[i], data |-> server[q[i]]]]
  BY DEF Packets, SpawnOf
<1> HIDE DEF q
<1>3. n \in Nat /\ DOMAIN q = 1..n /\ \A i \in 1..n : q[i] \in E
  BY <1>1, LenProperties, ElementOfSeq
<1>4. \A i \in 1..n : ps[i] \in SpawnPacket /\ ps[i].kind = "Spawn" /\ ps[i].ent = q[i]
                      /\ ps[i].data = server[q[i]]
  <2>1. \A e \in E : e \in Entity /\ server[e] \in CompData
    BY WorldFacts
  <2> QED BY <1>2, <1>3, <2>1 DEF SpawnPacket
<1>5. ps \in Seq(SpawnPacket) /\ Len(ps) = n
  <2>1. ps \in [1..n -> SpawnPacket]
    BY <1>2, <1>3, <1>4
  <2> QED BY <1>3, <2>1
<1> HIDE DEF ps
<1>6. c = [e \in DOMAIN c |-> c[e]]
  BY WorldFacts
<1>7. /\ U[0] = {} /\ U[n] = E
      /\ \A i \in 1..n : U[i] = U[i - 1] \cup {q[i]}
  <2>1. /\ 0 \in 0..n /\ n \in 0..n
        /\ \A i \in 1..n : i \in 0..n /\ i - 1 \in 0..n /\ 1..i = 1..(i - 1) \cup {i}
    BY <1>3
  <2>2. \A i \in 0..n : U[i] = {q[j] : j \in 1..i}
    OBVIOUS
  <2> HIDE DEF U
  <2>3. U[0] = {} /\ U[n] = {q[j] : j \in 1..n}
    BY <2>1, <2>2
  <2>4. {q[j] : j \in 1..n} = E
    BY <1>1, <1>3
  <2>5. ASSUME NEW i \in 1..n PROVE U[i] = U[i - 1] \cup {q[i]}
    <3>1. U[i] = {q[j] : j \in 1..i} /\ U[i - 1] = {q[j] : j \in 1..(i - 1)}
      BY <2>1, <2>2
    <3>2. 1..i = 1..(i - 1) \cup {i}
      BY <2>1
    <3> QED BY <3>1, <3>2
  <2> QED BY <2>3, <2>4, <2>5
<1>8. \A i \in 0..n : w[i] = [e \in DOMAIN c \cup U[i] |->
                                IF e \in DOMAIN c THEN c[e] ELSE server[e]]
  OBVIOUS
<1>9. w = [i \in 0..n |-> w[i]]
  OBVIOUS
<1> HIDE DEF w, U, n
<1>10. /\ 0 \in 0..n /\ n \in 0..n
      /\ \A i \in 1..n : i \in 0..n /\ i - 1 \in 0..n
  BY <1>3
<1>11. w[0] = c
  BY <1>10, <1>6, <1>7, <1>8
<1>12. /\ DOMAIN w[n] = DOMAIN c \cup E
       /\ \A e \in DOMAIN c : w[n][e] = c[e]
       /\ \A e \in E \ DOMAIN c : w[n][e] = server[e]
       /\ w[n] = [e \in DOMAIN w[n] |-> w[n][e]]
  <2>1. w[n] = [e \in DOMAIN c \cup E |-> IF e \in DOMAIN c THEN c[e] ELSE server[e]]
    BY <1>10, <1>7, <1>8
  <2> QED BY <2>1
<1>13. ASSUME NEW i \in 1..n
       PROVE  w[i] = Applied(w[i - 1], ps[i])
  <2> DEFINE v == w[i - 1]
             x == U[i - 1]
  <2>1. /\ v = [e \in DOMAIN c \cup x |-> IF e \in DOMAIN c THEN c[e] ELSE server[e]]
        /\ w[i] = [e \in DOMAIN c \cup x \cup {q[i]} |->
                     IF e \in DOMAIN c THEN c[e] ELSE server[e]]
    BY <1>10, <1>7, <1>8
  <2>2. Applied(v, ps[i]) = IF q[i] \in DOMAIN v THEN v ELSE With(v, q[i], server[q[i]])
    BY <1>4 DEF Applied
  <2> HIDE DEF v, x
  <2>3. CASE q[i] \in DOMAIN v
    BY <2>1, <2>2, <2>3 DEF v
  <2>4. CASE q[i] \notin DOMAIN v
    BY <2>1, <2>2, <2>4 DEF v, With
  <2> QED BY <2>3, <2>4
<1>14. Leads(c, w[n], ps)
  BY <1>5, <1>9, <1>11, <1>13 DEF Leads
<1>15. w[n] \in Worlds
  <2>1. /\ DOMAIN c \subseteq Entity /\ \A e \in DOMAIN c : c[e] \in CompData
        /\ DOMAIN server \subseteq Entity /\ \A e \in DOMAIN server : server[e] \in CompData
    BY WorldFacts
  <2>2. DOMAIN w[n] \subseteq Entity /\ \A e \in DOMAIN w[n] : w[n][e] \in CompData
    BY <1>12, <2>1
  <2> QED BY <1>12, <2>2, WorldFacts
<1> QED BY <1>5, <1>12, <1>14, <1>15 DEF ps

\* What the despawns of a tick leave of a world.
LEMMA DespawnsLead ==
  ASSUME NEW E, E \subseteq Entity, IsFiniteSet(E), NEW c \in Worlds
  PROVE  /\ Packets(E, DespawnOf) \in Seq(DespawnPacket)
         /\ Leads(c, Without(c, E), Packets(E, DespawnOf))
<1> DEFINE q == SetToSeq(E)
           n == Len(q)
           ps == Packets(E, DespawnOf)
           U == [i \in 0..n |-> {q[j] : j \in 1..i}]
           w == [i \in 0..n |-> [e \in DOMAIN c \ U[i] |-> c[e]]]
<1>1. q \in Seq(E) /\ \A e \in E : \E k \in DOMAIN q : q[k] = e
  BY SetToSeqFacts
<1>2. ps = [i \in DOMAIN q |-> [kind |-> "Despawn", ent |-> q[i]]]
  BY DEF Packets, DespawnOf
<1> HIDE DEF q
<1>3. n \in Nat /\ DOMAIN q = 1..n /\ \A i \in 1..n : q[i] \in E
  BY <1>1, LenProperties, ElementOfSeq
<1>4. \A i \in 1..n : ps[i] \in DespawnPacket /\ ps[i].kind = "Despawn" /\ ps[i].ent = q[i]
  BY <1>2, <1>3 DEF DespawnPacket
<1>5. ps \in Seq(DespawnPacket) /\ Len(ps) = n
  <2>1. ps \in [1..n -> DespawnPacket]
    BY <1>2, <1>3, <1>4
  <2> QED BY <1>3, <2>1
<1> HIDE DEF ps
<1>6. c = [e \in DOMAIN c |-> c[e]]
  BY WorldFacts
<1>7. /\ U[0] = {} /\ U[n] = E
      /\ \A i \in 1..n : U[i] = U[i - 1] \cup {q[i]}
  <2>1. /\ 0 \in 0..n /\ n \in 0..n
        /\ \A i \in 1..n : i \in 0..n /\ i - 1 \in 0..n /\ 1..i = 1..(i - 1) \cup {i}
    BY <1>3
  <2>2. \A i \in 0..n : U[i] = {q[j] : j \in 1..i}
    OBVIOUS
  <2> HIDE DEF U
  <2>3. U[0] = {} /\ U[n] = {q[j] : j \in 1..n}
    BY <2>1, <2>2
  <2>4. {q[j] : j \in 1..n} = E
    BY <1>1, <1>3
  <2>5. ASSUME NEW i \in 1..n PROVE U[i] = U[i - 1] \cup {q[i]}
    <3>1. U[i] = {q[j] : j \in 1..i} /\ U[i - 1] = {q[j] : j \in 1..(i - 1)}
      BY <2>1, <2>2
    <3>2. 1..i = 1..(i - 1) \cup {i}
      BY <2>1
    <3> QED BY <3>1, <3>2
  <2> QED BY <2>3, <2>4, <2>5
<1>8. \A i \in 0..n : w[i] = [e \in DOMAIN c \ U[i] |-> c[e]]
  OBVIOUS
<1>9. w = [i \in 0..n |-> w[i]]
  OBVIOUS
<1> HIDE DEF w, U, n
<1>10. /\ 0 \in 0..n /\ n \in 0..n
      /\ \A i \in 1..n : i \in 0..n /\ i - 1 \in 0..n
  BY <1>3
<1>11. w[0] = c
  <2>1. DOMAIN c \ U[0] = DOMAIN c
    BY <1>7
  <2> QED BY <1>10, <1>6, <1>8, <2>1
<1>12. w[n] = Without(c, E)
  BY <1>10, <1>7, <1>8 DEF Without, Restrict
<1>13. ASSUME NEW i \in 1..n
       PROVE  w[i] = Applied(w[i - 1], ps[i])
  <2> DEFINE v == w[i - 1]
             x == U[i - 1]
  <2>1. /\ v = [e \in DOMAIN c \ x |-> c[e]]
        /\ w[i] = [e \in DOMAIN c \ (x \cup {q[i]}) |-> c[e]]
    BY <1>10, <1>7, <1>8
  <2>2. Applied(v, ps[i]) = Without(v, {q[i]})
    BY <1>4 DEF Applied
  <2> HIDE DEF v, x
  <2>3. Without(v, {q[i]}) = [e \in DOMAIN c \ (x \cup {q[i]}) |-> c[e]]
    BY <2>1 DEF Without, Restrict
  <2> QED BY <2>1, <2>2, <2>3 DEF v
<1>14. Leads(c, w[n], ps)
  BY <1>5, <1>9, <1>11, <1>13 DEF Leads
<1> QED BY <1>5, <1>12, <1>14 DEF ps

\* What a delta says of an entity: its dirty components, as far as they are due.
LEMMA DeltaOfFacts ==
  ASSUME Typed, NEW e \in Entity
  PROVE  /\ DeltaOf(e) \in PartialData
         /\ DOMAIN DeltaOf(e) \subseteq dirty[e]
         /\ \A t \in ToSend(e) : DueBuckets(e, t) # {} =>
              /\ t \in DOMAIN DeltaOf(e)
              /\ DeltaOf(e)[t] = [b \in DueBuckets(e, t) |-> server[e][t][b]]
<1>1. ToSend(e) \subseteq Comp /\ ToSend(e) \subseteq dirty[e]
  BY DEF Typed, ToSend
<1>2. ASSUME NEW t \in ToSend(e), NEW b \in DueBuckets(e, t)
      PROVE  b \in Bucket /\ server[e][t][b] \in Val
  <2>1. e \in DOMAIN server /\ t \in DOMAIN server[e]
    BY DEF ToSend, Alive
  <2>2. server[e] \in CompData
    BY <2>1, WorldFacts DEF Typed
  <2>3. server[e][t] \in [Bucket -> Val]
    BY <2>1, <2>2, CompDataFacts
  <2> QED BY <2>3 DEF DueBuckets, DeltaBuckets
<1> DEFINE T == {u \in ToSend(e) : DueBuckets(e, u) # {}}
           x == [t \in T |-> [b \in DueBuckets(e, t) |-> server[e][t][b]]]
<1>3. \A t \in T : x[t] \in UNION {[B -> Val] : B \in SUBSET Bucket}
  <2>1. ASSUME NEW t \in T
        PROVE  \E B \in SUBSET Bucket : x[t] \in [B -> Val]
    <3>1. DueBuckets(e, t) \in SUBSET Bucket
      BY <1>2
    <3>2. [b \in DueBuckets(e, t) |-> server[e][t][b]] \in [DueBuckets(e, t) -> Val]
      BY <1>2
    <3> QED BY <3>1, <3>2
  <2> QED BY <2>1
<1>4. T \in SUBSET Comp
  BY <1>1
<1> HIDE DEF T
<1>5. x \in PartialData
  BY <1>3, <1>4 DEF PartialData
<1> QED BY <1>1, <1>5 DEF DeltaOf, T

\* A delta holds what it says of some entities.
LEMMA DeltaFacts ==
  ASSUME Typed
  PROVE  /\ Delta \in DeltaPacket /\ Delta.kind = "Delta"
         /\ \A e : e \in DOMAIN Delta.data <=> e \in Entity /\ DOMAIN DeltaOf(e) # {}
         /\ \A e \in DOMAIN Delta.data : Delta.data[e] = DeltaOf(e)
<1> DEFINE E == {f \in Entity : DOMAIN DeltaOf(f) # {}}
           x == [e \in E |-> DeltaOf(e)]
<1>1. E \in SUBSET Entity
  OBVIOUS
<1>2. \A e \in E : DeltaOf(e) \in PartialData
  BY DeltaOfFacts
<1> HIDE DEF E
<1>3. x \in Deltas
  BY <1>1, <1>2 DEF Deltas
<1>4. Delta = [kind |-> "Delta", data |-> x]
  BY DEF Delta, E
<1> QED BY <1>3, <1>4 DEF DeltaPacket, E

\* A packet that has nothing to say is not sent, and would change nothing.
LEMMA DeltaLeads ==
  ASSUME Typed, NEW c \in Worlds
  PROVE  /\ IfAny(Delta) \in Seq(DeltaPacket)
         /\ Leads(c, Applied(c, Delta), IfAny(Delta))
<1>1. CASE Delta.data = NoEntities
  <2>1. IfAny(Delta) = <<>> /\ DOMAIN Delta.data = {}
    BY <1>1, NoEntitiesFacts DEF IfAny
  <2>2. c = [e \in DOMAIN c |-> c[e]]
    BY WorldFacts
  <2>3. Applied(c, Delta) = c
    BY <2>1, <2>2, DeltaFacts DEF Applied
  <2> QED BY <2>1, <2>3, NoneLead
<1>2. CASE Delta.data # NoEntities
  <2>1. IfAny(Delta) = <<Delta>>
    BY <1>2 DEF IfAny
  <2> QED BY <2>1, OneLeads, DeltaFacts
<1> QED BY <1>1, <1>2

\* A full state makes the world of the client that of the server.
LEMMA FullStateLeads ==
  ASSUME Typed, NEW c
  PROVE  /\ FullState \in FullStatePacket
         /\ Leads(c, Networked(server), <<FullState>>)
<1>1. FullState = [kind |-> "FullState", data |-> Networked(server)]
  BY DEF FullState
<1>2. Networked(server) \in Worlds
  BY NetworkedIsWorld DEF Typed
<1>3. Applied(c, FullState) = Networked(server)
  BY <1>1 DEF Applied
<1>4. FullState \in FullStatePacket
  BY <1>1, <1>2 DEF FullStatePacket
<1> QED BY <1>3, <1>4, OneLeads

\* The last packet of some ticks.
LastOfTick == IF ReconcileNow THEN IfAny(FullState) ELSE <<>>

\* The client after a tick's spawns made a of its world.
AfterTick(a) ==
  IF LastOfTick = <<>> THEN Without(Applied(a, Delta), pendingDespawn) ELSE Networked(server)

\* What a tick sends makes of a world.
LEMMA TickLeads ==
  ASSUME Typed, NEW c \in Worlds
  PROVE  /\ TickPackets \in Seq(Packet)
         /\ FullStateSent => LastOfTick # <<>>
         /\ \E a \in Worlds :
              /\ DOMAIN a = DOMAIN c \cup (pendingSpawn \cap Alive)
              /\ \A e \in DOMAIN c : a[e] = c[e]
              /\ \A e \in (pendingSpawn \cap Alive) \ DOMAIN c : a[e] = server[e]
              /\ AfterTick(a) \in Worlds /\ Leads(c, AfterTick(a), TickPackets)
<1> DEFINE S == pendingSpawn \cap Alive
           p1 == Packets(S, SpawnOf)
           p2 == IfAny(Delta)
           p3 == Packets(pendingDespawn, DespawnOf)
           p4 == LastOfTick
           Plain == SpawnPacket \cup DeltaPacket \cup DespawnPacket
<1>1. /\ server \in Worlds /\ S \subseteq DOMAIN server /\ IsFiniteSet(S)
      /\ pendingDespawn \subseteq Entity /\ IsFiniteSet(pendingDespawn)
  <2>1. S \subseteq Entity /\ pendingDespawn \subseteq Entity /\ IsFiniteSet(Entity)
    BY ReplicationAssumption DEF Typed, ReplicationAssumption
  <2> QED BY <2>1, FS_Subset DEF Typed, Alive
<1>2. TickPackets = ((p1 \o p2) \o p3) \o p4
  BY DEF TickPackets, LastOfTick
<1> HIDE DEF S
<1>3. p1 \in Seq(SpawnPacket)
  BY <1>1, SpawnsLead
<1>4. PICK a \in Worlds : /\ Leads(c, a, p1)
                          /\ DOMAIN a = DOMAIN c \cup S
                          /\ \A e \in DOMAIN c : a[e] = c[e]
                          /\ \A e \in S \ DOMAIN c : a[e] = server[e]
  BY <1>1, SpawnsLead
<1> HIDE DEF p1
<1>5. p2 \in Seq(DeltaPacket) /\ Leads(a, Applied(a, Delta), p2)
  BY DeltaLeads
<1> HIDE DEF p2
<1> DEFINE b == Applied(a, Delta)
           d == Without(b, pendingDespawn)
<1>6. b \in Worlds /\ d \in Worlds
  BY AppliedIsWorld, DeltaFacts, WithoutIsWorld DEF Packet
<1>7. p3 \in Seq(DespawnPacket) /\ Leads(b, d, p3)
  BY <1>1, <1>6, DespawnsLead
<1> HIDE DEF p3, b, d
<1>8. p4 \in Seq(FullStatePacket) /\ (p4 = <<>> \/ p4 = <<FullState>>)
  BY FullStateLeads DEF LastOfTick, IfAny
<1> HIDE DEF p4
<1>9. /\ p1 \in Seq(Packet) /\ p2 \in Seq(Packet) /\ p3 \in Seq(Packet) /\ p4 \in Seq(Packet)
      /\ p1 \in Seq(Plain) /\ p2 \in Seq(Plain) /\ p3 \in Seq(Plain)
  BY <1>3, <1>5, <1>7, <1>8 DEF Packet
<1>10. (p1 \o p2) \in Seq(Packet) /\ ((p1 \o p2) \o p3) \in Seq(Packet)
       /\ ((p1 \o p2) \o p3) \in Seq(Plain)
  <2> HIDE DEF Plain
  <2> QED BY <1>9, ConcatProperties
<1>11. TickPackets \in Seq(Packet)
  BY <1>2, <1>9, <1>10, ConcatProperties
<1>12. Leads(c, d, (p1 \o p2) \o p3)
  <2>1. Leads(c, b, p1 \o p2)
    BY <1>4, <1>5, <1>9, LeadsOn DEF b
  <2> QED BY <1>7, <1>9, <1>10, <2>1, LeadsOn
<1>13. AfterTick(a) \in Worlds /\ Leads(c, AfterTick(a), TickPackets)
  <2>1. CASE p4 = <<>>
    <3>1. TickPackets = (p1 \o p2) \o p3
      BY <1>2, <1>10, <2>1
    <3> QED BY <1>6, <1>12, <2>1, <3>1 DEF AfterTick, p4, b, d
  <2>2. CASE p4 = <<FullState>>
    <3>1. Leads(d, Networked(server), p4)
      BY <2>2, FullStateLeads
    <3>2. Leads(c, Networked(server), TickPackets)
      BY <1>2, <1>9, <1>10, <1>12, <3>1, LeadsOn
    <3>3. AfterTick(a) = Networked(server)
      BY <2>2 DEF AfterTick, p4
    <3> QED BY <1>1, <3>2, <3>3, NetworkedIsWorld
  <2> QED BY <1>8, <2>1, <2>2
<1>14. FullStateSent => p4 # <<>>
  <2>1. ASSUME p4 = <<>>, NEW i \in DOMAIN TickPackets
        PROVE  TickPackets[i].kind # "FullState"
    <3>1. TickPackets \in Seq(Plain)
      BY <1>2, <1>10, <2>1
    <3>2. TickPackets[i] \in Plain
      BY <2>1, <3>1
    <3> QED BY <3>2 DEF SpawnPacket, DeltaPacket, DespawnPacket
  <2> QED BY <2>1 DEF FullStateSent
<1> QED BY <1>4, <1>11, <1>13, <1>14 DEF S, p4

(***************************************************************************)
(* A tick.                                                                 *)
(***************************************************************************)

\* A full state agrees with the server on everything.
LEMMA FullStateAgrees ==
  ASSUME Typed, UNCHANGED <<server, tracked>>, NEW d, d = Networked(server), NEW e
  PROVE  Agrees(d, e)'
<1>1. /\ \A f : f \in DOMAIN d <=> f \in tracked
      /\ \A f \in DOMAIN d : d[f] = server[f]
  BY NetworkedFacts DEF Typed
<1> QED BY <1>1 DEF Agrees, DeltaBuckets

\* After the delta, the spawns and the despawns of a tick the client has what is
\* not dirty any more.
LEMMA TickAgrees ==
  ASSUME Typed, Pending, DeltaBuckets # {}, Tick,
         NEW c, NEW a \in Worlds, NEW e \in Entity \ unsure, Agrees(c, e),
         NEW d, d = Without(Applied(a, Delta), pendingDespawn),
         DOMAIN a = DOMAIN c \cup (pendingSpawn \cap Alive),
         \A f \in DOMAIN c : a[f] = c[f],
         \A f \in (pendingSpawn \cap Alive) \ DOMAIN c : a[f] = server[f]
  PROVE  Agrees(d, e)'
<1> DEFINE b == Applied(a, Delta)
<1>1. /\ DOMAIN b = DOMAIN a
      /\ \A f \in DOMAIN a : b[f] = IF f \in DOMAIN Delta.data
                                    THEN Merged(a[f], DeltaOf(f)) ELSE a[f]
  BY DeltaFacts DEF Applied
<1>2. /\ DOMAIN d = DOMAIN b \ pendingDespawn
      /\ \A f \in DOMAIN d : d[f] = b[f]
  BY DEF Without, Restrict
<1> HIDE DEF b
<1>3. /\ tracked' = tracked /\ server' = server
      /\ pendingSpawn' = {} /\ pendingDespawn' = {} /\ dirty'[e] = StillDirty(e)
  BY DEF Tick
<1>4. \A f : f \in tracked <=> Tracks(f)
  BY TrackedFacts DEF Typed
<1>5. e \in tracked => e \notin pendingDespawn
  BY DEF Pending
<1>6. ASSUME e \in tracked PROVE e \in DOMAIN d
  BY <1>1, <1>2, <1>4, <1>5, <1>6 DEF Agrees, Tracks, Alive
<1>7. ASSUME e \in DOMAIN d PROVE e \in tracked
  BY <1>1, <1>2, <1>7 DEF Agrees, Pending
<1>8. ASSUME e \in tracked, NEW t \in DOMAIN server[e] \ StillDirty(e)
      PROVE  t \in DOMAIN d[e] /\ \A k \in DeltaBuckets : d[e][t][k] = server[e][t][k]
  <2>1. e \in DOMAIN a /\ d[e] = b[e] /\ e \in DOMAIN server
    BY <1>1, <1>2, <1>4, <1>6, <1>8 DEF Tracks
  <2>2. CASE t \notin dirty[e]
    <3>1. t \in DOMAIN a[e] /\ \A k \in DeltaBuckets : a[e][t][k] = server[e][t][k]
      BY <1>8, <2>1, <2>2 DEF Agrees
    <3>2. t \notin DOMAIN DeltaOf(e)
      BY <2>2, DeltaOfFacts
    <3>3. CASE e \in DOMAIN Delta.data
      <4>1. d[e] = Merged(a[e], DeltaOf(e))
        BY <1>1, <2>1, <3>3
      <4>2. t \in DOMAIN d[e] /\ d[e][t] = a[e][t]
        BY <3>1, <3>2, <4>1 DEF Merged
      <4> QED BY <3>1, <4>2
    <3> QED BY <1>1, <2>1, <3>1, <3>3
  <2>3. CASE t \in dirty[e]
    <3>1. t \in ToSend(e) /\ DueBuckets(e, t) = DeltaBuckets
      BY <1>8, <2>1, <2>3 DEF ToSend, StillDirty, Alive
    <3>2. /\ t \in DOMAIN DeltaOf(e)
          /\ DeltaOf(e)[t] = [k \in DeltaBuckets |-> server[e][t][k]]
      BY <3>1, DeltaOfFacts
    <3>3. e \in DOMAIN Delta.data
      BY <3>2, DeltaFacts
    <3>4. d[e] = Merged(a[e], DeltaOf(e))
      BY <1>1, <2>1, <3>3
    <3>5. t \in DOMAIN d[e] /\ \A k \in DeltaBuckets : d[e][t][k] = DeltaOf(e)[t][k]
      BY <3>2, <3>4 DEF Merged, DeltaBuckets
    <3> QED BY <3>2, <3>5
  <2> QED BY <2>2, <2>3
<1> QED BY <1>3, <1>6, <1>7, <1>8 DEF Agrees, DeltaBuckets

\* A tick keeps the types.
LEMMA TickTyped ==
  ASSUME Typed, Pending, Tick
  PROVE  Typed' /\ Pending'
<1>1. TickPackets \in Seq(Packet)
  <2>1. client \in Worlds
    BY DEF Typed
  <2> QED BY <2>1, TickLeads
<1>2. channel' \in Seq(Packet)
  BY <1>1, ConcatProperties DEF Typed, Tick
<1>3. dirty' \in [Entity -> SUBSET Comp]
  <2>1. \A e \in Entity : StillDirty(e) \subseteq dirty[e]
    BY DEF StillDirty, ToSend
  <2> QED BY <2>1 DEF Typed, Tick
<1>4. accum' \in 0..ReconcileTicks - 1
  BY ReplicationAssumption DEF Typed, Tick, ReconcileNow, ReplicationAssumption
<1>5. /\ UNCHANGED <<server, tracked, client, replicated>>
      /\ pendingSpawn' = {} /\ pendingDespawn' = {}
  BY DEF Tick, clientVars
<1>6. Networked(server)' = Networked(server)
  BY <1>5 DEF Networked
<1> QED BY <1>2, <1>3, <1>4, <1>5, <1>6 DEF Typed, Pending

\* A tick sends what was pending, but for what it throttles.
LEMMA TickOnTheWay ==
  ASSUME ReplicationInv, DeltaBuckets # {}, Tick
  PROVE  OnTheWay'
<1> USE DEF ReplicationInv
<1>1. PICK c \in Worlds : Leads(client, c, channel) /\ Reflects(c)
  BY DEF OnTheWay
<1>2. /\ TickPackets \in Seq(Packet)
      /\ FullStateSent => LastOfTick # <<>>
  BY TickLeads
<1>3. PICK a \in Worlds :
        /\ DOMAIN a = DOMAIN c \cup (pendingSpawn \cap Alive)
        /\ \A e \in DOMAIN c : a[e] = c[e]
        /\ \A e \in (pendingSpawn \cap Alive) \ DOMAIN c : a[e] = server[e]
        /\ AfterTick(a) \in Worlds /\ Leads(c, AfterTick(a), TickPackets)
  BY TickLeads
<1>4. PICK d \in Worlds : d = AfterTick(a)
  BY <1>3
<1>5. Leads(client', d, channel')
  <2>1. channel \in Seq(Packet) /\ channel' = channel \o TickPackets /\ client' = client
    BY DEF Typed, Tick, clientVars
  <2> QED BY <1>1, <1>2, <1>3, <1>4, <2>1, LeadsOn
<1>6. ASSUME NEW e \in Entity \ unsure' PROVE Agrees(d, e)'
  <2>1. CASE LastOfTick = <<>>
    <3>1. e \in Entity \ unsure
      BY <1>2, <1>6, <2>1 DEF Tick
    <3>2. Agrees(c, e)
      BY <1>1, <3>1 DEF Reflects
    <3>3. d = Without(Applied(a, Delta), pendingDespawn)
      BY <1>4, <2>1 DEF AfterTick
    <3> QED BY <1>3, <3>1, <3>2, <3>3, TickAgrees
  <2>2. CASE LastOfTick # <<>>
    <3>1. d = Networked(server)
      BY <1>4, <2>2 DEF AfterTick
    <3> QED BY <3>1, FullStateAgrees DEF Tick
  <2> QED BY <2>1, <2>2
<1>7. Reflects(d)'
  BY <1>6 DEF Reflects
<1> QED BY <1>5, <1>7 DEF OnTheWay

(***************************************************************************)
(* The other steps.                                                        *)
(***************************************************************************)

\* A world that is cleared, and a client that joins, are unsure of everything.
LEMMA ClearKept ==
  ASSUME Typed, ClearWorld
  PROVE  Kept
<1>1. /\ server' = NoEntities /\ tracked' = {} /\ pendingSpawn' = {} /\ pendingDespawn' = {}
      /\ dirty' = [e \in Entity |-> {}] /\ accum' = 0 /\ unsure' = Entity
      /\ UNCHANGED <<channel, client, replicated>>
  BY DEF ClearWorld, clientVars
<1>2. tracked' = DOMAIN Networked(server') /\ Networked(server)' = Networked(server')
  <2>1. DOMAIN Networked(server') = {}
    BY <1>1, NoEntitiesFacts
  <2> QED BY <1>1, <2>1 DEF Networked
<1>3. 0 \in 0..ReconcileTicks - 1
  BY ReplicationAssumption DEF ReplicationAssumption
<1>4. Typed'
  BY <1>1, <1>2, <1>3, NoEntitiesFacts DEF Typed
<1> QED BY <1>1, <1>4 DEF Kept, Pending, Reflects

\* A client joins.
LEMMA JoinKeeps ==
  ASSUME Typed, Pending, Join
  PROVE  Typed' /\ Pending' /\ OnTheWay'
<1>1. /\ channel' = <<>> /\ client' = NoEntities /\ replicated' = {} /\ unsure' = Entity
      /\ UNCHANGED <<server, tracked, pendingSpawn, pendingDespawn, dirty, accum>>
  BY DEF Join, pendingVars
<1>2. Networked(server)' = Networked(server)
  BY <1>1 DEF Networked
<1>3. Typed'
  BY <1>1, <1>2, NoEntitiesFacts DEF Typed
<1>4. Pending'
  BY <1>1 DEF Typed, Pending
<1>5. PICK d \in Worlds : d = NoEntities
  BY NoEntitiesFacts
<1>6. Leads(client', d, channel') /\ Reflects(d)'
  BY <1>1, <1>5, NoneLead DEF Reflects
<1> QED BY <1>3, <1>4, <1>6 DEF OnTheWay

\* A full state that is asked for tells all there is.
LEMMA RequestKeeps ==
  ASSUME Typed, Pending, RequestFullState
  PROVE  Typed' /\ Pending' /\ (OnTheWay => OnTheWay')
<1>1. /\ channel' = channel \o IfAny(FullState)
      /\ UNCHANGED <<server, tracked, pendingSpawn, pendingDespawn, dirty, accum, unsure>>
      /\ UNCHANGED <<client, replicated>>
  BY DEF RequestFullState, pendingVars, clientVars
<1>2. /\ channel \in Seq(Packet) /\ <<FullState>> \in Seq(Packet)
      /\ IfAny(FullState) = <<>> \/ IfAny(FullState) = <<FullState>>
  BY FullStateLeads DEF Typed, Packet, IfAny
<1>3. channel' \in Seq(Packet)
  <2>1. channel \o <<FullState>> \in Seq(Packet) /\ channel \o <<>> = channel
    BY <1>2
  <2> QED BY <1>1, <1>2, <2>1
<1>4. Networked(server)' = Networked(server)
  BY <1>1 DEF Networked
<1>5. Typed' /\ Pending'
  BY <1>1, <1>3, <1>4 DEF Typed, Pending
<1>6. ASSUME OnTheWay PROVE OnTheWay'
  <2>1. PICK c \in Worlds : Leads(client, c, channel) /\ Reflects(c)
    BY <1>6 DEF OnTheWay
  <2>2. CASE IfAny(FullState) = <<>>
    <3>1. channel' = channel
      BY <1>1, <1>2, <2>2
    <3>2. Reflects(c)'
      BY <1>1, <2>1 DEF Reflects, Agrees, DeltaBuckets
    <3> QED BY <1>1, <2>1, <3>1, <3>2 DEF OnTheWay
  <2>3. CASE IfAny(FullState) = <<FullState>>
    <3>1. PICK d \in Worlds : d = Networked(server)
      BY NetworkedIsWorld DEF Typed
    <3>2. Leads(c, d, <<FullState>>)
      BY <3>1, FullStateLeads
    <3>3. Leads(client', d, channel')
      BY <1>1, <1>2, <2>1, <2>3, <3>2, LeadsOn
    <3>4. Reflects(d)'
      BY <1>1, <3>1, FullStateAgrees DEF Reflects
    <3> QED BY <3>3, <3>4 DEF OnTheWay
  <2> QED BY <1>2, <2>2, <2>3
<1> QED BY <1>5, <1>6

\* A packet arrives: what comes of all that is in flight stays the same.
LEMMA DeliverKeeps ==
  ASSUME Typed, Pending, Deliver
  PROVE  Typed' /\ Pending' /\ (OnTheWay => OnTheWay')
<1>1. /\ channel # <<>> /\ Head(channel) \in Packet /\ channel' = Tail(channel)
      /\ client' = Applied(client, Head(channel)) /\ replicated' = DOMAIN client'
  BY DeliverApplies
<1>2. UNCHANGED <<server, tracked, pendingSpawn, pendingDespawn, dirty, accum, unsure>>
  BY DEF Deliver, pendingVars
<1>3. client' \in Worlds /\ channel' \in Seq(Packet)
  BY <1>1, AppliedIsWorld, HeadTailProperties DEF Typed
<1>4. Networked(server)' = Networked(server)
  BY <1>2 DEF Networked
<1>5. Typed' /\ Pending'
  BY <1>1, <1>2, <1>3, <1>4 DEF Typed, Pending
<1>6. ASSUME OnTheWay PROVE OnTheWay'
  <2>1. PICK d \in Worlds : Leads(client, d, channel) /\ Reflects(d)
    BY <1>6 DEF OnTheWay
  <2>2. Leads(client', d, channel')
    BY <1>1, <2>1, LeadsAfterFirst DEF Typed
  <2>3. Reflects(d)'
    BY <1>2, <2>1 DEF Reflects, Agrees, DeltaBuckets
  <2> QED BY <2>2, <2>3 DEF OnTheWay
<1> QED BY <1>5, <1>6

\* What keeps the way to the server's world keeps that there is one.
LEMMA KeptOnTheWay ==
  ASSUME Kept
  PROVE  OnTheWay => OnTheWay'
BY DEF Kept, OnTheWay

(***************************************************************************)
(* Theorems.                                                               *)
(***************************************************************************)

\* The invariant holds at the start.
LEMMA InitKeeps == Init => ReplicationInv
<1> SUFFICES ASSUME Init PROVE ReplicationInv
  OBVIOUS
<1>1. /\ server = NoEntities /\ client = NoEntities
      /\ tracked = {} /\ pendingSpawn = {} /\ pendingDespawn = {}
      /\ dirty = [e \in Entity |-> {}] /\ accum = 0 /\ channel = <<>> /\ replicated = {}
  BY DEF Init
<1>2. tracked = DOMAIN Networked(server)
  BY <1>1, NoEntitiesFacts
<1>3. Typed /\ Pending
  <2>1. 0 \in 0..ReconcileTicks - 1
    BY ReplicationAssumption DEF ReplicationAssumption
  <2> QED BY <1>1, <1>2, <2>1, NoEntitiesFacts DEF Typed, Pending
<1>4. Leads(client, client, channel)
  BY <1>1, NoneLead
<1>5. Reflects(client)
  BY <1>1, NoEntitiesFacts DEF Reflects, Agrees
<1> QED BY <1>3, <1>4, <1>5 DEF ReplicationInv, OnTheWay, Typed

\* Every step keeps the types and what is pending in order, whatever the buckets.
LEMMA StepTyped ==
  ASSUME Typed, Pending, [Next]_vars
  PROVE  Typed' /\ Pending' /\ (OnTheWay /\ ~Tick => OnTheWay')
<1>1. CASE \E e \in Entity : Create(e)
  BY <1>1, CreateKept, KeptOnTheWay DEF Kept
<1>2. CASE WorldOp \/ ClearWorld
  BY <1>2, WorldOpKept, ClearKept, KeptOnTheWay DEF Kept
<1>3. CASE RequestFullState \/ Join
  BY <1>3, RequestKeeps, JoinKeeps
<1>4. CASE Tick
  BY <1>4, TickTyped
<1>5. CASE Deliver
  BY <1>5, DeliverKeeps
<1>6. CASE UNCHANGED vars
  <2>1. /\ UNCHANGED <<server, tracked, pendingSpawn, pendingDespawn, dirty, accum, channel>>
        /\ UNCHANGED <<client, replicated, unsure>>
    BY <1>6 DEF vars, pendingVars, clientVars
  <2>2. Networked(server)' = Networked(server)
    BY <2>1 DEF Networked
  <2>3. Typed' /\ Pending'
    BY <2>1, <2>2 DEF Typed, Pending
  <2>4. \A d : Reflects(d) => Reflects(d)'
    BY <2>1 DEF Reflects, Agrees, DeltaBuckets
  <2> QED BY <2>1, <2>3, <2>4 DEF OnTheWay
<1> QED BY <1>1, <1>2, <1>3, <1>4, <1>5, <1>6 DEF Next, Op

\* The types, and what is pending, in every state.
LEMMA TypesHold == Spec => [](Typed /\ Pending)
<1>1. Init => Typed /\ Pending
  BY InitKeeps DEF ReplicationInv
<1>2. (Typed /\ Pending) /\ [Next]_vars => (Typed /\ Pending)'
  BY StepTyped
<1> QED BY <1>1, <1>2, PTL DEF Spec

\* The type invariant: who is tracked is who has a networked component, and a
\* client has replicated what it has.
THEOREM ReplicationTypeOK == Spec => []TypeOK
<1>1. ASSUME NEW w \in Worlds PROVE World(w)
  <2>1. \A e \in DOMAIN w : w[e] \in CompData
    BY WorldFacts
  <2>2. \A e \in DOMAIN w : DOMAIN w[e] \subseteq Comp /\ w[e] \in [DOMAIN w[e] -> [Bucket -> Val]]
    BY <2>1 DEF CompData
  <2> QED BY <2>2, WorldFacts DEF World
<1>2. Typed => TypeOK
  BY <1>1 DEF Typed, TypeOK
<1> QED BY <1>2, TypesHold, PTL

\* The inductive invariant: once all that is in flight has arrived, the client
\* lacks only what the server has noted for its next ticks.  Where no bucket is
\* carried by deltas a component that is added later would wait for the next
\* full state, and no mark would say so.
THEOREM ReplicationInvariant ==
  ASSUME DeltaBuckets # {}
  PROVE  Spec => []ReplicationInv
<1>1. ReplicationInv /\ [Next]_vars => ReplicationInv'
  BY StepTyped, TickOnTheWay DEF ReplicationInv
<1> QED BY <1>1, InitKeeps, PTL DEF Spec

\* When nothing is pending and nothing in flight, the client has what the server
\* has.
THEOREM QuietStaysInSync ==
  ASSUME DeltaBuckets # {}
  PROVE  Spec => []QuietInSync
<1>1. ReplicationInv => QuietInSync
  <2> SUFFICES ASSUME ReplicationInv, Quiet PROVE QuietInSync
    BY DEF QuietInSync
  <2>1. PICK d \in Worlds : Leads(client, d, channel) /\ Reflects(d)
    BY DEF ReplicationInv, OnTheWay
  <2>2. d = client
    BY <2>1, NoneLead DEF Quiet
  <2>3. \A e : e \in DOMAIN Networked(server) <=> e \in tracked
    BY DEF ReplicationInv, Typed
  <2>4. \A e \in Entity \ unsure : Agrees(client, e)
    BY <2>1, <2>2 DEF Reflects
  <2> QED BY <2>3, <2>4 DEF Quiet, QuietInSync, Agrees
<1> QED BY <1>1, ReplicationInvariant, PTL
=============================================================================

-------------------------- MODULE CommandBuffer_proofs --------------------------
(***************************************************************************)
(* Collapsing the commands of a batch into one move per entity leaves the  *)
(* world as if each had been applied in its turn, and the net events keep  *)
(* an observer's idea of the membership of the world right.  For every set *)
(* of entities, components and values and every length of the queue, with  *)
(* observers that queue and that write to any entity.                      *)
(***************************************************************************)
EXTENDS CommandBuffer, SequenceTheorems, FiniteSetTheorems, WellFoundedInduction, TLAPS

(***************************************************************************)
(* The inductive invariant.                                                *)
(***************************************************************************)

StoreType(s) == DOMAIN s \subseteq Entity /\ s \in [DOMAIN s -> Data]

FrameType ==
  [ops : Seq(Command), loop : {"destroy", "commit"}, next : Nat \ {0},
   events : Seq(Event), on : SUBSET Entity]

Typed ==
  /\ StoreType(store)
  /\ buffer \in Seq(Command) /\ Len(buffer) <= MaxQueue
  /\ pending \in [Entity -> Seq(OpRecord)]
  /\ moved \in Seq(Entity) /\ IsInjective(moved)
  /\ doomed \subseteq Entity
  /\ frames \in Seq(FrameType) /\ Len(frames) <= 1
  /\ effect \in [Entity -> [Data -> SUBSET Data]]
  /\ mirror \subseteq Entity \X Comp /\ stale \subseteq Entity \X Comp

Idle == frames = <<>>

\* The loop that runs has still to come to e.
Ahead(e) == \E i \in DOMAIN moved : moved[i] = e /\ Top.next <= i

MustDie(e) == e \in doomed /\ Top.loop = "destroy" /\ Ahead(e)
MustMove(e) == e \notin doomed /\ (Top.loop = "destroy" \/ Ahead(e))

\* While commands are recorded no loop runs and no observer is called.
Recording ==
  Top.ops # <<>> =>
    Top.loop = "destroy" /\ Top.next = 1 /\ Top.events = <<>> /\ Top.on = {}

\* What the flush has still to do to an entity, whatever its components are by
\* then, is what the commands recorded for it do, applied one by one.
OnTheWay ==
  \A e \in Entity, d \in Data :
    effect[e][d] = IF MustDie(e) THEN {} ELSE IF MustMove(e) THEN {Committed(e, d)} ELSE {d}

Recorded == \A e \in Entity : e \notin ToSet(moved) => pending[e] = <<>> /\ e \notin doomed

\* The events still to come are about different memberships, and each that is not
\* out of date changes what the observer believes into what is so; nothing else
\* has to change.
About(i) == <<Top.events[i].ent, Top.events[i].comp>>
Told == {About(i) : i \in DOMAIN Top.events}

Mirrored ==
  /\ \A i, j \in DOMAIN Top.events : About(i) = About(j) => i = j
  /\ \A i \in DOMAIN Top.events : About(i) \notin stale =>
       /\ About(i) \in mirror <=> Top.events[i].kind # "Added"
       /\ About(i) \in Membership(store) <=> Top.events[i].kind # "Removed"
  /\ \A p \in (Entity \X Comp) \ (Told \cup stale) : p \in mirror <=> p \in Membership(store)

InFlush ==
  /\ Top.next <= Len(moved) + 1
  /\ Recording /\ OnTheWay /\ Recorded /\ Mirrored

AtRest ==
  /\ effect = [e \in Entity |-> NoEffect]
  /\ mirror = Membership(store) /\ stale = {}
  /\ moved = <<>> /\ doomed = {} /\ pending = [e \in Entity |-> <<>>]

FlushInv ==
  /\ Typed
  /\ store = settled
  /\ IF Idle THEN AtRest ELSE InFlush

(***************************************************************************)
(* Commands and what one of them does to an entity.                        *)
(***************************************************************************)

\* What a command carries.
LEMMA CommandShape ==
  ASSUME NEW c \in Command
  PROVE  /\ c.op \in {"add", "remove", "create", "destroy"}
         /\ c.ent \in Entity
         /\ c.op \in {"add", "remove"} => c.comp \in Comp /\ c \in OpRecord
         /\ c.op = "add" => c.val \in Val
<1>1. CASE c \in [op : {"add"}, ent : Entity, comp : Comp, val : Val]
  BY <1>1 DEF OpRecord
<1>2. CASE c \in [op : {"remove"}, ent : Entity, comp : Comp]
  BY <1>2 DEF OpRecord
<1>3. CASE c \in [op : {"create", "destroy"}, ent : Entity]
  BY <1>3
<1> QED BY <1>1, <1>2, <1>3 DEF Command

\* A command applied to the components of an entity.
LEMMA AppliedType ==
  ASSUME NEW c \in Command, NEW data \in Data
  PROVE  Applied(data, c) \in Data
<1>1. PICK T \in SUBSET Comp : data \in [T -> Val]
  BY DEF Data
<1>2. CASE c.op = "add"
  <2>1. c.comp \in Comp /\ c.val \in Val
    BY <1>2, CommandShape
  <2>2. Put(data, c.comp, c.val) \in [T \cup {c.comp} -> Val]
    BY <1>1, <2>1 DEF Put
  <2> QED BY <1>2, <2>1, <2>2 DEF Data, Applied
<1>3. CASE c.op = "remove"
  <2>1. Restrict(data, DOMAIN data \ {c.comp}) \in [T \ {c.comp} -> Val]
    BY <1>1 DEF Restrict
  <2>2. T \ {c.comp} \in SUBSET Comp
    OBVIOUS
  <2> QED BY <1>3, <2>1, <2>2 DEF Data, Applied
<1>4. CASE c.op \notin {"add", "remove"}
  BY <1>4 DEF Applied
<1> QED BY <1>2, <1>3, <1>4

\* A new entity has no components.
LEMMA NoComponentsType == NoComponents \in Data /\ DOMAIN NoComponents = {}
<1>1. NoComponents \in [{} -> Val] /\ DOMAIN NoComponents = {}
  BY DEF NoComponents
<1> QED BY <1>1 DEF Data

\* Nothing done leaves every set of components as it is.
LEMMA NoEffectType == NoEffect \in [Data -> SUBSET Data]
BY DEF NoEffect

\* A command changes the entity it names and no other.
LEMMA ApplyAt ==
  ASSUME NEW s, StoreType(s), NEW c \in Command
  PROVE  /\ StoreType(Apply(s, c))
         /\ \A e \in Entity \ {c.ent} :
              /\ e \in DOMAIN Apply(s, c) <=> e \in DOMAIN s
              /\ e \in DOMAIN s => Apply(s, c)[e] = s[e]
         /\ c.ent \in DOMAIN Apply(s, c) <=>
              c.op = "create" \/ (c.op # "destroy" /\ c.ent \in DOMAIN s)
         /\ c.ent \in DOMAIN Apply(s, c) =>
              Apply(s, c)[c.ent] =
                IF c.ent \in DOMAIN s THEN Applied(s[c.ent], c) ELSE NoComponents
<1> DEFINE e == c.ent
<1>1. e \in Entity /\ c.op \in {"add", "remove", "create", "destroy"}
  BY CommandShape
<1>2. CASE c.op = "create" /\ e \notin DOMAIN s
  <2>1. Apply(s, c) = [x \in DOMAIN s \cup {e} |-> IF x = e THEN NoComponents ELSE s[x]]
    BY <1>2 DEF Apply
  <2> QED BY <1>1, <1>2, <2>1, NoComponentsType DEF StoreType
<1>3. CASE c.op = "destroy"
  <2>1. Apply(s, c) = [x \in DOMAIN s \ {e} |-> s[x]]
    BY <1>3 DEF Apply, Restrict
  <2> QED BY <1>1, <1>3, <2>1 DEF StoreType
<1>4. CASE c.op \in {"add", "remove"} /\ e \in DOMAIN s
  <2>1. Apply(s, c) = [s EXCEPT ![e] = Applied(s[e], c)]
    BY <1>4 DEF Apply, Applied
  <2>2. s[e] \in Data
    BY <1>4 DEF StoreType
  <2>3. Applied(s[e], c) \in Data
    BY <2>2, AppliedType
  <2> QED BY <1>1, <1>4, <2>1, <2>3 DEF StoreType
<1>5. CASE \/ c.op = "create" /\ e \in DOMAIN s
           \/ c.op \in {"add", "remove"} /\ e \notin DOMAIN s
  <2>1. Apply(s, c) = s
    BY <1>5 DEF Apply
  <2> QED BY <1>1, <1>5, <2>1 DEF StoreType, Applied
<1> QED BY <1>1, <1>2, <1>3, <1>4, <1>5

(***************************************************************************)
(* The latest of several places in a sequence.                             *)
(***************************************************************************)

\* The greatest of a set of places, where it is known.
LEMMA LatestIs ==
  ASSUME NEW I \in SUBSET Nat, NEW i \in I, \A j \in I : j <= i
  PROVE  Latest(I) = i
<1>1. \A k \in I : (\A j \in I : j <= k) => k = i
  OBVIOUS
<1> QED BY <1>1 DEF Latest

\* A set of places that is not empty has a greatest.
LEMMA LatestExists ==
  ASSUME NEW n \in Nat, NEW I \in SUBSET (1..n), I # {}
  PROVE  Latest(I) \in I /\ \A j \in I : j <= Latest(I)
<1> DEFINE Left == {k \in Nat : \E i \in I : k = n - i}
<1>1. Left # {}
  <2>1. PICK i \in I : TRUE
    OBVIOUS
  <2>2. n - i \in Left
    BY <2>1
  <2> QED BY <2>2
<1>2. PICK k \in Left : \A m \in Left : <<m, k>> \notin OpToRel(<, Nat)
  BY <1>1, NatLessThanWellFounded, WFMin
<1>3. PICK i \in I : k = n - i
  OBVIOUS
<1>4. ASSUME NEW j \in I PROVE j <= i
  <2>1. n - j \in Left
    OBVIOUS
  <2>2. ~(n - j < k)
    BY <1>2, <2>1 DEF OpToRel
  <2> QED BY <1>3, <2>2
<1> QED BY <1>4 DEF Latest

(***************************************************************************)
(* The components a commit leaves an entity with.                          *)
(***************************************************************************)

\* Where the operations pending for an entity are.
LEMMA OpsPlaces ==
  ASSUME Typed, NEW e \in Entity
  PROVE  /\ pending[e] \in Seq(OpRecord) /\ Len(pending[e]) \in Nat
         /\ DOMAIN pending[e] = 1..Len(pending[e])
         /\ \A t : OpsOn(e, t) \subseteq 1..Len(pending[e]) /\ AddsOf(e, t) \subseteq OpsOn(e, t)
         /\ \A i \in 1..Len(pending[e]) :
              /\ pending[e][i].op \in {"add", "remove"}
              /\ pending[e][i].comp \in Comp
              /\ pending[e][i].op = "add" => pending[e][i].val \in Val
<1>1. pending[e] \in Seq(OpRecord)
  BY DEF Typed
<1>2. Len(pending[e]) \in Nat /\ DOMAIN pending[e] = 1..Len(pending[e])
  BY <1>1, LenProperties
<1>3. ASSUME NEW i \in 1..Len(pending[e])
      PROVE  /\ pending[e][i].op \in {"add", "remove"}
             /\ pending[e][i].comp \in Comp
             /\ pending[e][i].op = "add" => pending[e][i].val \in Val
  <2>1. pending[e][i] \in OpRecord
    BY <1>1, ElementOfSeq
  <2> QED BY <2>1, CommandShape DEF OpRecord
<1> QED BY <1>1, <1>2, <1>3 DEF OpsOn, AddsOf, OpsOf

\* A commit leaves an entity with the final set of components.
LEMMA CommittedType ==
  ASSUME Typed, NEW e \in Entity, NEW data \in Data
  PROVE  /\ Committed(e, data) \in Data
         /\ DOMAIN Committed(e, data) = FinalSet(e, data) /\ FinalSet(e, data) \subseteq Comp
<1>1. PICK T \in SUBSET Comp : data \in [T -> Val]
  BY DEF Data
<1>2. ASSUME NEW t \in FinalSet(e, data)
      PROVE  (IF t \in DOMAIN LastAdd(e) THEN LastAdd(e)[t] ELSE data[t]) \in Val
  <2>1. CASE t \in DOMAIN LastAdd(e)
    <3>1. t \in Comp /\ AddsOf(e, t) # {} /\ AddsOf(e, t) \subseteq 1..Len(pending[e])
      BY <2>1, OpsPlaces DEF LastAdd
    <3>2. Latest(AddsOf(e, t)) \in AddsOf(e, t)
      BY <3>1, OpsPlaces, LatestExists
    <3>3. OpsOf(e)[Latest(AddsOf(e, t))].val \in Val
      BY <3>1, <3>2, OpsPlaces DEF AddsOf, OpsOf
    <3> QED BY <2>1, <3>1, <3>3 DEF LastAdd
  <2>2. CASE t \notin DOMAIN LastAdd(e)
    <3>1. t \in Comp /\ AddsOf(e, t) = {}
      BY <2>2 DEF LastAdd, FinalSet
    <3>2. OpsOn(e, t) = {}
      <4>1. SUFFICES ASSUME OpsOn(e, t) # {} PROVE FALSE
        OBVIOUS
      <4>2. Latest(OpsOn(e, t)) \in AddsOf(e, t)
        BY <4>1 DEF FinalSet
      <4> QED BY <3>1, <4>2
    <3>3. t \in DOMAIN data
      BY <3>2 DEF FinalSet
    <3> QED BY <1>1, <2>2, <3>3
  <2> QED BY <2>1, <2>2
<1>3. FinalSet(e, data) \in SUBSET Comp
  BY DEF FinalSet
<1>4. Committed(e, data) \in [FinalSet(e, data) -> Val]
  BY <1>2 DEF Committed
<1> QED BY <1>3, <1>4 DEF Data

\* Without operations a commit changes nothing.
LEMMA CommitsNothing ==
  ASSUME NEW e, NEW data \in Data, pending[e] = <<>>
  PROVE  Committed(e, data) = data
<1>1. PICK T \in SUBSET Comp : data \in [T -> Val]
  BY DEF Data
<1>2. \A t : OpsOn(e, t) = {} /\ AddsOf(e, t) = {}
  BY DEF OpsOn, AddsOf, OpsOf
<1>3. FinalSet(e, data) = T /\ DOMAIN LastAdd(e) = {}
  BY <1>1, <1>2 DEF FinalSet, LastAdd
<1> QED BY <1>1, <1>3 DEF Committed

\* A commit depends on what the entity has and on its operations alone.
LEMMA CommitsTheSame ==
  ASSUME NEW e, NEW data, pending'[e] = pending[e]
  PROVE  Committed(e, data)' = Committed(e, data)
<1>1. \A t : OpsOn(e, t)' = OpsOn(e, t) /\ AddsOf(e, t)' = AddsOf(e, t)
  BY DEF OpsOn, AddsOf, OpsOf
<1>2. FinalSet(e, data)' = FinalSet(e, data) /\ LastAdd(e)' = LastAdd(e)
  BY <1>1 DEF FinalSet, LastAdd, OpsOf
<1> QED BY <1>2 DEF Committed

\* Recording one more operation commits what the operation makes of what would
\* have been committed without it.
LEMMA CommitsOneMore ==
  ASSUME Typed, NEW e \in Entity, NEW data \in Data,
         NEW c \in Command, c.op \in {"add", "remove"},
         pending' = [pending EXCEPT ![e] = Append(pending[e], c)]
  PROVE  Committed(e, data)' = Applied(Committed(e, data), c)
<1> DEFINE n == Len(pending[e])
           t == c.comp
<1>1. e \in Entity /\ c \in OpRecord /\ t \in Comp /\ n \in Nat
  BY CommandShape, OpsPlaces
<1>2. /\ pending'[e] = Append(pending[e], c)
      /\ DOMAIN pending'[e] = 1..n+1
      /\ \A i \in 1..n : pending'[e][i] = pending[e][i]
      /\ pending'[e][n+1] = c
  <2>1. pending[e] \in Seq(OpRecord) /\ pending'[e] = Append(pending[e], c)
    BY <1>1 DEF Typed
  <2>2. Append(pending[e], c) \in Seq(OpRecord) /\ Len(Append(pending[e], c)) = n + 1
    BY <1>1, <2>1, AppendProperties
  <2>3. DOMAIN Append(pending[e], c) = 1..n+1
    BY <2>2, LenProperties
  <2> QED BY <1>1, <2>1, <2>3, AppendProperties
<1> HIDE DEF n
<1>3. /\ n+1 \in 1..n+1 /\ n+1 \notin 1..n /\ 1..n+1 = (1..n) \cup {n+1}
      /\ DOMAIN pending[e] = 1..n
  BY <1>1, OpsPlaces DEF n
<1>4. \A u : OpsOn(e, u) \subseteq 1..n /\ AddsOf(e, u) \subseteq 1..n
  BY <1>3 DEF OpsOn, AddsOf, OpsOf
<1>5. \A u : u # t => OpsOn(e, u)' = OpsOn(e, u) /\ AddsOf(e, u)' = AddsOf(e, u)
  <2> TAKE u
  <2> HAVE u # t
  <2>1. OpsOn(e, u)' = OpsOn(e, u)
    BY <1>2, <1>3 DEF OpsOn, OpsOf
  <2> QED BY <1>2, <1>4, <2>1 DEF AddsOf, OpsOf
<1>6. /\ OpsOn(e, t)' = OpsOn(e, t) \cup {n+1}
      /\ c.op = "add" => AddsOf(e, t)' = AddsOf(e, t) \cup {n+1}
      /\ c.op # "add" => AddsOf(e, t)' = AddsOf(e, t)
  <2>1. OpsOn(e, t)' = OpsOn(e, t) \cup {n+1}
    BY <1>2, <1>3 DEF OpsOn, OpsOf
  <2> QED BY <1>2, <1>3, <1>4, <2>1 DEF AddsOf, OpsOf
<1>7. Latest(OpsOn(e, t)') = n+1 /\ (c.op = "add" => Latest(AddsOf(e, t)') = n+1)
  <2>1. ASSUME NEW I \in SUBSET (1..n) PROVE Latest(I \cup {n+1}) = n+1
    <3>1. I \cup {n+1} \in SUBSET Nat /\ \A j \in I \cup {n+1} : j <= n+1
      BY <1>1
    <3> QED BY <3>1, LatestIs
  <2> QED BY <1>4, <1>6, <2>1
<1>8. FinalSet(e, data)' = IF c.op = "add" THEN FinalSet(e, data) \cup {t} ELSE FinalSet(e, data) \ {t}
  <2>1. \A u \in Comp : u # t => (u \in FinalSet(e, data)' <=> u \in FinalSet(e, data))
    BY <1>5 DEF FinalSet
  <2>2. n+1 \in AddsOf(e, t)' <=> c.op = "add"
    BY <1>3, <1>4, <1>6
  <2>3. t \in FinalSet(e, data)' <=> c.op = "add"
    BY <1>1, <1>6, <1>7, <2>2 DEF FinalSet
  <2>4. FinalSet(e, data) \subseteq Comp /\ FinalSet(e, data)' \subseteq Comp
    BY DEF FinalSet
  <2> QED BY <1>1, <2>1, <2>3, <2>4
<1>9. ASSUME NEW u \in Comp, u # t
      PROVE  /\ u \in DOMAIN LastAdd(e)' <=> u \in DOMAIN LastAdd(e)
             /\ u \in DOMAIN LastAdd(e) => LastAdd(e)'[u] = LastAdd(e)[u]
  <2>1. AddsOf(e, u)' = AddsOf(e, u)
    BY <1>5, <1>9
  <2>2. ASSUME AddsOf(e, u) # {}
        PROVE  pending'[e][Latest(AddsOf(e, u))] = pending[e][Latest(AddsOf(e, u))]
    <3>1. Latest(AddsOf(e, u)) \in 1..n
      BY <1>1, <1>4, <2>2, LatestExists
    <3> QED BY <1>2, <3>1
  <2>3. u \in DOMAIN LastAdd(e)' <=> u \in DOMAIN LastAdd(e)
    BY <2>1 DEF LastAdd
  <2>4. ASSUME u \in DOMAIN LastAdd(e) PROVE LastAdd(e)'[u] = LastAdd(e)[u]
    <3>1. AddsOf(e, u) # {}
      BY <2>4 DEF LastAdd
    <3>2. LastAdd(e)[u] = pending[e][Latest(AddsOf(e, u))].val
      BY <1>9, <3>1 DEF LastAdd, OpsOf
    <3>3. LastAdd(e)'[u] = pending'[e][Latest(AddsOf(e, u)')].val
      BY <1>9, <2>1, <3>1 DEF LastAdd, OpsOf
    <3> QED BY <2>1, <2>2, <3>1, <3>2, <3>3
  <2> QED BY <2>3, <2>4
<1>10. c.op = "add" => t \in DOMAIN LastAdd(e)' /\ LastAdd(e)'[t] = c.val
  BY <1>1, <1>2, <1>6, <1>7 DEF LastAdd, OpsOf
<1>11. FinalSet(e, data) \subseteq Comp
  BY DEF FinalSet
<1>12. CASE c.op = "add"
  <2>1. Committed(e, data)' = [u \in FinalSet(e, data) \cup {t} |->
          IF u = t THEN c.val ELSE Committed(e, data)[u]]
    BY <1>8, <1>9, <1>10, <1>11, <1>12 DEF Committed
  <2>2. DOMAIN Committed(e, data) = FinalSet(e, data)
    BY DEF Committed
  <2> QED BY <1>12, <2>1, <2>2 DEF Applied, Put
<1>13. CASE c.op = "remove"
  <2>1. Committed(e, data)' = [u \in FinalSet(e, data) \ {t} |-> Committed(e, data)[u]]
    BY <1>8, <1>9, <1>11, <1>13 DEF Committed
  <2>2. DOMAIN Committed(e, data) = FinalSet(e, data)
    BY DEF Committed
  <2> QED BY <1>13, <2>1, <2>2 DEF Applied, Restrict
<1> QED BY <1>12, <1>13

(***************************************************************************)
(* The events of a commit or a destruction.                                *)
(***************************************************************************)

\* A set of components as a list, each once.
LEMMA ListOfSet ==
  ASSUME NEW T \in SUBSET Comp
  PROVE  /\ SetToSeq(T) \in [1..Cardinality(T) -> T] /\ Cardinality(T) \in Nat
         /\ \A i, j \in 1..Cardinality(T) : SetToSeq(T)[i] = SetToSeq(T)[j] => i = j
         /\ \A t \in T : \E i \in 1..Cardinality(T) : SetToSeq(T)[i] = t
<1> DEFINE n == Cardinality(T)
<1>1. IsFiniteSet(T)
  BY CommandBufferAssumption, FS_Subset
<1>2. n \in Nat /\ ExistsBijection(1..n, T)
  BY <1>1, FS_CardinalityType
<1> HIDE DEF n
<1>3. \E f \in [1..n -> T] : IsInjective(f)
  BY <1>2 DEF ExistsBijection, Bijection, Injection, IsInjective
<1>4. SetToSeq(T) \in [1..n -> T] /\ IsInjective(SetToSeq(T))
  BY <1>3 DEF SetToSeq, n
<1>5. SetToSeq(T) \in Injection(1..n, T)
  BY <1>4 DEF Injection, IsInjective
<1>6. IsFiniteSet(1..n) /\ Cardinality(1..n) = Cardinality(T)
  BY <1>2, FS_Interval DEF n
<1>7. SetToSeq(T) \in Surjection(1..n, T)
  BY <1>1, <1>5, <1>6, FS_Injection DEF n
<1> QED BY <1>2, <1>4, <1>7 DEF Surjection, IsInjective, n

\* A function on 1..n is a sequence.
LEMMA SeqOfFunction ==
  ASSUME NEW S, NEW n \in Nat, NEW f \in [1..n -> S]
  PROVE  f \in Seq(S) /\ Len(f) = n /\ DOMAIN f = 1..n
<1>1. f \in Seq(S)
  BY SeqDef
<1> QED BY <1>1, LenProperties

\* One event for each component of a set.
LEMMA EventsOfSet ==
  ASSUME NEW kind \in {"Added", "Changed", "Removed"}, NEW e \in Entity,
         NEW T \in SUBSET Comp, NEW q, q = Events(kind, e, T)
  PROVE  /\ q \in Seq(Event)
         /\ \A i \in DOMAIN q : q[i].kind = kind /\ q[i].ent = e /\ q[i].comp \in T
         /\ \A i, j \in DOMAIN q : q[i].comp = q[j].comp => i = j
         /\ \A t \in T : \E i \in DOMAIN q : q[i].comp = t
<1>1. q \in [1..Cardinality(T) -> Event]
  BY ListOfSet DEF Events, Event
<1>2. q \in Seq(Event) /\ DOMAIN q = 1..Cardinality(T)
  BY <1>1, ListOfSet, SeqOfFunction
<1>3. \A i \in DOMAIN q : q[i] = [kind |-> kind, ent |-> e, comp |-> SetToSeq(T)[i]]
  BY ListOfSet DEF Events
<1> QED BY <1>2, <1>3, ListOfSet

\* The events of a commit tell how the components differ from before.
LEMMA NetEventsTell ==
  ASSUME Typed, NEW e \in Alive, NEW q, q = NetEvents(e)
  PROVE  /\ q \in Seq(Event)
         /\ \A i \in DOMAIN q :
              /\ q[i].ent = e /\ q[i].comp \in Comp
              /\ q[i].kind # "Added" <=> q[i].comp \in DOMAIN store[e]
              /\ q[i].kind # "Removed" <=> q[i].comp \in FinalSet(e, store[e])
         /\ \A i, j \in DOMAIN q : q[i].comp = q[j].comp => i = j
         /\ \A t \in Comp : (\A i \in DOMAIN q : q[i].comp # t) =>
              (t \in DOMAIN store[e] <=> t \in FinalSet(e, store[e]))
<1> DEFINE told == {t \in FinalSet(e, store[e]) : t \notin DOMAIN store[e] \/ t \in DOMAIN LastAdd(e)}
           gone == DOMAIN store[e] \ FinalSet(e, store[e])
           first == [i \in DOMAIN SetToSeq(told) |->
                      [kind |-> IF SetToSeq(told)[i] \in DOMAIN store[e] THEN "Changed" ELSE "Added",
                       ent |-> e, comp |-> SetToSeq(told)[i]]]
           second == Events("Removed", e, gone)
           m == Cardinality(told)
<1>1. e \in Entity /\ told \in SUBSET Comp /\ gone \in SUBSET Comp
  <2>1. e \in Entity /\ store[e] \in Data
    BY DEF Typed, StoreType, Alive
  <2>2. FinalSet(e, store[e]) \subseteq Comp
    BY <2>1, CommittedType
  <2> QED BY <2>1, <2>2 DEF Data
<1>2. q = first \o second
  BY DEF NetEvents
<1> HIDE DEF told, gone
<1>3. first \in [1..m -> Event] /\ m \in Nat
  BY <1>1, ListOfSet DEF Event
<1>4. first \in Seq(Event) /\ Len(first) = m /\ DOMAIN first = 1..m
  BY <1>3, SeqOfFunction
<1>5. /\ \A i \in 1..m :
           /\ first[i].ent = e /\ first[i].comp \in told
           /\ first[i].kind = IF first[i].comp \in DOMAIN store[e] THEN "Changed" ELSE "Added"
      /\ \A i, j \in 1..m : first[i].comp = first[j].comp => i = j
      /\ \A t \in told : \E i \in 1..m : first[i].comp = t
  BY <1>1, ListOfSet
<1>6. /\ second \in Seq(Event)
      /\ \A i \in DOMAIN second :
           second[i].kind = "Removed" /\ second[i].ent = e /\ second[i].comp \in gone
      /\ \A i, j \in DOMAIN second : second[i].comp = second[j].comp => i = j
      /\ \A t \in gone : \E i \in DOMAIN second : second[i].comp = t
  BY <1>1, EventsOfSet
<1> DEFINE k == Len(second)
<1>7. k \in Nat /\ DOMAIN second = 1..k
  BY <1>6, LenProperties
<1> HIDE DEF first, second, m, k
<1>8. /\ q \in Seq(Event) /\ DOMAIN q = 1..m+k
      /\ \A i \in 1..m+k : q[i] = IF i <= m THEN first[i] ELSE second[i-m]
  <2>1. /\ first \o second \in Seq(Event)
        /\ Len(first \o second) = Len(first) + Len(second)
        /\ \A i \in 1..Len(first) + Len(second) :
             (first \o second)[i] = IF i <= Len(first) THEN first[i] ELSE second[i - Len(first)]
    <3>1. first \in Seq(Event) /\ second \in Seq(Event)
      BY <1>4, <1>6
    <3> QED BY <3>1, ConcatProperties
  <2>2. q \in Seq(Event) /\ Len(q) = m + k
    BY <1>2, <1>4, <2>1 DEF k
  <2>3. DOMAIN q = 1..m+k
    BY <2>2, LenProperties
  <2> QED BY <1>2, <1>4, <2>1, <2>2, <2>3 DEF k
<1>9. \A i \in DOMAIN q :
        \/ i \in 1..m /\ q[i] = first[i]
        \/ i - m \in 1..k /\ q[i] = second[i-m] /\ i \notin 1..m
  BY <1>3, <1>7, <1>8
<1>10. \A t : ~(t \in told /\ t \in gone)
  BY DEF told, gone
<1>11. \A i, j \in DOMAIN q : q[i].comp = q[j].comp => i = j
  <2> SUFFICES ASSUME NEW i \in DOMAIN q, NEW j \in DOMAIN q, q[i].comp = q[j].comp
               PROVE  i = j
    OBVIOUS
  <2>1. CASE i \in 1..m /\ j \in 1..m
    BY <1>5, <1>9, <2>1
  <2>2. CASE i \notin 1..m /\ j \notin 1..m
    <3>1. i - m = j - m
      BY <1>6, <1>7, <1>9, <2>2
    <3> QED BY <1>3, <1>7, <1>8, <3>1
  <2>3. CASE i \in 1..m <=> j \notin 1..m
    BY <1>5, <1>6, <1>7, <1>9, <1>10, <2>3
  <2> QED BY <2>1, <2>2, <2>3
<1>12. ASSUME NEW t \in told \cup gone PROVE \E i \in DOMAIN q : q[i].comp = t
  <2>1. CASE t \in told
    <3>1. PICK i \in 1..m : first[i].comp = t
      BY <1>5, <2>1
    <3>2. i \in DOMAIN q /\ q[i] = first[i]
      BY <1>3, <1>7, <1>8
    <3> QED BY <3>1, <3>2
  <2>2. CASE t \in gone
    <3>1. PICK i \in 1..k : second[i].comp = t
      BY <1>6, <1>7, <2>2
    <3>2. i + m \in DOMAIN q /\ q[i + m] = second[i]
      BY <1>3, <1>7, <1>8
    <3> QED BY <3>1, <3>2
  <2> QED BY <2>1, <2>2
<1>13. ASSUME NEW i \in DOMAIN q
       PROVE  /\ q[i].ent = e /\ q[i].comp \in Comp
              /\ q[i].kind # "Added" <=> q[i].comp \in DOMAIN store[e]
              /\ q[i].kind # "Removed" <=> q[i].comp \in FinalSet(e, store[e])
  <2>1. CASE i \in 1..m
    <3>1. /\ q[i].ent = e /\ q[i].comp \in told
          /\ q[i].kind = IF q[i].comp \in DOMAIN store[e] THEN "Changed" ELSE "Added"
      BY <1>5, <1>9, <2>1
    <3> QED BY <1>1, <3>1 DEF told
  <2>2. CASE i \notin 1..m
    <3>1. q[i].ent = e /\ q[i].comp \in gone /\ q[i].kind = "Removed"
      BY <1>6, <1>7, <1>9, <2>2
    <3> QED BY <1>1, <3>1 DEF gone
  <2> QED BY <2>1, <2>2
<1>14. \A t \in Comp : t \notin told \cup gone => (t \in DOMAIN store[e] <=> t \in FinalSet(e, store[e]))
  BY DEF told, gone
<1> QED BY <1>8, <1>11, <1>12, <1>13, <1>14

(***************************************************************************)
(* The flush under way.                                                    *)
(***************************************************************************)

\* Where observers do not flush, there is one flush at a time.
LEMMA TheFrame ==
  ASSUME Typed, ~Idle
  PROVE  Len(frames) = 1 /\ Top = frames[1] /\ Top \in FrameType
<1>1. frames \in Seq(FrameType) /\ Len(frames) <= 1 /\ frames # <<>>
  BY DEF Typed, Idle
<1>2. Len(frames) \in Nat \ {0}
  BY <1>1, EmptySeq
<1>3. Len(frames) = 1 /\ Top = frames[1]
  BY <1>1, <1>2 DEF Top
<1>4. frames[1] \in FrameType
  BY <1>1, <1>3, ElementOfSeq
<1> QED BY <1>3, <1>4

\* What a flush becomes at its next step.
LEMMA SetTheFrame ==
  ASSUME Typed, ~Idle, NEW f \in FrameType, SetTop(f)
  PROVE  /\ frames' \in Seq(FrameType) /\ Len(frames') = 1
         /\ ~Idle' /\ Top' = f
<1>1. Len(frames) = 1 /\ frames \in Seq(FrameType)
  BY TheFrame DEF Typed
<1>2. frames' = [frames EXCEPT ![1] = f]
  BY <1>1 DEF SetTop
<1>3. frames' \in Seq(FrameType) /\ Len(frames') = 1 /\ frames'[1] = f
  BY <1>1, <1>2, ExceptSeq
<1>4. frames' # <<>>
  BY <1>3, EmptySeq
<1> QED BY <1>3, <1>4 DEF Top, Idle

\* The loop comes to the entity after the one it has dealt with.
LEMMA AheadAfterNext ==
  ASSUME Typed, ~Idle, Top.next <= Len(moved), UNCHANGED moved, Top'.next = Top.next + 1
  PROVE  /\ moved[Top.next] \in Entity /\ Ahead(moved[Top.next])
         /\ Top'.next <= Len(moved') + 1
         /\ \A e : Ahead(e)' <=> Ahead(e) /\ e # moved[Top.next]
<1>1. Top.next \in Nat \ {0} /\ Len(moved) \in Nat /\ DOMAIN moved = 1..Len(moved)
  BY TheFrame, LenProperties DEF Typed, FrameType
<1>2. Top.next \in 1..Len(moved) /\ moved[Top.next] \in Entity
  BY <1>1, ElementOfSeq DEF Typed
<1>3. \A i \in DOMAIN moved : moved[i] = moved[Top.next] => i = Top.next
  BY <1>1, <1>2 DEF Typed, IsInjective
<1>4. \A i \in DOMAIN moved : Top.next + 1 <= i <=> Top.next <= i /\ i # Top.next
  BY <1>1
<1>5. ASSUME NEW e PROVE Ahead(e)' <=> Ahead(e) /\ e # moved[Top.next]
  BY <1>1, <1>2, <1>3, <1>4 DEF Ahead
<1>6. Ahead(moved[Top.next])
  BY <1>1, <1>2 DEF Ahead
<1>7. Top'.next <= Len(moved') + 1
  BY <1>1
<1> QED BY <1>2, <1>5, <1>6, <1>7

\* At its start a loop has everybody before it.
LEMMA AllAhead ==
  ASSUME Typed, Top.next = 1
  PROVE  \A e : Ahead(e) <=> e \in ToSet(moved)
BY LenProperties DEF Typed, Ahead, ToSet

\* At its end it has nobody.
LEMMA NoneAhead ==
  ASSUME Typed, ~Idle, Top.next > Len(moved)
  PROVE  \A e : ~Ahead(e)
<1>1. Top.next \in Nat /\ Len(moved) \in Nat /\ DOMAIN moved = 1..Len(moved)
  BY TheFrame, LenProperties DEF Typed, FrameType
<1> QED BY <1>1 DEF Ahead

\* What is left to do depends on what is recorded and how far the loop is.
LEMMA SameToDo ==
  ASSUME OnTheWay, Top'.loop = Top.loop, Top'.next = Top.next,
         UNCHANGED <<pending, moved, doomed, effect>>
  PROVE  OnTheWay'
<1>1. \A x : (MustDie(x)' <=> MustDie(x)) /\ (MustMove(x)' <=> MustMove(x))
  BY DEF MustDie, MustMove, Ahead
<1>2. \A x, d : Committed(x, d)' = Committed(x, d)
  BY CommitsTheSame
<1> QED BY <1>1, <1>2 DEF OnTheWay

\* A flush is where it was if only the queue changes.
LEMMA OnlyThese ==
  ASSUME InFlush,
         UNCHANGED <<store, pending, moved, doomed, frames, effect, mirror, stale>>
  PROVE  InFlush'
<1>1. Top' = Top
  BY DEF Top
<1>2. OnTheWay'
  BY <1>1, SameToDo DEF InFlush
<1>3. Mirrored'
  BY <1>1 DEF InFlush, Mirrored, About, Told
<1> QED BY <1>1, <1>2, <1>3 DEF InFlush, Recording, Recorded

(***************************************************************************)
(* Outside of a flush, its beginning, and what observers do.               *)
(***************************************************************************)

\* What is still to be told of one flush.
LEMMA ToldNow ==
  ASSUME Typed
  PROVE  ToBeTold = IF Idle THEN {} ELSE Told
<1>1. CASE Idle
  BY <1>1 DEF Idle, ToBeTold
<1>2. CASE ~Idle
  <2>1. Top = frames[1] /\ DOMAIN frames = {1}
    BY <1>2, TheFrame, LenProperties DEF Typed
  <2>2. ToBeTold = Pairs(Top.events)
    BY <2>1 DEF ToBeTold
  <2> QED BY <1>2, <2>2 DEF Pairs, Told, About
<1> QED BY <1>1, <1>2

\* A command is queued.
LEMMA EnqueueKeeps ==
  ASSUME FlushInv, NEW c \in Command, Enqueue(c)
  PROVE  FlushInv'
<1>1. /\ buffer' = Append(buffer, c) /\ Len(buffer) < MaxQueue
      /\ buffer \in Seq(Command) /\ MaxQueue \in Nat
  <2>1. Len(buffer) < IF frames = <<>> THEN MaxQueue ELSE MaxRequeue
    BY DEF Enqueue
  <2>2. buffer \in Seq(Command) /\ Len(buffer) \in Nat
    BY LenProperties DEF FlushInv, Typed
  <2> QED BY <2>1, <2>2, CommandBufferAssumption DEF Enqueue
<1>2. buffer' \in Seq(Command) /\ Len(buffer') = Len(buffer) + 1 /\ Len(buffer) \in Nat
  BY <1>1, AppendProperties, LenProperties
<1>3. UNCHANGED <<store, pending, moved, doomed, frames, settled, effect, mirror, stale>>
  BY DEF Enqueue, deferVars, turnVars, toldVars
<1>4. Typed'
  BY <1>1, <1>2, <1>3 DEF FlushInv, Typed
<1>5. (Idle' <=> Idle) /\ (AtRest' <=> AtRest)
  BY <1>3 DEF Idle, AtRest
<1>6. InFlush => InFlush'
  BY <1>3, OnlyThese
<1> QED BY <1>3, <1>4, <1>5, <1>6 DEF FlushInv

\* The world and what it should be change alike, and what is recorded does to
\* either what it does.  An observer that is told believes what is so.
LEMMA DirectKeeps ==
  ASSUME FlushInv, NEW c \in Command, Direct(c)
  PROVE  FlushInv'
<1> DEFINE changed == (Membership(store') \ Membership(store))
                        \cup (Membership(store) \ Membership(store'))
<1>1. /\ store' = Apply(store, c) /\ settled' = Apply(settled, c) /\ store = settled
      /\ mirror' = (mirror \ (Membership(store) \ Membership(store')))
                     \cup (Membership(store') \ Membership(store))
      /\ stale' = (stale \ changed) \cup (changed \cap ToBeTold)
      /\ UNCHANGED <<buffer, pending, moved, doomed, frames, effect>>
      /\ Typed
  BY DEF Direct, FlushInv, deferVars
<1>2. \A s : Membership(s) \subseteq Entity \X Comp
  BY DEF Membership
<1>3. Typed'
  <2>1. StoreType(store')
    BY <1>1, ApplyAt DEF Typed
  <2>2. mirror' \subseteq Entity \X Comp /\ stale' \subseteq Entity \X Comp
    BY <1>1, <1>2 DEF Typed
  <2> QED BY <1>1, <2>1, <2>2 DEF Typed
<1>4. \A p : p \in changed <=> ~(p \in Membership(store') <=> p \in Membership(store))
  OBVIOUS
<1>5. \A p : /\ p \in changed => (p \in mirror' <=> p \in Membership(store'))
             /\ p \notin changed => (p \in mirror' <=> p \in mirror)
  BY <1>1
<1> HIDE DEF changed
<1>6. CASE Idle
  <2>1. AtRest /\ ToBeTold = {} /\ Idle'
    BY <1>1, <1>6, ToldNow DEF FlushInv, Idle
  <2>2. stale' = {} /\ mirror' = Membership(store')
    BY <1>1, <2>1 DEF AtRest
  <2> QED BY <1>1, <1>3, <2>1, <2>2 DEF FlushInv, AtRest
<1>7. CASE ~Idle
  <2>1. InFlush /\ ~Idle' /\ Top' = Top /\ ToBeTold = Told
    BY <1>1, <1>7, ToldNow DEF FlushInv, Idle, Top
  <2>2. OnTheWay'
    BY <1>1, <2>1, SameToDo DEF InFlush
  <2>3. Recording' /\ Recorded' /\ Top'.next <= Len(moved') + 1
    BY <1>1, <2>1 DEF InFlush, Recording, Recorded
  <2>4. Mirrored'
    <3>1. /\ DOMAIN Top'.events = DOMAIN Top.events /\ Told' = Told
          /\ \A i : About(i)' = About(i)
      BY <2>1 DEF About, Told
    <3>2. \A i, j \in DOMAIN Top'.events : About(i)' = About(j)' => i = j
      BY <2>1, <3>1 DEF InFlush, Mirrored
    <3>3. ASSUME NEW i \in DOMAIN Top'.events, About(i)' \notin stale'
          PROVE  /\ About(i)' \in mirror' <=> Top'.events[i].kind # "Added"
                 /\ About(i)' \in Membership(store') <=> Top'.events[i].kind # "Removed"
      <4>1. About(i) \in Told /\ About(i) \notin changed /\ About(i) \notin stale
        BY <1>1, <2>1, <3>1, <3>3 DEF Told
      <4> QED BY <1>4, <1>5, <2>1, <3>1, <4>1 DEF InFlush, Mirrored
    <3>4. ASSUME NEW p \in (Entity \X Comp) \ (Told' \cup stale')
          PROVE  p \in mirror' <=> p \in Membership(store')
      <4>1. CASE p \in changed
        BY <1>5, <4>1
      <4>2. CASE p \notin changed
        <5>1. p \notin Told \cup stale
          BY <1>1, <3>1, <3>4, <4>2
        <5> QED BY <1>4, <1>5, <2>1, <3>4, <4>2, <5>1 DEF InFlush, Mirrored
      <4> QED BY <4>1, <4>2
    <3> QED BY <3>2, <3>3, <3>4 DEF Mirrored
  <2> QED BY <1>1, <1>3, <2>1, <2>2, <2>3, <2>4 DEF FlushInv, InFlush
<1> QED BY <1>6, <1>7

\* A flush takes over the queue.
LEMMA BeginFlushKeeps ==
  ASSUME FlushInv, Idle, BeginFlush
  PROVE  FlushInv'
<1>1. /\ frames' = Append(<<>>, NewFrame(buffer)) /\ buffer' = <<>> /\ buffer # <<>>
      /\ UNCHANGED <<store, pending, moved, doomed, settled, effect, mirror, stale>>
      /\ buffer \in Seq(Command) /\ Typed /\ store = settled /\ AtRest
  BY DEF BeginFlush, FlushInv, Idle, deferVars, turnVars, toldVars, Typed
<1> DEFINE f == NewFrame(buffer)
<1>2. f \in FrameType
  BY <1>1, EmptySeq DEF NewFrame, FrameType
<1>3. /\ f.ops = buffer /\ f.loop = "destroy" /\ f.next = 1
      /\ f.events = <<>> /\ f.on = {}
  BY DEF NewFrame
<1> HIDE DEF f
<1>4. frames' \in Seq(FrameType) /\ Len(frames') = 1 /\ frames'[1] = f /\ frames' # <<>>
  <2>1. <<>> \in Seq(FrameType) /\ Len(<<>>) = 0
    BY EmptySeq
  <2>2. frames' = Append(<<>>, f)
    BY <1>1 DEF f
  <2> QED BY <1>2, <2>1, <2>2, AppendProperties
<1>5. Top' = f /\ ~Idle'
  BY <1>4 DEF Top, Idle
<1>6. Typed'
  <2>1. buffer' \in Seq(Command) /\ Len(buffer') <= MaxQueue
    BY <1>1, EmptySeq, CommandBufferAssumption
  <2> QED BY <1>1, <1>4, <2>1 DEF Typed
<1>7. moved' = <<>> /\ ToSet(moved') = {} /\ Len(moved') = 0 /\ DOMAIN moved' = {}
  BY <1>1, EmptySeq DEF AtRest, ToSet
<1>8. \A e : ~Ahead(e)' /\ ~MustDie(e)'
  BY <1>7 DEF Ahead, MustDie
<1>9. OnTheWay'
  <2> SUFFICES ASSUME NEW e \in Entity, NEW d \in Data
               PROVE  effect'[e][d] = IF MustDie(e)' THEN {} ELSE IF MustMove(e)' THEN {Committed(e, d)'} ELSE {d}
    BY DEF OnTheWay
  <2>1. effect'[e][d] = {d} /\ pending[e] = <<>> /\ pending'[e] = pending[e]
    BY <1>1 DEF AtRest, NoEffect
  <2>2. Committed(e, d)' = d
    BY <2>1, CommitsTheSame, CommitsNothing
  <2> QED BY <1>8, <2>1, <2>2
<1>10. Recording' /\ Recorded'
  BY <1>1, <1>3, <1>5 DEF Recording, Recorded, AtRest
<1>11. Mirrored'
  BY <1>1, <1>3, <1>5 DEF Mirrored, Told, AtRest
<1> QED BY <1>1, <1>3, <1>5, <1>6, <1>7, <1>9, <1>10, <1>11 DEF FlushInv, InFlush

\* An observer hears of one more event.
LEMMA DispatchKeeps ==
  ASSUME FlushInv, Dispatch
  PROVE  FlushInv'
<1> DEFINE ev == Head(Top.events)
           rest == Tail(Top.events)
           f == [Top EXCEPT !.events = rest, !.on = {ev.ent}]
<1>1. /\ ~Idle /\ Top.events # <<>> /\ SetTop(f)
      /\ mirror' = IF ev.kind = "Added" THEN mirror \cup {<<ev.ent, ev.comp>>}
                   ELSE IF ev.kind = "Removed" THEN mirror \ {<<ev.ent, ev.comp>>}
                   ELSE mirror
      /\ UNCHANGED <<store, buffer, pending, moved, doomed, settled, effect, stale>>
      /\ Typed /\ InFlush /\ store = settled
  BY DEF Dispatch, FlushInv, Idle, deferVars, turnVars
<1>2. Top \in FrameType /\ Top.events \in Seq(Event)
  BY <1>1, TheFrame DEF FrameType
<1>3. /\ DOMAIN Top.events = 1..Len(Top.events) /\ Len(Top.events) \in Nat \ {0}
      /\ ev = Top.events[1] /\ ev \in Event
      /\ rest \in Seq(Event) /\ DOMAIN rest = 1..Len(Top.events)-1
      /\ \A i \in DOMAIN rest : rest[i] = Top.events[i+1] /\ i+1 \in DOMAIN Top.events /\ i+1 # 1
  <2>1. rest \in Seq(Event) /\ Len(rest) = Len(Top.events) - 1 /\ ev \in Event
    BY <1>1, <1>2, HeadTailProperties
  <2>2. Len(Top.events) \in Nat \ {0} /\ DOMAIN Top.events = 1..Len(Top.events)
    BY <1>1, <1>2, EmptySeq, LenProperties
  <2>3. DOMAIN rest = 1..Len(Top.events)-1
    BY <2>1, LenProperties
  <2>4. ev = Top.events[1]
    BY <1>1, <1>2
  <2>5. \A i \in DOMAIN rest : rest[i] = Top.events[i+1]
    BY <1>1, <1>2, <2>1, <2>3, HeadTailProperties
  <2> QED BY <2>1, <2>2, <2>3, <2>4, <2>5
<1>4. /\ f \in FrameType
      /\ f.ops = Top.ops /\ f.loop = Top.loop /\ f.next = Top.next
      /\ f.events = rest /\ f.on = {ev.ent}
  BY <1>2, <1>3 DEF FrameType, Event
<1> HIDE DEF f, rest, ev
<1>5. frames' \in Seq(FrameType) /\ Len(frames') = 1 /\ ~Idle' /\ Top' = f
  BY <1>1, <1>4, SetTheFrame
<1>6. Typed'
  <2>1. mirror' \subseteq Entity \X Comp
    BY <1>1, <1>3 DEF Typed, Event
  <2> QED BY <1>1, <1>5, <2>1 DEF Typed
<1>8. OnTheWay'
  BY <1>1, <1>4, <1>5, SameToDo DEF InFlush
<1>10. Recording'
  BY <1>1, <1>4, <1>5 DEF InFlush, Recording
<1>11. Recorded' /\ Top'.next <= Len(moved') + 1
  BY <1>1, <1>4, <1>5 DEF InFlush, Recorded
<1>12. Mirrored'
  <2>1. Mirrored /\ About(1) = <<ev.ent, ev.comp>> /\ 1 \in DOMAIN Top.events
    BY <1>1, <1>3 DEF InFlush, About
  <2>2. /\ DOMAIN Top'.events = DOMAIN rest
        /\ \A i \in DOMAIN rest : About(i)' = About(i+1) /\ Top'.events[i] = Top.events[i+1]
    BY <1>3, <1>4, <1>5 DEF About
  <2>3. \A p : p # About(1) => (p \in mirror' <=> p \in mirror)
    BY <1>1, <2>1
  <2>4. \A i, j \in DOMAIN Top'.events : About(i)' = About(j)' => i = j
    <3> SUFFICES ASSUME NEW i \in DOMAIN rest, NEW j \in DOMAIN rest, About(i+1) = About(j+1)
                 PROVE  i = j
      BY <2>2
    <3>1. i+1 = j+1
      BY <1>3, <2>1 DEF Mirrored
    <3> QED BY <1>3, <3>1
  <2>5. ASSUME NEW i \in DOMAIN Top'.events, About(i)' \notin stale'
        PROVE  /\ About(i)' \in mirror' <=> Top'.events[i].kind # "Added"
               /\ About(i)' \in Membership(store') <=> Top'.events[i].kind # "Removed"
    <3>1. i+1 \in DOMAIN Top.events /\ About(i)' = About(i+1) /\ Top'.events[i] = Top.events[i+1]
      BY <1>3, <2>2
    <3>2. About(i+1) # About(1)
      BY <1>3, <2>1, <2>2 DEF Mirrored
    <3> QED BY <1>1, <2>1, <2>3, <2>5, <3>1, <3>2 DEF Mirrored
  <2>6. ASSUME NEW p \in (Entity \X Comp) \ (Told' \cup stale')
        PROVE  p \in mirror' <=> p \in Membership(store')
    <3>1. CASE p = About(1)
      <4>1. p \in mirror' <=> Top.events[1].kind # "Removed"
        BY <1>1, <1>3, <2>1, <2>6, <3>1 DEF Mirrored, Event
      <4> QED BY <1>1, <2>1, <2>6, <3>1, <4>1 DEF Mirrored
    <3>2. CASE p # About(1)
      <4>1. p \notin Told
        <5>1. SUFFICES ASSUME NEW i \in DOMAIN Top.events, p = About(i) PROVE FALSE
          BY DEF Told
        <5>2. i - 1 \in DOMAIN rest /\ i = (i - 1) + 1
          BY <1>3, <3>2, <5>1
        <5>3. p = About(i-1)' /\ i - 1 \in DOMAIN Top'.events
          BY <2>2, <5>1, <5>2
        <5> QED BY <2>6, <5>3 DEF Told
      <4> QED BY <1>1, <2>1, <2>3, <2>6, <3>2, <4>1 DEF Mirrored
    <3> QED BY <3>1, <3>2
  <2> QED BY <2>4, <2>5, <2>6 DEF Mirrored
<1> QED BY <1>1, <1>5, <1>6, <1>8, <1>10, <1>11, <1>12 DEF FlushInv, InFlush

(***************************************************************************)
(* The loops of end_deferred_moves().                                      *)
(***************************************************************************)

\* A loop comes to an entity when the events of the one before it are out: what
\* an observer believes is what is so.
LEMMA LoopComesTo ==
  ASSUME FlushInv, NEW loop, LoopAt(loop), NEW q \in Seq(Event), Advance(q), UNCHANGED moved
  PROVE  /\ Typed /\ InFlush /\ ~Idle
         /\ Top.ops = <<>> /\ Top.loop = loop
         /\ \A p \in (Entity \X Comp) \ stale : p \in mirror <=> p \in Membership(store)
         /\ frames' \in Seq(FrameType) /\ Len(frames') = 1 /\ ~Idle'
         /\ Top'.ops = <<>> /\ Top'.loop = loop /\ Top'.events = q /\ Top'.on = {}
         /\ Top'.next <= Len(moved') + 1
         /\ moved[Top.next] \in Entity /\ Ahead(moved[Top.next])
         /\ \A e : Ahead(e)' <=> Ahead(e) /\ e # moved[Top.next]
<1> DEFINE f == [Top EXCEPT !.next = Top.next + 1, !.events = q, !.on = {}]
<1>1. /\ Typed /\ InFlush /\ ~Idle
      /\ Top.ops = <<>> /\ Top.events = <<>> /\ Top.loop = loop /\ Top.next <= Len(moved)
  BY DEF LoopAt, FlushInv, Idle
<1>2. Top \in FrameType
  BY <1>1, TheFrame
<1>3. /\ f \in FrameType /\ f.ops = Top.ops /\ f.loop = Top.loop /\ f.next = Top.next + 1
      /\ f.events = q /\ f.on = {}
  <2>1. Top.next + 1 \in Nat \ {0}
    BY <1>2 DEF FrameType
  <2> QED BY <1>2, <2>1 DEF FrameType
<1>4. SetTop(f)
  BY DEF Advance
<1> HIDE DEF f
<1>5. frames' \in Seq(FrameType) /\ Len(frames') = 1 /\ ~Idle' /\ Top' = f
  BY <1>1, <1>3, <1>4, SetTheFrame
<1>6. \A p \in (Entity \X Comp) \ stale : p \in mirror <=> p \in Membership(store)
  BY <1>1 DEF InFlush, Mirrored, Told
<1> QED BY <1>1, <1>3, <1>5, <1>6, AheadAfterNext

\* The first loop destroys e, or finds that it is not to be destroyed.
LEMMA DestroyNextKeeps ==
  ASSUME FlushInv, DestroyNext
  PROVE  FlushInv'
<1> DEFINE e == moved[Top.next]
           dies == e \in doomed /\ e \in Alive
           q == IF dies THEN Events("Removed", e, DOMAIN store[e]) ELSE <<>>
<1>1. /\ LoopAt("destroy") /\ Advance(q)
      /\ store' = IF e \in doomed THEN Restrict(store, Alive \ {e}) ELSE store
      /\ IF e \in doomed THEN Settle(e) ELSE UNCHANGED <<settled, effect>>
      /\ UNCHANGED <<buffer, pending, moved, doomed, mirror, stale>>
  BY DEF DestroyNext, deferVars, turnVars, toldVars
<1>2. e \in Entity /\ (e \in Alive => DOMAIN store[e] \in SUBSET Comp)
  <2>1. Typed /\ ~Idle /\ Top.next <= Len(moved)
    BY <1>1 DEF LoopAt, FlushInv, Idle
  <2>2. Top.next \in 1..Len(moved)
    BY <2>1, TheFrame, LenProperties DEF FrameType, Typed
  <2>3. e \in Entity
    BY <2>1, <2>2, ElementOfSeq DEF Typed
  <2> QED BY <2>1, <2>3 DEF Typed, StoreType, Data, Alive
<1>3. /\ q \in Seq(Event)
      /\ \A i \in DOMAIN q : q[i].kind = "Removed" /\ q[i].ent = e /\ dies
      /\ \A i, j \in DOMAIN q : q[i].comp = q[j].comp => i = j
      /\ \A i \in DOMAIN q : q[i].comp \in DOMAIN store[e]
      /\ dies => \A t \in DOMAIN store[e] : \E i \in DOMAIN q : q[i].comp = t
  <2>1. CASE dies
    BY <1>2, <2>1, EventsOfSet
  <2>2. CASE ~dies
    BY <2>2, EmptySeq
  <2> QED BY <2>1, <2>2
<1> HIDE DEF q
<1>4. /\ Typed /\ InFlush /\ ~Idle
      /\ Top.ops = <<>> /\ Top.loop = "destroy"
      /\ \A x \in (Entity \X Comp) \ stale : x \in mirror <=> x \in Membership(store)
      /\ frames' \in Seq(FrameType) /\ Len(frames') = 1 /\ ~Idle'
      /\ Top'.ops = <<>> /\ Top'.loop = "destroy" /\ Top'.events = q /\ Top'.on = {}
      /\ Top'.next <= Len(moved') + 1
      /\ Ahead(e)
      /\ \A x : Ahead(x)' <=> Ahead(x) /\ x # e
  BY <1>1, <1>3, LoopComesTo
<1> HIDE DEF e
<1>5. /\ Alive' = IF dies THEN Alive \ {e} ELSE Alive
      /\ \A x \in Alive' : store'[x] = store[x]
      /\ StoreType(store')
  <2>1. CASE e \in doomed
    <3>1. store' = [x \in Alive \ {e} |-> store[x]] /\ StoreType(store)
      BY <1>1, <1>4, <2>1 DEF Restrict, Typed, Alive
    <3> QED BY <2>1, <3>1 DEF Alive, StoreType
  <2>2. CASE e \notin doomed
    BY <1>1, <1>4, <2>2 DEF Alive, Typed
  <2> QED BY <2>1, <2>2
<1>6. MustDie(e) <=> e \in doomed
  BY <1>4 DEF MustDie
<1>7. settled' = store' /\ effect' = IF e \in doomed THEN [effect EXCEPT ![e] = NoEffect] ELSE effect
  <2>1. settled = store
    BY DEF FlushInv
  <2>2. CASE e \in doomed
    <3>1. \A d \in Data : effect[e][d] = {}
      BY <1>2, <1>4, <1>6, <2>2 DEF InFlush, OnTheWay
    <3>2. \A x \in Alive : store[x] \in Data
      BY <1>4 DEF Typed, StoreType, Alive
    <3>3. {y \in DOMAIN settled : y = e => effect[e][settled[e]] # {}} = Alive \ {e}
      BY <2>1, <3>1, <3>2 DEF Alive
    <3>4. settled' = [x \in Alive \ {e} |-> store[x]]
      BY <1>1, <2>1, <2>2, <3>3 DEF Settle
    <3> QED BY <1>1, <2>2, <3>4 DEF Settle, Restrict, Alive
  <2>3. CASE e \notin doomed
    BY <1>1, <2>1, <2>3
  <2> QED BY <2>2, <2>3
<1>8. Typed'
  <2>1. effect' \in [Entity -> [Data -> SUBSET Data]]
    BY <1>2, <1>4, <1>7, NoEffectType DEF Typed
  <2>2. Len(frames') <= 1
    BY <1>4
  <2> QED BY <1>1, <1>4, <1>5, <2>1, <2>2 DEF Typed
<1>9. OnTheWay'
  <2>1. \A x : (MustDie(x)' <=> MustDie(x) /\ x # e) /\ (MustMove(x)' <=> MustMove(x))
    BY <1>1, <1>4 DEF MustDie, MustMove
  <2> SUFFICES ASSUME NEW x \in Entity, NEW d \in Data
               PROVE  effect'[x][d] = IF MustDie(x)' THEN {} ELSE IF MustMove(x)' THEN {Committed(x, d)'} ELSE {d}
    BY DEF OnTheWay
  <2>2. Committed(x, d)' = Committed(x, d)
    BY <1>1, CommitsTheSame
  <2>3. effect[x][d] = IF MustDie(x) THEN {} ELSE IF MustMove(x) THEN {Committed(x, d)} ELSE {d}
    BY <1>4 DEF InFlush, OnTheWay
  <2>4. CASE x = e /\ e \in doomed
    <3>1. effect'[x][d] = {d}
      BY <1>2, <1>4, <1>7, <2>4 DEF Typed, NoEffect
    <3>2. ~MustDie(x)' /\ ~MustMove(x)'
      BY <1>1, <2>1, <2>4 DEF MustMove
    <3> QED BY <3>1, <3>2
  <2>5. CASE ~(x = e /\ e \in doomed)
    <3>1. effect'[x] = effect[x]
      BY <1>4, <1>7, <2>5 DEF Typed
    <3>2. MustDie(x)' <=> MustDie(x)
      BY <1>6, <2>1, <2>5
    <3> QED BY <2>1, <2>2, <2>3, <3>1, <3>2
  <2> QED BY <2>4, <2>5
<1>10. Recording' /\ Recorded'
  BY <1>1, <1>4 DEF InFlush, Recording, Recorded
<1>11. Mirrored'
  <2>1. \A p \in (Entity \X Comp) \ stale' : p \in mirror' <=> p \in Membership(store)
    BY <1>1, <1>4
  <2>2. \A p \in Entity \X Comp :
          p \in Membership(store') <=> p \in Membership(store) /\ (dies => p[1] # e)
    BY <1>5 DEF Membership, Alive
  <2>3. \A i \in DOMAIN Top'.events : About(i)' = <<e, q[i].comp>> /\ dies
    BY <1>3, <1>4 DEF About
  <2>4. \A i \in DOMAIN q : <<e, q[i].comp>> \in Membership(store) /\ <<e, q[i].comp>> \in Entity \X Comp
    BY <1>2, <1>3 DEF Membership, Alive
  <2>5. \A i \in DOMAIN Top'.events : About(i)' \notin stale' =>
          /\ About(i)' \in mirror' <=> Top'.events[i].kind # "Added"
          /\ About(i)' \in Membership(store') <=> Top'.events[i].kind # "Removed"
    BY <1>3, <1>4, <2>1, <2>2, <2>3, <2>4
  <2>6. ASSUME NEW p \in (Entity \X Comp) \ (Told' \cup stale')
        PROVE  p \in mirror' <=> p \in Membership(store')
    <3>1. CASE dies /\ p[1] = e /\ p \in Membership(store)
      <4>1. p[2] \in DOMAIN store[e] /\ p = <<e, p[2]>>
        BY <2>6, <3>1 DEF Membership
      <4>2. PICK i \in DOMAIN q : q[i].comp = p[2]
        BY <1>3, <3>1, <4>1
      <4>3. p = About(i)' /\ i \in DOMAIN Top'.events
        BY <1>4, <2>3, <4>1, <4>2
      <4> QED BY <2>6, <4>3 DEF Told
    <3>2. CASE ~(dies /\ p[1] = e /\ p \in Membership(store))
      BY <2>1, <2>2, <2>6, <3>2
    <3> QED BY <3>1, <3>2
  <2>7. \A i, j \in DOMAIN Top'.events : About(i)' = About(j)' => i = j
    <3> SUFFICES ASSUME NEW i \in DOMAIN Top'.events, NEW j \in DOMAIN Top'.events,
                        About(i)' = About(j)'
                 PROVE  i = j
      OBVIOUS
    <3>1. q[i].comp = q[j].comp
      BY <2>3
    <3> QED BY <1>3, <1>4, <3>1
  <2> QED BY <2>5, <2>6, <2>7 DEF Mirrored
<1> QED BY <1>4, <1>7, <1>8, <1>9, <1>10, <1>11 DEF FlushInv, InFlush

\* The second loop moves e, or finds that nothing was recorded that moves it.
LEMMA CommitNextKeeps ==
  ASSUME FlushInv, CommitNext
  PROVE  FlushInv'
<1> DEFINE e == moved[Top.next]
           moves == e \notin doomed /\ e \in Alive /\ pending[e] # <<>>
           q == IF moves THEN NetEvents(e) ELSE <<>>
<1>1. /\ LoopAt("commit") /\ Advance(q)
      /\ store' = IF moves THEN [store EXCEPT ![e] = Committed(e, store[e])] ELSE store
      /\ Settle(e)
      /\ UNCHANGED <<buffer, pending, moved, doomed, mirror, stale>>
  BY DEF CommitNext, deferVars, toldVars, OpsOf
<1>2. Typed /\ settled = store
  BY DEF FlushInv
<1>3. /\ q \in Seq(Event)
      /\ \A i \in DOMAIN q :
           /\ moves /\ q[i].ent = e /\ q[i].comp \in Comp
           /\ q[i].kind # "Added" <=> q[i].comp \in DOMAIN store[e]
           /\ q[i].kind # "Removed" <=> q[i].comp \in FinalSet(e, store[e])
      /\ \A i, j \in DOMAIN q : q[i].comp = q[j].comp => i = j
      /\ moves => \A t \in Comp : (\A i \in DOMAIN q : q[i].comp # t) =>
                    (t \in DOMAIN store[e] <=> t \in FinalSet(e, store[e]))
  <2>1. CASE moves
    BY <1>2, <2>1, NetEventsTell
  <2>2. CASE ~moves
    BY <2>2, EmptySeq
  <2> QED BY <2>1, <2>2
<1> HIDE DEF q
<1>4. /\ InFlush /\ ~Idle
      /\ Top.ops = <<>> /\ Top.loop = "commit"
      /\ \A x \in (Entity \X Comp) \ stale : x \in mirror <=> x \in Membership(store)
      /\ frames' \in Seq(FrameType) /\ Len(frames') = 1 /\ ~Idle'
      /\ Top'.ops = <<>> /\ Top'.loop = "commit" /\ Top'.events = q /\ Top'.on = {}
      /\ Top'.next <= Len(moved') + 1
      /\ e \in Entity /\ Ahead(e)
      /\ \A x : Ahead(x)' <=> Ahead(x) /\ x # e
  BY <1>1, <1>3, LoopComesTo
<1> HIDE DEF e
<1>5. /\ Alive' = Alive
      /\ \A x \in Alive : x # e => store'[x] = store[x]
      /\ moves => store'[e] = Committed(e, store[e]) /\ DOMAIN store'[e] = FinalSet(e, store[e])
      /\ ~moves => store' = store
      /\ StoreType(store')
  <2>1. CASE moves
    <3>1. Committed(e, store[e]) \in Data /\ DOMAIN Committed(e, store[e]) = FinalSet(e, store[e])
      <4>1. e \in Entity /\ store[e] \in Data
        BY <1>2, <2>1 DEF Typed, StoreType, Alive
      <4> QED BY <1>2, <4>1, CommittedType
    <3> QED BY <1>1, <1>2, <2>1, <3>1 DEF Alive, Typed, StoreType
  <2>2. CASE ~moves
    BY <1>1, <1>2, <2>2 DEF Alive, Typed
  <2> QED BY <2>1, <2>2
<1>6. \A d \in Data : effect[e][d] = {IF e \in doomed THEN d ELSE Committed(e, d)}
  BY <1>4 DEF InFlush, OnTheWay, MustDie, MustMove
<1>7. settled' = store' /\ effect' = [effect EXCEPT ![e] = NoEffect]
  <2>1. CASE e \in Alive
    <3>1. store[e] \in Data
      BY <1>2, <2>1 DEF Typed, StoreType, Alive
    <3>2. effect[e][store[e]] = {store'[e]}
      <4>1. CASE moves
        BY <1>5, <1>6, <3>1, <4>1
      <4>2. CASE ~moves
        <5>1. e \notin doomed => Committed(e, store[e]) = store[e]
          BY <2>1, <3>1, <4>2, CommitsNothing
        <5> QED BY <1>5, <1>6, <3>1, <4>2, <5>1
      <4> QED BY <4>1, <4>2
    <3>3. \A d : (CHOOSE x \in {d} : TRUE) = d
      OBVIOUS
    <3>4. settled' = [x \in Alive |-> IF x = e THEN store'[e] ELSE store[x]]
      <4>1. {y \in DOMAIN settled : y = e => effect[e][settled[e]] # {}} = Alive
        BY <1>2, <3>2 DEF Alive
      <4> QED BY <1>1, <1>2, <3>2, <3>3, <4>1 DEF Settle
    <3>5. store' = [x \in Alive |-> store'[x]]
      BY <1>5 DEF StoreType, Alive
    <3> QED BY <1>1, <1>5, <3>4, <3>5 DEF Settle
  <2>2. CASE e \notin Alive
    <3>1. settled' = [x \in Alive |-> store[x]]
      <4>1. {y \in DOMAIN settled : y = e => effect[e][settled[e]] # {}} = Alive
        BY <1>2, <2>2 DEF Alive
      <4> QED BY <1>1, <1>2, <2>2, <4>1 DEF Settle
    <3>2. store' = store /\ store = [x \in Alive |-> store[x]]
      BY <1>1, <1>2, <2>2 DEF Typed, StoreType, Alive
    <3> QED BY <1>1, <3>1, <3>2 DEF Settle
  <2> QED BY <2>1, <2>2
<1>8. Typed'
  <2>1. effect' \in [Entity -> [Data -> SUBSET Data]]
    BY <1>2, <1>7, NoEffectType DEF Typed
  <2>2. Len(frames') <= 1
    BY <1>4
  <2> QED BY <1>1, <1>2, <1>4, <1>5, <2>1, <2>2 DEF Typed
<1>9. OnTheWay'
  <2>1. \A x : ~MustDie(x) /\ ~MustDie(x)' /\ (MustMove(x)' <=> MustMove(x) /\ x # e)
    BY <1>1, <1>4 DEF MustDie, MustMove
  <2> SUFFICES ASSUME NEW x \in Entity, NEW d \in Data
               PROVE  effect'[x][d] = IF MustMove(x)' THEN {Committed(x, d)'} ELSE {d}
    BY <2>1 DEF OnTheWay
  <2>2. Committed(x, d)' = Committed(x, d)
    BY <1>1, CommitsTheSame
  <2>3. CASE x = e
    BY <1>2, <1>4, <1>7, <2>1, <2>3 DEF Typed, NoEffect
  <2>4. CASE x # e
    <3>1. effect'[x] = effect[x]
      BY <1>2, <1>7, <2>4 DEF Typed
    <3> QED BY <1>4, <2>1, <2>2, <2>4, <3>1 DEF InFlush, OnTheWay
  <2> QED BY <2>3, <2>4
<1>10. Recording' /\ Recorded'
  BY <1>1, <1>4 DEF InFlush, Recording, Recorded
<1>11. Mirrored'
  <2>1. \A p \in (Entity \X Comp) \ stale' : p \in mirror' <=> p \in Membership(store)
    BY <1>1, <1>4
  <2>2. \A p \in Entity \X Comp :
          /\ p[1] # e \/ ~moves => (p \in Membership(store') <=> p \in Membership(store))
          /\ p[1] = e /\ moves => (p \in Membership(store') <=> p[2] \in FinalSet(e, store[e]))
          /\ p[1] = e /\ moves => (p \in Membership(store) <=> p[2] \in DOMAIN store[e])
    <3> SUFFICES ASSUME NEW p \in Entity \X Comp
                 PROVE /\ p[1] # e \/ ~moves => (p \in Membership(store') <=> p \in Membership(store))
                       /\ p[1] = e /\ moves => (p \in Membership(store') <=> p[2] \in FinalSet(e, store[e]))
                       /\ p[1] = e /\ moves => (p \in Membership(store) <=> p[2] \in DOMAIN store[e])
      OBVIOUS
    <3>1. /\ p \in Membership(store) <=> p[1] \in Alive /\ p[2] \in DOMAIN store[p[1]]
          /\ p \in Membership(store') <=> p[1] \in Alive' /\ p[2] \in DOMAIN store'[p[1]]
      BY DEF Membership, Alive
    <3>2. CASE p[1] # e \/ ~moves
      <4>1. p[1] \in Alive => store'[p[1]] = store[p[1]]
        BY <1>5, <3>2
      <4> QED BY <1>5, <3>1, <3>2, <4>1
    <3>3. CASE p[1] = e /\ moves
      BY <1>5, <3>1, <3>3
    <3> QED BY <3>2, <3>3
  <2>3. ASSUME NEW i \in DOMAIN q
        PROVE  About(i)' = <<e, q[i].comp>> /\ moves /\ <<e, q[i].comp>> \in Entity \X Comp
    BY <1>3, <1>4 DEF About
  <2>4. \A i \in DOMAIN Top'.events : About(i)' \notin stale' =>
          /\ About(i)' \in mirror' <=> Top'.events[i].kind # "Added"
          /\ About(i)' \in Membership(store') <=> Top'.events[i].kind # "Removed"
    <3> TAKE i \in DOMAIN Top'.events
    <3> DEFINE p == <<e, q[i].comp>>
    <3>1. About(i)' = p /\ moves /\ p \in Entity \X Comp /\ p[1] = e /\ p[2] = q[i].comp
      BY <1>4, <2>3
    <3> HIDE DEF p
    <3> QED BY <1>3, <1>4, <2>1, <2>2, <3>1
  <2>5. \A i, j \in DOMAIN Top'.events : About(i)' = About(j)' => i = j
    <3> SUFFICES ASSUME NEW i \in DOMAIN Top'.events, NEW j \in DOMAIN Top'.events,
                        About(i)' = About(j)'
                 PROVE  i = j
      OBVIOUS
    <3>1. <<e, q[i].comp>> = <<e, q[j].comp>>
      BY <1>4, <2>3
    <3>2. q[i].comp = q[j].comp
      BY <3>1
    <3> QED BY <1>3, <1>4, <3>2
  <2>6. ASSUME NEW p \in (Entity \X Comp) \ (Told' \cup stale')
        PROVE  p \in mirror' <=> p \in Membership(store')
    <3>1. CASE moves /\ p[1] = e
      <4>1. p = <<e, p[2]>> /\ p[2] \in Comp
        BY <3>1
      <4>2. \A i \in DOMAIN q : q[i].comp # p[2]
        <5>1. SUFFICES ASSUME NEW i \in DOMAIN q, q[i].comp = p[2] PROVE FALSE
          OBVIOUS
        <5>2. p = About(i)' /\ i \in DOMAIN Top'.events
          BY <1>4, <2>3, <4>1, <5>1
        <5> QED BY <2>6, <5>2 DEF Told
      <4> QED BY <1>3, <2>1, <2>2, <2>6, <3>1, <4>1, <4>2
    <3>2. CASE ~(moves /\ p[1] = e)
      BY <2>1, <2>2, <2>6, <3>2
    <3> QED BY <3>1, <3>2
  <2> QED BY <2>4, <2>5, <2>6 DEF Mirrored
<1> QED BY <1>4, <1>7, <1>8, <1>9, <1>10, <1>11 DEF FlushInv, InFlush

\* The second loop starts over: the entities that are not to be destroyed are
\* all ahead, and to the others nothing is left to do.
LEMMA BeginCommitsKeeps ==
  ASSUME FlushInv, BeginCommits
  PROVE  FlushInv'
<1> DEFINE f == [NewFrame(<<>>) EXCEPT !.loop = "commit"]
<1>1. /\ Typed /\ InFlush /\ ~Idle /\ store = settled
      /\ Top.loop = "destroy" /\ Top.events = <<>> /\ Top.next > Len(moved) /\ SetTop(f)
      /\ UNCHANGED <<store, buffer, pending, moved, doomed, settled, effect, mirror, stale>>
  BY DEF BeginCommits, LoopOver, FlushInv, Idle, deferVars, turnVars, toldVars
<1>2. /\ f \in FrameType /\ f.ops = <<>> /\ f.loop = "commit" /\ f.next = 1
      /\ f.events = <<>> /\ f.on = {}
  <2>1. f = [ops |-> <<>>, loop |-> "commit", next |-> 1, events |-> <<>>, on |-> {}]
    BY DEF NewFrame
  <2>2. <<>> \in Seq(Command) /\ <<>> \in Seq(Event)
    BY EmptySeq
  <2> HIDE DEF f
  <2> QED BY <2>1, <2>2 DEF FrameType
<1> HIDE DEF f
<1>3. frames' \in Seq(FrameType) /\ Len(frames') = 1 /\ ~Idle' /\ Top' = f
  BY <1>1, <1>2, SetTheFrame
<1>4. Typed'
  BY <1>1, <1>3 DEF Typed
<1>5. /\ \A x : ~Ahead(x)
      /\ \A x : Ahead(x)' <=> x \in ToSet(moved)
  <2>1. \A x : Ahead(x)' <=> x \in ToSet(moved')
    BY <1>2, <1>3, <1>4, LenProperties DEF Typed, Ahead, ToSet
  <2> QED BY <1>1, <2>1, NoneAhead
<1>6. /\ \A x : ~MustDie(x) /\ ~MustDie(x)'
      /\ \A x : MustMove(x) <=> x \notin doomed
      /\ \A x : MustMove(x)' <=> x \notin doomed /\ x \in ToSet(moved)
  BY <1>1, <1>2, <1>3, <1>5 DEF MustDie, MustMove
<1>7. OnTheWay'
  <2> SUFFICES ASSUME NEW x \in Entity, NEW d \in Data
               PROVE  effect'[x][d] = IF MustMove(x)' THEN {Committed(x, d)'} ELSE {d}
    BY <1>6 DEF OnTheWay
  <2>1. effect[x][d] = IF x \notin doomed THEN {Committed(x, d)} ELSE {d}
    BY <1>1, <1>6 DEF InFlush, OnTheWay
  <2>2. Committed(x, d)' = Committed(x, d)
    BY <1>1, CommitsTheSame
  <2>3. x \notin ToSet(moved) => x \notin doomed /\ Committed(x, d) = d
    BY <1>1, CommitsNothing DEF InFlush, Recorded
  <2> QED BY <1>1, <1>6, <2>1, <2>2, <2>3
<1>8. Top'.next <= Len(moved') + 1
  BY <1>2, <1>3, <1>4, LenProperties DEF Typed
<1>9. Recording' /\ Recorded'
  BY <1>1, <1>2, <1>3 DEF InFlush, Recording, Recorded
<1>10. Mirrored'
  BY <1>1, <1>2, <1>3 DEF InFlush, Mirrored, Told
<1> QED BY <1>1, <1>3, <1>4, <1>7, <1>8, <1>9, <1>10 DEF FlushInv, InFlush

\* When the second loop is over the world is what it should be.
LEMMA EndFlushKeeps ==
  ASSUME FlushInv, EndFlush
  PROVE  FlushInv'
<1>1. /\ Typed /\ InFlush /\ ~Idle /\ store = settled
      /\ Top.loop = "commit" /\ Top.events = <<>> /\ Top.next > Len(moved)
      /\ pending' = [e \in Entity |-> <<>>] /\ moved' = <<>> /\ doomed' = {}
      /\ frames' = Front(frames)
      /\ Len(frames) = 1 =>
           mirror' = (mirror \ stale) \cup (Membership(store) \cap stale) /\ stale' = {}
      /\ UNCHANGED <<store, buffer, settled, effect>>
  BY DEF EndFlush, LoopOver, FlushInv, Idle, turnVars
<1>2. frames' = <<>> /\ Idle' /\ Len(frames) = 1
  <2>1. Len(frames) = 1
    BY <1>1, TheFrame
  <2> QED BY <1>1, <2>1 DEF Front, Idle
<1>3. effect' = [e \in Entity |-> NoEffect]
  <2>1. \A x : ~Ahead(x) /\ ~MustDie(x) /\ ~MustMove(x)
    BY <1>1, NoneAhead DEF MustDie, MustMove
  <2>2. \A x \in Entity, d \in Data : effect[x][d] = {d}
    BY <1>1, <2>1 DEF InFlush, OnTheWay
  <2>3. ASSUME NEW x \in Entity PROVE effect[x] = NoEffect
    BY <1>1, <2>2 DEF Typed, NoEffect
  <2> QED BY <1>1, <2>3 DEF Typed
<1>4. mirror' = Membership(store') /\ stale' = {} /\ mirror' \subseteq Entity \X Comp
  <2>1. mirror \subseteq Entity \X Comp /\ Membership(store) \subseteq Entity \X Comp
    BY <1>1 DEF Typed, Membership
  <2>2. \A p \in (Entity \X Comp) \ stale : p \in mirror <=> p \in Membership(store)
    BY <1>1 DEF InFlush, Mirrored, Told
  <2> QED BY <1>1, <1>2, <2>1, <2>2
<1>5. Typed'
  <2>1. pending' \in [Entity -> Seq(OpRecord)]
    BY <1>1, EmptySeq
  <2>2. moved' \in Seq(Entity) /\ IsInjective(moved') /\ doomed' \subseteq Entity
    BY <1>1, EmptySeq DEF IsInjective
  <2>3. frames' \in Seq(FrameType) /\ Len(frames') <= 1
    BY <1>2, EmptySeq
  <2> QED BY <1>1, <1>4, <2>1, <2>2, <2>3 DEF Typed
<1> QED BY <1>1, <1>2, <1>3, <1>4, <1>5 DEF FlushInv, AtRest

\* One command more is recorded: it is applied to what would have been
\* committed without it.
LEMMA RecordNextKeeps ==
  ASSUME FlushInv, RecordNext
  PROVE  FlushInv'
<1> DEFINE c == Head(Top.ops)
           e == c.ent
           rest == Tail(Top.ops)
           f == [Top EXCEPT !.ops = rest]
<1>1. /\ Typed /\ InFlush /\ ~Idle /\ Top.ops # <<>> /\ store = settled
      /\ Record(c) /\ TakeTurn(c) /\ SetTop(f)
      /\ UNCHANGED <<buffer, mirror, stale>>
  BY DEF RecordNext, FlushInv, Idle, toldVars
<1>2. /\ Top.loop = "destroy" /\ Top.next = 1 /\ Top.events = <<>> /\ Top.on = {}
  BY <1>1 DEF InFlush, Recording
<1>3. Top \in FrameType /\ Top.ops \in Seq(Command)
  BY <1>1, TheFrame DEF FrameType
<1>4. c \in Command /\ rest \in Seq(Command)
  BY <1>1, <1>3, HeadTailProperties
<1>5. /\ f \in FrameType /\ f.ops = rest /\ f.loop = "destroy" /\ f.next = 1
      /\ f.events = <<>> /\ f.on = {}
  BY <1>2, <1>3, <1>4 DEF FrameType
<1> HIDE DEF f, rest, c
<1>6. frames' \in Seq(FrameType) /\ Len(frames') = 1 /\ ~Idle' /\ Top' = f
  BY <1>1, <1>5, SetTheFrame
<1>7. e \in Entity /\ c.op \in {"add", "remove", "create", "destroy"}
  BY <1>4, CommandShape
<1>8. /\ moved' \in Seq(Entity) /\ IsInjective(moved')
      /\ c.op = "create" \/ e \notin Alive => moved' = moved
      /\ c.op # "create" /\ e \in Alive => ToSet(moved') = ToSet(moved) \cup {e}
  <2>1. CASE c.op = "create" \/ e \notin Alive \/ e \in ToSet(moved)
    <3>1. moved' = moved
      BY <1>1, <2>1 DEF Record, QueueMove, deferVars
    <3> QED BY <1>1, <2>1, <3>1 DEF Typed, ToSet
  <2>2. CASE c.op # "create" /\ e \in Alive /\ e \notin ToSet(moved)
    <3>1. moved' = Append(moved, e)
      BY <1>1, <1>7, <2>2 DEF Record, QueueMove
    <3>2. moved \in Seq(Entity) /\ IsInjective(moved)
      BY <1>1 DEF Typed
    <3>3. /\ moved' \in Seq(Entity) /\ Len(moved') = Len(moved) + 1 /\ Len(moved) \in Nat
          /\ \A i \in 1..Len(moved) : moved'[i] = moved[i]
          /\ moved'[Len(moved) + 1] = e
      BY <1>7, <3>1, <3>2, AppendProperties, LenProperties
    <3>4. DOMAIN moved' = 1..Len(moved)+1 /\ DOMAIN moved = 1..Len(moved)
      BY <3>2, <3>3, LenProperties
    <3>5. \A i \in DOMAIN moved : moved[i] # e
      BY <2>2 DEF ToSet
    <3>6. IsInjective(moved')
      BY <3>2, <3>3, <3>4, <3>5 DEF IsInjective
    <3>7. ToSet(moved') = ToSet(moved) \cup {e}
      BY <3>3, <3>4 DEF ToSet
    <3> QED BY <2>2, <3>3, <3>6, <3>7
  <2> QED BY <2>1, <2>2
<1>9. /\ c.op = "create" => store' = Apply(store, c)
      /\ c.op # "create" => store' = store
      /\ c.op = "destroy" /\ e \in Alive => doomed' = doomed \cup {e}
      /\ c.op # "destroy" \/ e \notin Alive => doomed' = doomed
      /\ c.op \in {"add", "remove"} /\ e \in Alive =>
           pending' = [pending EXCEPT ![e] = Append(pending[e], c)]
      /\ c.op \notin {"add", "remove"} \/ e \notin Alive => pending' = pending
  BY <1>1, <1>7 DEF Record, deferVars
<1>10. /\ StoreType(store') /\ settled' = store'
       /\ \A x \in Alive : x \in Alive' /\ store'[x] = store[x]
       /\ \A x \in Entity \ Alive : x \in Alive' => store'[x] = NoComponents
  <2>1. StoreType(store)
    BY <1>1 DEF Typed
  <2>2. CASE c.op = "create"
    <3>1. store' = Apply(store, c) /\ settled' = Apply(store, c)
      BY <1>1, <1>9, <2>2 DEF TakeTurn
    <3>2. /\ StoreType(store')
          /\ \A x \in Entity \ {e} :
               /\ x \in Alive' <=> x \in Alive
               /\ x \in Alive => store'[x] = store[x]
          /\ e \in Alive'
          /\ store'[e] = IF e \in Alive THEN Applied(store[e], c) ELSE NoComponents
      BY <1>4, <2>1, <2>2, <3>1, ApplyAt DEF Alive
    <3>3. e \in Alive => store'[e] = store[e]
      BY <2>2, <3>2 DEF Applied
    <3>4. Alive \subseteq Entity
      BY <2>1 DEF StoreType, Alive
    <3> QED BY <3>1, <3>2, <3>3, <3>4
  <2>3. CASE c.op # "create"
    BY <1>1, <1>9, <2>1, <2>3 DEF Alive, TakeTurn
  <2> QED BY <2>2, <2>3
<1>11. doomed' \subseteq Entity /\ pending' \in [Entity -> Seq(OpRecord)]
  <2>1. doomed \subseteq Entity /\ pending \in [Entity -> Seq(OpRecord)]
    BY <1>1 DEF Typed
  <2>2. c.op \in {"add", "remove"} => c \in OpRecord
    BY <1>4, CommandShape
  <2>3. c.op \in {"add", "remove"} => Append(pending[e], c) \in Seq(OpRecord)
    BY <1>7, <2>1, <2>2, AppendProperties
  <2> QED BY <1>7, <1>9, <2>1, <2>3
<1>12. /\ c.op = "create" \/ e \notin Alive => effect' = effect
       /\ c.op # "create" /\ e \in Alive => effect' = [effect EXCEPT ![e] = Then(effect[e], c)]
  BY <1>1 DEF TakeTurn, Alive
<1>13. /\ \A x : Ahead(x) <=> x \in ToSet(moved)
       /\ \A x : Ahead(x)' <=> x \in ToSet(moved')
  <2>1. \A x : Ahead(x)' <=> x \in ToSet(moved')
    BY <1>5, <1>6, <1>8, LenProperties DEF Ahead, ToSet
  <2> QED BY <1>1, <1>2, <2>1, AllAhead
<1>14. Recorded /\ Recorded'
  <2>1. Recorded
    BY <1>1 DEF InFlush
  <2>2. ASSUME NEW x \in Entity, x \notin ToSet(moved')
        PROVE  pending'[x] = <<>> /\ x \notin doomed'
    <3>1. CASE c.op # "create" /\ e \in Alive
      <4>1. x # e /\ x \notin ToSet(moved)
        BY <1>8, <2>2, <3>1
      <4> QED BY <1>1, <1>7, <1>9, <2>1, <3>1, <4>1 DEF Recorded, Typed
    <3>2. CASE c.op = "create" \/ e \notin Alive
      BY <1>7, <1>8, <1>9, <2>1, <2>2, <3>2 DEF Recorded
    <3> QED BY <3>1, <3>2
  <2> QED BY <2>1, <2>2 DEF Recorded
<1>15. /\ \A x \in Entity : MustDie(x) <=> x \in doomed
       /\ \A x \in Entity : MustDie(x)' <=> x \in doomed'
       /\ \A x : MustMove(x) <=> x \notin doomed
       /\ \A x : MustMove(x)' <=> x \notin doomed'
  BY <1>2, <1>5, <1>6, <1>13, <1>14 DEF MustDie, MustMove, Recorded
<1>16. /\ e \in Alive => \A d \in Data :
            /\ c.op = "destroy" => Then(effect[e], c)[d] = {}
            /\ c.op \in {"add", "remove"} /\ e \in doomed => Then(effect[e], c)[d] = {}
            /\ c.op \in {"add", "remove"} /\ e \notin doomed =>
                 Then(effect[e], c)[d] = {Applied(Committed(e, d), c)}
       /\ Then(effect[e], c) \in [Data -> SUBSET Data]
  <2>1. \A d \in Data : effect[e][d] = IF e \in doomed THEN {} ELSE {Committed(e, d)}
    BY <1>1, <1>7, <1>15 DEF InFlush, OnTheWay
  <2>2. ASSUME NEW d \in Data
        PROVE  Then(effect[e], c)[d] =
                 IF c.op = "destroy" THEN {} ELSE {Applied(x, c) : x \in effect[e][d]}
    BY DEF Then
  <2>3. ASSUME NEW d \in Data PROVE Then(effect[e], c)[d] \in SUBSET Data
    <3>1. effect[e][d] \in SUBSET Data
      BY <1>1, <1>7 DEF Typed
    <3>2. \A x \in effect[e][d] : Applied(x, c) \in Data
      BY <1>4, <3>1, AppliedType
    <3>3. {Applied(x, c) : x \in effect[e][d]} \subseteq Data
      BY <3>2
    <3>4. CASE c.op = "destroy"
      BY <2>2, <3>4
    <3>5. CASE c.op # "destroy"
      BY <2>2, <3>3, <3>5
    <3> QED BY <3>4, <3>5
  <2>4. Then(effect[e], c) \in [Data -> SUBSET Data]
    BY <2>3 DEF Then
  <2>5. ASSUME NEW d \in Data, c.op \in {"add", "remove"}
        PROVE  Then(effect[e], c)[d] = IF e \in doomed THEN {} ELSE {Applied(Committed(e, d), c)}
    <3>1. Then(effect[e], c)[d] = {Applied(x, c) : x \in effect[e][d]}
      BY <2>2, <2>5
    <3>2. CASE e \in doomed
      BY <2>1, <3>1, <3>2
    <3>3. CASE e \notin doomed
      <4>1. effect[e][d] = {Committed(e, d)}
        BY <2>1, <3>3
      <4> QED BY <3>1, <3>3, <4>1
    <3> QED BY <3>2, <3>3
  <2> QED BY <2>2, <2>4, <2>5
<1>17. OnTheWay'
  <2> SUFFICES ASSUME NEW x \in Entity, NEW d \in Data
               PROVE  effect'[x][d] = IF x \in doomed' THEN {} ELSE {Committed(x, d)'}
    BY <1>15 DEF OnTheWay
  <2>1. effect[x][d] = IF x \in doomed THEN {} ELSE {Committed(x, d)}
    BY <1>1, <1>15 DEF InFlush, OnTheWay
  <2>2. CASE x = e /\ c.op # "create" /\ e \in Alive
    <3>1. effect'[x] = Then(effect[e], c)
      BY <1>1, <1>7, <1>12, <2>2 DEF Typed
    <3>2. CASE c.op = "destroy"
      BY <1>9, <1>16, <2>2, <3>1, <3>2
    <3>3. CASE c.op \in {"add", "remove"}
      <4>1. Committed(x, d)' = Applied(Committed(x, d), c)
        BY <1>1, <1>4, <1>7, <1>9, <2>2, <3>3, CommitsOneMore
      <4>2. doomed' = doomed
        BY <1>9, <3>3
      <4> QED BY <1>16, <2>2, <3>1, <3>3, <4>1, <4>2
    <3> QED BY <1>7, <2>2, <3>2, <3>3
  <2>3. CASE ~(x = e /\ c.op # "create" /\ e \in Alive)
    <3>1. effect'[x] = effect[x]
      BY <1>1, <1>7, <1>12, <2>3 DEF Typed
    <3>2. pending'[x] = pending[x] /\ (x \in doomed' <=> x \in doomed)
      BY <1>1, <1>7, <1>9, <2>3 DEF Typed
    <3>3. Committed(x, d)' = Committed(x, d)
      BY <3>2, CommitsTheSame
    <3> QED BY <2>1, <3>1, <3>2, <3>3
  <2> QED BY <2>2, <2>3
<1>18. Typed'
  <2>1. effect' \in [Entity -> [Data -> SUBSET Data]]
    BY <1>1, <1>7, <1>12, <1>16 DEF Typed
  <2>2. Len(frames') <= 1
    BY <1>6
  <2> QED BY <1>1, <1>6, <1>8, <1>10, <1>11, <2>1, <2>2 DEF Typed
<1>19. Recording'
  BY <1>5, <1>6 DEF Recording
<1>20. Mirrored'
  <2>1. Told = {} /\ Told' = {}
    BY <1>2, <1>5, <1>6 DEF Told
  <2>2. \A p \in (Entity \X Comp) \ stale : p \in mirror <=> p \in Membership(store)
    BY <1>1, <2>1 DEF InFlush, Mirrored
  <2>3. \A p \in Entity \X Comp : p \in Membership(store') <=> p \in Membership(store)
    <3> TAKE p \in Entity \X Comp
    <3>1. /\ p \in Membership(store) <=> p[1] \in Alive /\ p[2] \in DOMAIN store[p[1]]
          /\ p \in Membership(store') <=> p[1] \in Alive' /\ p[2] \in DOMAIN store'[p[1]]
      BY DEF Membership, Alive
    <3>2. CASE p[1] \in Alive
      BY <1>10, <3>1, <3>2
    <3>3. CASE p[1] \notin Alive
      <4>1. p[1] \in Alive' => store'[p[1]] = NoComponents
        BY <1>10, <3>3
      <4> QED BY <3>1, <3>3, <4>1, NoComponentsType
    <3> QED BY <3>2, <3>3
  <2> QED BY <1>1, <1>5, <1>6, <2>1, <2>2, <2>3 DEF Mirrored
<1>21. Top'.next <= Len(moved') + 1
  BY <1>5, <1>6, <1>8, LenProperties
<1> QED BY <1>6, <1>10, <1>14, <1>17, <1>18, <1>19, <1>20, <1>21 DEF FlushInv, InFlush

(***************************************************************************)
(* Theorems.                                                               *)
(***************************************************************************)

\* The invariant holds in a new world.
LEMMA InitEstablishes == Init => FlushInv
<1> SUFFICES ASSUME Init PROVE FlushInv
  OBVIOUS
<1>1. StoreType(store) /\ Membership(store) = {}
  BY DEF Init, StoreType, Membership
<1>2. Typed
  <2>1. <<>> \in Seq(Command) /\ <<>> \in Seq(Entity) /\ <<>> \in Seq(FrameType) /\ Len(<<>>) = 0
    BY EmptySeq
  <2>2. pending \in [Entity -> Seq(OpRecord)]
    BY EmptySeq DEF Init
  <2>3. MaxQueue \in Nat /\ DOMAIN <<>> = {}
    BY CommandBufferAssumption
  <2>4. Len(<<>>) <= MaxQueue /\ Len(<<>>) <= 1 /\ IsInjective(<<>>)
    BY <2>1, <2>3 DEF IsInjective
  <2>5. effect \in [Entity -> [Data -> SUBSET Data]]
    BY NoEffectType DEF Init
  <2> QED BY <1>1, <2>1, <2>2, <2>4, <2>5 DEF Init, Typed
<1> QED BY <1>1, <1>2 DEF Init, FlushInv, Idle, AtRest

\* It holds where nothing happens.
LEMMA StutterKeeps == FlushInv /\ UNCHANGED vars => FlushInv'
<1> SUFFICES ASSUME FlushInv, UNCHANGED vars PROVE FlushInv'
  OBVIOUS
<1>1. UNCHANGED <<store, buffer, pending, moved, doomed, frames, settled, effect, mirror, stale>>
  BY DEF vars, deferVars, turnVars, toldVars
<1>2. InFlush => InFlush'
  BY <1>1, OnlyThese
<1> QED BY <1>1, <1>2 DEF FlushInv, Typed, Idle, AtRest

\* Every step keeps it, writes of observers included.
LEMMA StepKeeps == FlushInv /\ [Next \/ ObserverWrites]_vars => FlushInv'
<1> SUFFICES ASSUME FlushInv, [Next \/ ObserverWrites]_vars PROVE FlushInv'
  OBVIOUS
<1>1. CASE Caller
  <2>1. Idle
    BY <1>1 DEF Caller, Idle
  <2>2. CASE \E c \in Command : Direct(c)
    BY <2>2, DirectKeeps
  <2>3. CASE BeginFlush
    BY <2>1, <2>3, BeginFlushKeeps
  <2> QED BY <1>1, <2>2, <2>3 DEF Caller
<1>2. CASE FlushStep
  BY <1>2, RecordNextKeeps, DispatchKeeps, DestroyNextKeeps, BeginCommitsKeeps, CommitNextKeeps,
     EndFlushKeeps DEF FlushStep
<1>3. CASE \E c \in Command : Enqueue(c)
  BY <1>3, EnqueueKeeps
<1>4. CASE ObserverWrites
  BY <1>4, DirectKeeps DEF ObserverWrites
<1>5. CASE UNCHANGED vars
  BY <1>5, StutterKeeps
<1> QED BY <1>1, <1>2, <1>3, <1>4, <1>5 DEF Next

\* Between any two steps of a flush, what is left to do does to each entity what
\* the commands recorded for it do one by one, whatever observers made of the
\* entity meanwhile (execute, world.h:38; _commit_deferred_move).
THEOREM FlushInvariant == SpecWrites => []FlushInv
<1>1. Init => FlushInv
  BY InitEstablishes
<1>2. FlushInv /\ [Next \/ ObserverWrites]_vars => FlushInv'
  BY StepKeeps
<1> QED BY <1>1, <1>2, PTL DEF SpecWrites

\* The types hold; a loop never runs further than one behind the last of the
\* entities there are, as an entity is queued once (deferred_set_).
THEOREM FlushTypeOK == SpecWrites => []TypeOK
<1>1. ASSUME FlushInv PROVE TypeOK
  <2>1. Typed
    BY <1>1 DEF FlushInv
  <2>2. \A e \in Alive : DOMAIN store[e] \subseteq Comp /\ store[e] \in [DOMAIN store[e] -> Val]
    BY <2>1 DEF Typed, StoreType, Data, Alive
  <2>3. Len(moved) <= Cardinality(Entity) /\ Len(moved) \in Nat /\ Cardinality(Entity) \in Nat
    <3>1. /\ Len(moved) \in Nat /\ moved \in Injection(1..Len(moved), Entity)
      BY <2>1, LenProperties DEF Typed, IsInjective, Injection
    <3>2. Cardinality(1..Len(moved)) <= Cardinality(Entity)
      BY <3>1, FS_Injection, CommandBufferAssumption
    <3>3. Cardinality(1..Len(moved)) = Len(moved)
      <4>1. 1 \in Int /\ Len(moved) \in Int /\ (1 > Len(moved) => Len(moved) = 0)
        BY <3>1
      <4> QED BY <4>1, FS_Interval
    <3> QED BY <3>1, <3>2, <3>3, FS_CardinalityType, CommandBufferAssumption
  <2>4. ASSUME NEW i \in DOMAIN frames
        PROVE  /\ frames[i].ops \in Seq(Command)
               /\ frames[i].loop \in {"destroy", "commit"}
               /\ frames[i].next \in 1..Cardinality(Entity) + 1
               /\ frames[i].events \in Seq(Event)
               /\ frames[i].on \subseteq Entity
    <3>1. ~Idle
      BY <2>4 DEF Idle
    <3>2. Len(frames) = 1 /\ Top = frames[1] /\ Top \in FrameType
      BY <2>1, <3>1, TheFrame
    <3>3. i = 1
      BY <2>1, <2>4, <3>2, LenProperties DEF Typed
    <3>4. Top.next \in Nat \ {0} /\ Top.next <= Len(moved) + 1
      BY <1>1, <3>1, <3>2 DEF FlushInv, InFlush, FrameType
    <3>5. Top.next \in 1..Cardinality(Entity) + 1
      BY <2>3, <3>4
    <3> QED BY <3>2, <3>3, <3>5 DEF FrameType
  <2> QED BY <2>1, <2>2, <2>4 DEF Typed, StoreType, TypeOK, Alive
<1> QED BY <1>1, FlushInvariant, PTL

\* "Ops are applied in order" (world.h:38), although a flush destroys first and
\* moves an entity once: whenever no flush is under way the world is what it
\* would be had each command been applied in its turn, and an observer's write
\* to whichever entity before the commands still recorded for it.
THEOREM FlushAppliesInOrder == SpecWrites => []FlushInOrder
<1>1. FlushInv => FlushInOrder
  BY DEF FlushInv, AtRest, FlushInOrder, Idle
<1> QED BY <1>1, FlushInvariant, PTL

\* Whenever no flush is under way the ADDED and REMOVED events alone have told
\* an observer who has which component (_commit_deferred_move, destroy_entity),
\* also when observers wrote: only of the components written while an event
\* about them was still to come has it asked.
THEOREM MembershipStaysMirrored == SpecWrites => []MembershipMirrored
<1>1. FlushInv => MembershipMirrored
  BY DEF FlushInv, AtRest, MembershipMirrored, Idle
<1> QED BY <1>1, FlushInvariant, PTL

\* "Events are dispatched per net change" (VECSCommandBuffer.xml:9): each event
\* of a flush tells of a component that the observer did not know of, if it is
\* ADDED, and of one it knows of, if it is not.
THEOREM EventsStayNet == SpecWrites => EventsAreNet
<1> DEFINE Net ==
      \A ev \in Event :
        (/\ frames # <<>> /\ Top.events # <<>> /\ ev = Head(Top.events) /\ Dispatch
         /\ <<ev.ent, ev.comp>> \notin stale) =>
          (ev.kind = "Added" <=> <<ev.ent, ev.comp>> \notin mirror)
<1>1. ASSUME FlushInv PROVE Net
  <2> SUFFICES ASSUME NEW ev \in Event, ~Idle, Top.events # <<>>, ev = Head(Top.events),
                      <<ev.ent, ev.comp>> \notin stale
               PROVE  ev.kind = "Added" <=> <<ev.ent, ev.comp>> \notin mirror
    BY DEF Idle
  <2>1. Typed /\ Mirrored
    BY <1>1 DEF FlushInv, InFlush
  <2>2. Top.events \in Seq(Event)
    BY <2>1, TheFrame DEF FrameType
  <2>3. 1 \in DOMAIN Top.events /\ ev = Top.events[1]
    BY <2>2, EmptySeq, LenProperties
  <2> QED BY <2>1, <2>3 DEF Mirrored, About
<1> HIDE DEF Net
<1>2. FlushInv /\ [Next \/ ObserverWrites]_vars => [Net]_vars
  BY <1>1
<1>3. SpecWrites => [][Net]_vars
  BY <1>2, FlushInvariant, PTL DEF SpecWrites
<1> QED BY <1>3 DEF Net, EventsAreNet
=============================================================================

---------------------------- MODULE CommandBuffer ----------------------------
(***************************************************************************)
(* The command buffer and the flush that applies it.                       *)
(*                                                                         *)
(* execute() takes the queue, records what each command asks for, entity   *)
(* by entity, and then commits: first every destruction, then one move per *)
(* entity to the component set its operations leave it with.  Events are   *)
(* dispatched between the commits, and an observer may queue commands,     *)
(* write to the world or flush again while the outer flush has entities    *)
(* left.  What is recorded is shared by all flushes under way.             *)
(*                                                                         *)
(* The store is that of EntityStore: archetypes and rows, which World      *)
(* models, are not visible here.                                           *)
(***************************************************************************)
EXTENDS Integers, Sequences, FiniteSets, SequencesExt

CONSTANTS
  Entity,
  Comp,
  Val,
  Values,     \* [Comp -> the values of it that are written]
  MaxQueue,   \* bound: commands in the queue
  MaxRequeue, \* bound: commands in it while a flush is under way
  MaxDepth    \* bound: flushes inside flushes

ASSUME CommandBufferAssumption ==
  /\ IsFiniteSet(Entity) /\ IsFiniteSet(Comp)
  /\ Values \in [Comp -> SUBSET Val]
  /\ MaxQueue \in Nat /\ MaxRequeue \in 0..MaxQueue
  /\ MaxDepth \in Nat \ {0}

VARIABLES
  store,      \* [alive -> [its components -> Val]]
  buffer,     \* ops_ of the CommandBuffer
  pending,    \* pending_ops_: [Entity -> the operations recorded for it]
  moved,      \* deferred_entities_, in the order they were first recorded
  doomed,     \* pending_destroy_
  frames,     \* end_deferred_moves() calls under way, innermost last
  settled,    \* history: the store as it has to be, but for what is recorded
  effect,     \* history: [Entity -> [what it has -> {what it has once the
              \* commands recorded for it are applied one by one}]]
  mirror,     \* history: <<entity, component>> an observer of ADDED and REMOVED
              \* believes in
  stale       \* history: those that a handler changed while an event about them
              \* was still to be dispatched

deferVars == <<pending, moved, doomed>>
turnVars == <<settled, effect>>
toldVars == <<mirror, stale>>
vars == <<store, buffer, deferVars, frames, turnVars, toldVars>>

Command ==
  {c \in [op : {"add"}, ent : Entity, comp : Comp, val : Val] : c.val \in Values[c.comp]}
    \cup [op : {"remove"}, ent : Entity, comp : Comp]
    \cup [op : {"create", "destroy"}, ent : Entity]

Event == [kind : {"Added", "Changed", "Removed"}, ent : Entity, comp : Comp]

Alive == DOMAIN store
Membership(s) == {m \in Entity \X Comp : m[1] \in DOMAIN s /\ m[2] \in DOMAIN s[m[1]]}

(***************************************************************************)
(* One command applied at once: add_raw, remove_component, destroy_entity  *)
(* and create_entity_preassigned outside of a flush.                       *)
(***************************************************************************)

Data == UNION {[T -> Val] : T \in SUBSET Comp}

NoComponents == [t \in {} |-> CHOOSE v \in Val : TRUE]

Put(data, t, v) == [c \in DOMAIN data \cup {t} |-> IF c = t THEN v ELSE data[c]]

\* The components of an entity after a command that leaves it alive.
Applied(data, c) ==
  IF c.op = "add" THEN Put(data, c.comp, c.val)
  ELSE IF c.op = "remove" THEN Restrict(data, DOMAIN data \ {c.comp})
  ELSE data

Apply(s, c) ==
  CASE c.op = "create" /\ c.ent \notin DOMAIN s ->
         [e \in DOMAIN s \cup {c.ent} |-> IF e = c.ent THEN NoComponents ELSE s[e]]
    [] c.op = "destroy" ->
         Restrict(s, DOMAIN s \ {c.ent})
    [] c.op \in {"add", "remove"} /\ c.ent \in DOMAIN s ->
         [s EXCEPT ![c.ent] = Applied(@, c)]
    [] OTHER -> s

(***************************************************************************)
(* What the commands of a batch have to come to.  A command is applied in  *)
(* its turn among those of its entity, with two exceptions the code makes: *)
(* an entity is created when that is recorded, ahead of a destruction that *)
(* is; and what a handler writes counts as made before the commands that   *)
(* are recorded for the entity and not committed.                          *)
(***************************************************************************)

NoEffect == [d \in Data |-> {d}]

\* The effect of what is recorded, and then of c.
Then(f, c) ==
  [d \in Data |-> IF c.op = "destroy" THEN {} ELSE {Applied(x, c) : x \in f[d]}]

TakeTurn(c) ==
  IF c.op = "create" THEN settled' = Apply(settled, c) /\ UNCHANGED effect
  ELSE /\ UNCHANGED settled
       /\ effect' = IF c.ent \in DOMAIN settled
                    THEN [effect EXCEPT ![c.ent] = Then(@, c)]
                    ELSE effect

\* The commands recorded for e are applied.
Settle(e) ==
  /\ settled' = [x \in {y \in DOMAIN settled : y = e => effect[e][settled[e]] # {}} |->
                   IF x = e THEN CHOOSE d \in effect[e][settled[e]] : TRUE
                   ELSE settled[x]]
  /\ effect' = [effect EXCEPT ![e] = NoEffect]

(***************************************************************************)
(* Recording: one turn of the loop of execute(), while defer_moves_ is set. *)
(***************************************************************************)

\* Mutant: deferred_set_ is not consulted.
QueueMoveAgain(e) == moved' = Append(moved, e)

\* _queue_deferred_move
QueueMove(e) == moved' = IF e \in ToSet(moved) THEN moved ELSE Append(moved, e)

\* add_entity takes effect at once; an entity that is not alive by now is
\* recorded nothing for.
Record(c) ==
  \/ /\ c.op = "create"
     /\ store' = Apply(store, c)
     /\ UNCHANGED deferVars
  \/ /\ c.op = "destroy" /\ c.ent \in Alive
     /\ doomed' = doomed \cup {c.ent}
     /\ QueueMove(c.ent)
     /\ UNCHANGED <<store, pending>>
  \/ /\ c.op \in {"add", "remove"} /\ c.ent \in Alive
     /\ pending' = [pending EXCEPT ![c.ent] = Append(@, c)]
     /\ QueueMove(c.ent)
     /\ UNCHANGED <<store, doomed>>
  \/ /\ c.op # "create" /\ c.ent \notin Alive
     /\ UNCHANGED <<store, deferVars>>

(***************************************************************************)
(* Committing: _commit_deferred_move.                                      *)
(***************************************************************************)

OpsOf(e) == pending[e]

\* The operations on component t, by their place among those of e.
OpsOn(e, t) == {i \in DOMAIN OpsOf(e) : OpsOf(e)[i].comp = t}
AddsOf(e, t) == {i \in OpsOn(e, t) : OpsOf(e)[i].op = "add"}
Latest(I) == CHOOSE i \in I : \A j \in I : j <= i

\* Mutant: every remove is applied after every add.
FinalSetRemovesLast(e, data) ==
  {t \in Comp : /\ t \in DOMAIN data \/ AddsOf(e, t) # {}
               /\ OpsOn(e, t) \subseteq AddsOf(e, t)}

\* final_set, which starts from the components e has, data: an add inserts a type and
\* a remove erases it, so the last operation on a type decides.
FinalSet(e, data) ==
  {t \in Comp : IF OpsOn(e, t) = {} THEN t \in DOMAIN data
                ELSE Latest(OpsOn(e, t)) \in AddsOf(e, t)}

\* last_add_data: the value of the last add, for each type that was added.
LastAdd(e) ==
  [t \in {u \in Comp : AddsOf(e, u) # {}} |-> OpsOf(e)[Latest(AddsOf(e, t))].val]

Committed(e, data) ==
  [t \in FinalSet(e, data) |-> IF t \in DOMAIN LastAdd(e) THEN LastAdd(e)[t] ELSE data[t]]

Events(kind, e, T) ==
  [i \in DOMAIN SetToSeq(T) |-> [kind |-> kind, ent |-> e, comp |-> SetToSeq(T)[i]]]

\* Mutant: every type that was written is reported as added.
NetEventsOfWrites(e) ==
  Events("Added", e, DOMAIN LastAdd(e) \cap FinalSet(e, store[e]))
    \o Events("Removed", e, DOMAIN store[e] \ FinalSet(e, store[e]))

\* "One per type against the original set": the types of the final set in their
\* order, then the types that are gone.
NetEvents(e) ==
  LET told == {t \in FinalSet(e, store[e]) : t \notin DOMAIN store[e] \/ t \in DOMAIN LastAdd(e)}
  IN [i \in DOMAIN SetToSeq(told) |->
        LET t == SetToSeq(told)[i]
        IN [kind |-> IF t \in DOMAIN store[e] THEN "Changed" ELSE "Added",
            ent |-> e, comp |-> t]]
     \o Events("Removed", e, DOMAIN store[e] \ FinalSet(e, store[e]))

(***************************************************************************)
(* Operations.                                                             *)
(***************************************************************************)

\* A flush that found the queue not empty: the commands it has still to record,
\* the loop over deferred_entities_ it is in, the next entity of that loop, the
\* events to dispatch before it, and the entity whose event the observers are
\* handling.
NewFrame(ops) ==
  [ops |-> ops, loop |-> "destroy", next |-> 1, events |-> <<>>, on |-> {}]

Top == frames[Len(frames)]
Handling == IF frames = <<>> THEN {} ELSE Top.on
SetTop(f) == frames' = [frames EXCEPT ![Len(frames)] = f]

Enqueue(c) ==
  /\ Len(buffer) < IF frames = <<>> THEN MaxQueue ELSE MaxRequeue
  /\ buffer' = Append(buffer, c)
  /\ UNCHANGED <<store, deferVars, frames, turnVars, toldVars>>

Pairs(events) == {<<events[i].ent, events[i].comp>> : i \in DOMAIN events}
ToBeTold == UNION {Pairs(frames[i].events) : i \in DOMAIN frames}

\* A structural operation or a write that does not go through the buffer; the
\* events of it are delivered in it.
Direct(c) ==
  /\ store' = Apply(store, c)
  /\ settled' = Apply(settled, c)
  /\ LET gained == Membership(store') \ Membership(store)
         lost == Membership(store) \ Membership(store')
     IN /\ mirror' = (mirror \ lost) \cup gained
        /\ stale' = (stale \ (lost \cup gained)) \cup ((lost \cup gained) \cap ToBeTold)
  /\ UNCHANGED <<buffer, deferVars, frames, effect>>

\* execute() takes the queue
BeginFlush ==
  /\ buffer # <<>>
  /\ Len(frames) < MaxDepth
  /\ buffer' = <<>>
  /\ frames' = Append(frames, NewFrame(buffer))
  /\ UNCHANGED <<store, deferVars, turnVars, toldVars>>

RecordNext ==
  /\ frames # <<>> /\ Top.ops # <<>>
  /\ LET c == Head(Top.ops)
     IN /\ Record(c)
        /\ TakeTurn(c)
  /\ SetTop([Top EXCEPT !.ops = Tail(@)])
  /\ UNCHANGED <<buffer, toldVars>>

Dispatch ==
  /\ frames # <<>> /\ Top.events # <<>>
  /\ LET ev == Head(Top.events)
     IN /\ mirror' = IF ev.kind = "Added" THEN mirror \cup {<<ev.ent, ev.comp>>}
                     ELSE IF ev.kind = "Removed" THEN mirror \ {<<ev.ent, ev.comp>>}
                     ELSE mirror
        /\ SetTop([Top EXCEPT !.events = Tail(@), !.on = {ev.ent}])
  /\ UNCHANGED <<store, buffer, deferVars, turnVars, stale>>

\* The loops go through deferred_entities_ by position.  A nested flush leaves
\* it empty, and pending_ops_ and pending_destroy_ too, so that whatever the
\* outer loop reads from then on, it finds nothing to do.
LoopAt(loop) ==
  /\ frames # <<>> /\ Top.ops = <<>> /\ Top.events = <<>> /\ Top.loop = loop
  /\ Top.next <= Len(moved)

LoopOver(loop) ==
  /\ frames # <<>> /\ Top.ops = <<>> /\ Top.events = <<>> /\ Top.loop = loop
  /\ Top.next > Len(moved)

Advance(events) ==
  SetTop([Top EXCEPT !.next = @ + 1, !.events = events, !.on = {}])

\* Mutant: the types are collected when the entity is gone.
DestroyNextSilent ==
  /\ LoopAt("destroy")
  /\ LET e == moved[Top.next]
     IN IF e \in doomed
        THEN /\ store' = Restrict(store, Alive \ {e})
             /\ Settle(e)
        ELSE UNCHANGED <<store, turnVars>>
  /\ Advance(<<>>)
  /\ UNCHANGED <<buffer, deferVars, toldVars>>

DestroyNext ==
  /\ LoopAt("destroy")
  /\ LET e == moved[Top.next]
     IN IF e \in doomed
        THEN /\ store' = Restrict(store, Alive \ {e})
             /\ Advance(IF e \in Alive THEN Events("Removed", e, DOMAIN store[e]) ELSE <<>>)
             /\ Settle(e)
        ELSE Advance(<<>>) /\ UNCHANGED <<store, turnVars>>
  /\ UNCHANGED <<buffer, deferVars, toldVars>>

BeginCommits ==
  /\ LoopOver("destroy")
  /\ SetTop([NewFrame(<<>>) EXCEPT !.loop = "commit"])
  /\ UNCHANGED <<store, buffer, deferVars, turnVars, toldVars>>

CommitNext ==
  /\ LoopAt("commit")
  /\ LET e == moved[Top.next]
     IN /\ IF e \notin doomed /\ e \in Alive /\ OpsOf(e) # <<>>
           THEN /\ store' = [store EXCEPT ![e] = Committed(e, store[e])]
                /\ Advance(NetEvents(e))
           ELSE UNCHANGED store /\ Advance(<<>>)
        /\ Settle(e)
  /\ UNCHANGED <<buffer, deferVars, toldVars>>

EndFlush ==
  /\ LoopOver("commit")
  /\ pending' = [e \in Entity |-> <<>>]
  /\ moved' = <<>>
  /\ doomed' = {}
  /\ frames' = Front(frames)
  /\ IF Len(frames) = 1
     THEN mirror' = (mirror \ stale) \cup (Membership(store) \cap stale) /\ stale' = {}
     ELSE UNCHANGED toldVars
  /\ UNCHANGED <<store, buffer, turnVars>>

(***************************************************************************)
(* Specifications.                                                         *)
(***************************************************************************)

Init ==
  /\ store = [e \in {} |-> NoComponents]
  /\ buffer = <<>>
  /\ pending = [e \in Entity |-> <<>>] /\ moved = <<>> /\ doomed = {}
  /\ frames = <<>>
  /\ settled = store /\ effect = [e \in Entity |-> NoEffect]
  /\ mirror = {} /\ stale = {}

Caller ==
  /\ frames = <<>>
  /\ \/ \E c \in Command : Direct(c)
     \/ BeginFlush

FlushStep == RecordNext \/ Dispatch \/ DestroyNext \/ BeginCommits \/ CommitNext \/ EndFlush

\* The program queues, writes and flushes; a flush runs; the observers it calls
\* only queue.
Next ==
  \/ Caller
  \/ FlushStep
  \/ \E c \in Command : (frames = <<>> \/ Handling # {}) /\ Enqueue(c)

Spec == Init /\ [][Next]_vars

\* Observers also write, to the entity they are called for or to any other ...
ObserverWrites == Handling # {} /\ \E c \in Command : Direct(c)

SpecWrites == Init /\ [][Next \/ ObserverWrites]_vars

\* ... and flush, as one of the PER_CALLBACK mode does after each callback.
ObserverFlushes == Handling # {} /\ BeginFlush

SpecNested == Init /\ [][Next \/ ObserverWrites \/ ObserverFlushes]_vars

(***************************************************************************)
(* Properties.                                                             *)
(***************************************************************************)

OpRecord == {c \in Command : c.op \in {"add", "remove"}}

TypeOK ==
  /\ Alive \subseteq Entity
  /\ \A e \in Alive : DOMAIN store[e] \subseteq Comp /\ store[e] \in [DOMAIN store[e] -> Val]
  /\ buffer \in Seq(Command) /\ Len(buffer) <= MaxQueue
  /\ \A e \in Entity : pending[e] \in Seq(OpRecord)
  /\ moved \in Seq(Entity) /\ IsInjective(moved)
  /\ doomed \subseteq Entity
  /\ \A i \in DOMAIN frames :
       /\ frames[i].ops \in Seq(Command)
       /\ frames[i].loop \in {"destroy", "commit"}
       /\ frames[i].next \in 1..Cardinality(Entity) + 1
       /\ frames[i].events \in Seq(Event)
       /\ frames[i].on \subseteq Entity

\* "Ops are applied in order, so the last write to a field wins" (world.h:38),
\* and flush() "applies every queued operation" (VECSCommandBuffer.xml:44):
\* collapsing the operations on an entity into one move leaves the world as it
\* would be had each been applied by itself, in the order of TakeTurn and
\* Settle, whichever entities the handlers wrote to in between, and none is
\* left to be applied.
FlushInOrder ==
  frames = <<>> => store = settled /\ effect = [e \in Entity |-> NoEffect]

\* An observer that keeps a list of who has which component from the ADDED and
\* REMOVED events alone has it right whenever no flush is under way
\* (_commit_deferred_move, destroy_entity), but for the components a handler
\* added or removed while an event about them was still to be dispatched: that
\* event is out of date when it comes.
MembershipMirrored ==
  frames = <<>> =>
    \A p \in (Entity \X Comp) \ stale : p \in mirror <=> p \in Membership(store)

\* "Events are dispatched per net change" (VECSCommandBuffer.xml:9): no event of
\* a flush tells an observer what it knows already, nor of a change to a
\* component the entity has not, but for those that are out of date.
EventsAreNet ==
  [][\A ev \in Event :
       (/\ frames # <<>> /\ Top.events # <<>> /\ ev = Head(Top.events) /\ Dispatch
        /\ <<ev.ent, ev.comp>> \notin stale) =>
         (ev.kind = "Added" <=> <<ev.ent, ev.comp>> \notin mirror)]_vars
=============================================================================

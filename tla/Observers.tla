------------------------------ MODULE Observers ------------------------------
(***************************************************************************)
(* Observers: synchronous delivery of events, the membership that MATCHED  *)
(* / UNMATCHED observers keep, and subscriptions to the value of a field.  *)
(*                                                                         *)
(* Delivery calls user code, and user code may change the world, register, *)
(* unregister or free observers, clear the world or shut it down before it *)
(* returns.  The calls under way are a stack; only the innermost moves.    *)
(*                                                                         *)
(* The world is the one of World, reduced to who is in which archetype and *)
(* in which row.  All archetypes exist from the start, no walk is under    *)
(* way and no deferred command is pending, so that every operation takes   *)
(* effect at once and the flush after a callback finds nothing to do.      *)
(***************************************************************************)
EXTENDS Integers, Sequences, FiniteSets, SequencesExt, Functions, TLC

CONSTANTS
  Entity,
  Comp,
  Observer,
  Mask,       \* set_events(): [Observer -> set of event kinds]
  Filter,     \* set_components(): [Observer -> SUBSET Comp], {} watches all
  Match,      \* set_match_components(): [Observer -> SUBSET Comp]
  FieldSub,   \* subscriptions of on_field_changed(), each made at most once
  Watched,    \* the component they watch a field of
  Value,      \* values of the field, 0 in a new component
  MaxCalls,   \* bound: operations called by the program
  MaxDepth    \* bound: callbacks running inside callbacks

Kinds == {"Added", "Removed", "Changed", "Matched", "Unmatched", "Custom"}

ASSUME ObserversAssumption ==
  /\ IsFiniteSet(Comp)
  /\ Mask \in [Observer -> SUBSET Kinds]
  /\ Filter \in [Observer -> SUBSET Comp]
  /\ Match \in [Observer -> SUBSET Comp]
  /\ FieldSub \cap Observer = {}
  /\ Watched \in Comp
  /\ Value \subseteq Nat /\ 0 \in Value
  /\ MaxCalls \in Nat
  /\ MaxDepth \in Nat

VARIABLES
  tables,      \* rows of each archetype: [SUBSET Comp -> Seq(Entity)]
  value,       \* the field: [Entity -> Value], 0 without the component
  callbacks,   \* callbacks_: what add() has registered, in that order
  nextId,      \* next_id_
  observerId,  \* observer_id_ of each observer, 0 if it has none
  linked,      \* observers whose world_ is set
  freed,       \* observers whose node is gone
  membership,  \* membership_ of each observer
  made,        \* subscriptions that have been made: their ids are not used again
  subId,       \* callback of each subscription in field_subs_, 0 if none
  cached,      \* cached of each subscription: [what it has seen -> Value]
  stack,       \* the calls under way, innermost last
  calls,       \* operations called so far
  again,       \* history: observers added while a callback of theirs was there
  missed,      \* history: entities whose changes an observer could not hear of
  written      \* history: entities written since a subscription was made

worldVars == <<tables, value>>
dispatchVars == <<callbacks, nextId>>
observerVars == <<observerId, linked, freed, membership, again>>
subVars == <<made, subId, cached, written>>
vars == <<worldVars, dispatchVars, observerVars, subVars, stack, calls, missed>>

(***************************************************************************)
(* The world.                                                              *)
(***************************************************************************)

Alive == UNION {ToSet(tables[A]) : A \in SUBSET Comp}
TableOf(e) == CHOOSE A \in SUBSET Comp : e \in ToSet(tables[A])
Has(e, T) == e \in Alive /\ T \subseteq TableOf(e)
Matching(o) == {e \in Entity : Has(e, Match[o])}

\* Archetype::remove_entity: the last row fills the place of e's.
SwapRemove(rows, e) == Front(ReplaceAll(rows, e, Last(rows)))

Leave(e) == [tables EXCEPT ![TableOf(e)] = SwapRemove(@, e)]

MoveTo(e, A) == [Leave(e) EXCEPT ![A] = Append(@, e)]

(***************************************************************************)
(* The calls under way.                                                    *)
(***************************************************************************)

Top == stack[Len(stack)]
Running(kind) == stack # <<>> /\ Top.kind = kind
SetTop(f) == stack' = [stack EXCEPT ![Len(stack)] = f]
Push(f) == stack' = Append(stack, f)
CallFrom(f, g) == stack' = Append([stack EXCEPT ![Len(stack)] = f], g)
Return == stack' = Front(stack)

\* The callable of an observer or a subscription.
UserCode(o) == [kind |-> "user", obs |-> o]

Depth == Cardinality({i \in DOMAIN stack : stack[i].kind = "user"})

\* The program, or a callback of it, calls an operation.
Call ==
  /\ stack # <<>> => Top.kind = "user"
  /\ calls < MaxCalls
  /\ Depth < MaxDepth
  /\ calls' = calls + 1

HasMatchEvents(o) == Mask[o] \cap {"Matched", "Unmatched"} # {}

\* The filters of dispatch(); no custom event has a name that matters here.
Accepts(o, ev) ==
  IF o \in FieldSub THEN ev.kind = "Changed" /\ ev.comp = Watched
  ELSE /\ ev.kind \in Mask[o]
       /\ (ev.kind # "Custom" /\ Filter[o] # {}) => ev.comp \in Filter[o]

Wanting(cbs, ev) == {cb \in ToSet(cbs) : Accepts(cb.obs, ev)}

\* dispatch(): the walk over the callbacks there are now.  due and got are the
\* callbacks it has to call and those it has called, in that order.
Dispatch(ev) ==
  [kind |-> "dispatch", ev |-> ev, snapshot |-> callbacks, next |-> 1,
   evaluate |-> {}, due |-> Wanting(callbacks, ev), got |-> <<>>]

\* The rest of destroy_entity(): one event for each component there was.
Removals(e, types) == [kind |-> "removals", ent |-> e, todo |-> types]

\* seed_membership() of o, at a row of a matched archetype.
Seeding(o) ==
  [kind |-> "seed", obs |-> o, row |-> 1,
   todo |-> SetToSeq({A \in SUBSET Comp : Match[o] \subseteq A})]

Event(kind, e, t) == [kind |-> kind, ent |-> e, comp |-> t]

(***************************************************************************)
(* What an observer could not hear of.                                     *)
(***************************************************************************)

Registered(o) == \E i \in DOMAIN callbacks : callbacks[i].obs = o
Hears(o) == o \in linked /\ Registered(o)
IsSeeding(o) == \E i \in DOMAIN stack : stack[i].kind = "seed" /\ stack[i].obs = o

\* Entities with events that have not been delivered to everybody.
InFlight ==
  {stack[i].ev.ent : i \in {j \in DOMAIN stack :
      stack[j].kind = "dispatch" /\ stack[j].ev.kind # "Custom"}}
    \cup {stack[i].ent : i \in {j \in DOMAIN stack : stack[j].kind = "removals"}}

\* e leaves its row: an observer that is off the list hears nothing of it, and
\* one that is walking the rows may pass by e and by the entity that fills the
\* hole.
MissedBy(o, e) ==
  (IF Hears(o) THEN {} ELSE {e})
    \cup (IF IsSeeding(o) THEN {e, Last(tables[TableOf(e)])} ELSE {})

NoteMove(e) == missed' = [o \in Observer |-> missed[o] \cup MissedBy(o, e)]

NoteDeaf(S) ==
  missed' = [o \in Observer |-> missed[o] \cup (IF o \in S THEN InFlight ELSE {})]

(***************************************************************************)
(* Operations on the world.                                                *)
(***************************************************************************)

\* The component of e is new or gone.
FieldReset(e) ==
  /\ value' = [value EXCEPT ![e] = 0]
  /\ written' = [s \in FieldSub |-> written[s] \ {e}]

CreateEntity(e) ==
  /\ Call
  /\ e \notin Alive
  /\ tables' = [tables EXCEPT ![{}] = Append(@, e)]
  /\ UNCHANGED <<value, dispatchVars, observerVars, subVars, stack, missed>>

AddComponent(e, t) ==
  /\ Call
  /\ e \in Alive /\ t \notin TableOf(e)
  /\ tables' = MoveTo(e, TableOf(e) \cup {t})
  /\ IF t = Watched THEN FieldReset(e) ELSE UNCHANGED <<value, written>>
  /\ Push(Dispatch(Event("Added", e, t)))
  /\ NoteMove(e)
  /\ UNCHANGED <<dispatchVars, observerVars, made, subId, cached>>

RemoveComponent(e, t) ==
  /\ Call
  /\ e \in Alive /\ t \in TableOf(e)
  /\ tables' = MoveTo(e, TableOf(e) \ {t})
  /\ IF t = Watched THEN FieldReset(e) ELSE UNCHANGED <<value, written>>
  /\ Push(Dispatch(Event("Removed", e, t)))
  /\ NoteMove(e)
  /\ UNCHANGED <<dispatchVars, observerVars, made, subId, cached>>

\* destroy_entity() and destroy_entity_pooled(): the entity is gone before the
\* first event, and its id may be in use again before the last.
DestroyEntity(e) ==
  /\ Call
  /\ e \in Alive
  /\ tables' = Leave(e)
  /\ FieldReset(e)
  /\ Push(Removals(e, SetToSeq(TableOf(e))))
  /\ NoteMove(e)
  /\ UNCHANGED <<dispatchVars, observerVars, made, subId, cached>>

\* add_component() on an entity that has the component, and the field setters.
WriteField(e, v) ==
  /\ Call
  /\ Has(e, {Watched})
  /\ value' = [value EXCEPT ![e] = v]
  /\ written' = [s \in FieldSub |-> IF subId[s] = 0 THEN {} ELSE written[s] \cup {e}]
  /\ Push(Dispatch(Event("Changed", e, Watched)))
  /\ UNCHANGED <<tables, dispatchVars, observerVars, made, subId, cached, missed>>

\* clear(): one custom event, and none for the entities.
Clear ==
  /\ Call
  /\ tables' = [A \in SUBSET Comp |-> <<>>]
  /\ Push(Dispatch([kind |-> "Custom"]))
  /\ value' = [e \in Entity |-> 0]
  /\ missed' = [o \in Observer |-> missed[o] \cup Alive]
  /\ written' = [s \in FieldSub |-> {}]
  /\ UNCHANGED <<dispatchVars, observerVars, made, subId, cached>>

(***************************************************************************)
(* Operations on observers.                                                *)
(***************************************************************************)

\* add_observer().  What the observer knows from an earlier registration stays,
\* and is not checked; if it has a callback in the list, as one made by
\* create_observer() has, that stays as well, and only the id of the last one is
\* remembered.
AddObserver(o) ==
  /\ Call
  /\ o \notin freed
  /\ callbacks' = Append(callbacks, [id |-> nextId, obs |-> o])
  /\ nextId' = nextId + 1
  /\ observerId' = [observerId EXCEPT ![o] = nextId]
  /\ linked' = linked \cup {o}
  /\ again' = IF Registered(o) THEN again \cup {o} ELSE again
  /\ missed' = [missed EXCEPT ![o] = membership[o] \ Matching(o)]
  /\ IF HasMatchEvents(o) /\ Match[o] # {} THEN Push(Seeding(o)) ELSE UNCHANGED stack
  /\ UNCHANGED <<worldVars, freed, membership, subVars>>

\* Mutant: the ids start again at the one that stands for none.
FirstIdZero == 0

\* next_id_ of a list that is new or cleared.
FirstId == 1

\* Mutant: only the link to the world is cut.
UnlinkOnly(o) ==
  /\ linked' = linked \ {o}
  /\ NoteDeaf({o})
  /\ UNCHANGED <<callbacks, observerId>>

\* ObserverDispatch::remove(): no two callbacks in the list have the same id.
Without(id) ==
  LET found == {i \in DOMAIN callbacks : callbacks[i].id = id}
  IN IF found = {} THEN callbacks ELSE RemoveAt(callbacks, CHOOSE i \in found : TRUE)

\* remove_observer(): whatever callback carries the id goes.
Unregister(o) ==
  /\ callbacks' = IF observerId[o] = 0 THEN callbacks ELSE Without(observerId[o])
  /\ observerId' = [observerId EXCEPT ![o] = 0]
  /\ linked' = linked \ {o}
  /\ NoteDeaf({o} \cup {p \in Observer : \E cb \in ToSet(callbacks) :
                          cb.obs = p /\ cb.id = observerId[o]})

RemoveObserver(o) ==
  /\ Call
  /\ o \in linked
  /\ Unregister(o)
  /\ UNCHANGED <<worldVars, nextId, freed, membership, again, subVars, stack>>

\* The node is freed (NOTIFICATION_PREDELETE).  What a delivery under way does
\* when it comes to an observer that is gone is undefined: the model stops
\* short of it.
FreeObserver(o) ==
  /\ Call
  /\ o \notin freed
  /\ \A i \in DOMAIN stack :
       /\ stack[i].kind \in {"user", "seed"} => stack[i].obs # o
       /\ stack[i].kind = "dispatch" =>
            \A j \in stack[i].next..Len(stack[i].snapshot) : stack[i].snapshot[j].obs # o
  /\ freed' = freed \cup {o}
  /\ IF o \in linked THEN Unregister(o)
     ELSE UNCHANGED <<callbacks, observerId, linked, missed>>
  /\ UNCHANGED <<worldVars, nextId, membership, again, subVars, stack>>

\* A subscription as it is when it is made, or erased.
Forget(S, id) ==
  /\ subId' = [s \in FieldSub |-> IF s \in S THEN id ELSE subId[s]]
  /\ cached' = [s \in FieldSub |-> IF s \in S THEN <<>> ELSE cached[s]]
  /\ written' = [s \in FieldSub |-> IF s \in S THEN {} ELSE written[s]]

\* on_field_changed()
Subscribe(s) ==
  /\ Call
  /\ s \notin made
  /\ callbacks' = Append(callbacks, [id |-> nextId, obs |-> s])
  /\ nextId' = nextId + 1
  /\ made' = made \cup {s}
  /\ Forget({s}, nextId)
  /\ UNCHANGED <<worldVars, observerVars, stack, missed>>

\* off()
Off(s) ==
  /\ Call
  /\ subId[s] # 0
  /\ callbacks' = Without(subId[s])
  /\ Forget({s}, 0)
  /\ UNCHANGED <<worldVars, nextId, made, observerVars, stack, missed>>

\* shutdown(): the list is emptied and the ids start again, but the observers
\* keep their ids and their link to the world.
Shutdown ==
  /\ Call
  /\ callbacks' = <<>>
  /\ nextId' = FirstId
  /\ Forget(FieldSub, 0)
  /\ NoteDeaf(Observer)
  /\ again' = {}
  /\ UNCHANGED <<worldVars, made, observerId, linked, freed, membership, stack>>

(***************************************************************************)
(* Delivery.                                                               *)
(***************************************************************************)

UserReturns ==
  /\ Running("user")
  /\ Return
  /\ UNCHANGED <<worldVars, dispatchVars, observerVars, subVars, calls, missed>>

NextRemoval ==
  /\ Running("removals")
  /\ IF Top.todo = <<>> THEN Return
     ELSE CallFrom([Top EXCEPT !.todo = Tail(@)],
                   Dispatch(Event("Removed", Top.ent, Head(Top.todo))))
  /\ UNCHANGED <<worldVars, dispatchVars, observerVars, subVars, calls, missed>>

\* Mutant: the walk goes over the list as it is by now.
WalkedLive == callbacks

Walked == Top.snapshot

AtCallback ==
  Running("dispatch") /\ Top.evaluate = {} /\ Top.next <= Len(Walked)

Callee == Walked[Top.next].obs

Passed == [Top EXCEPT !.next = @ + 1, !.got = Append(@, Walked[Top.next])]

SkipNext ==
  /\ AtCallback
  /\ ~Accepts(Callee, Top.ev)
  /\ SetTop([Top EXCEPT !.next = @ + 1])
  /\ UNCHANGED <<worldVars, dispatchVars, observerVars, subVars, calls, missed>>

\* The callback of an observer: handle_event(), and evaluate_match() when that
\* returns.  A call to one that is gone is undefined: the model stops there.
DeliverNext ==
  /\ AtCallback
  /\ Callee \in Observer \ freed /\ Accepts(Callee, Top.ev)
  /\ LET follows == Top.ev.kind \in {"Added", "Removed"} /\ HasMatchEvents(Callee)
     IN CallFrom([Passed EXCEPT !.evaluate = IF follows THEN {Callee} ELSE {}],
                 UserCode(Callee))
  /\ UNCHANGED <<worldVars, dispatchVars, observerVars, subVars, calls, missed>>

\* Mutant: a value that is cached already is not replaced.
RememberFirst(s, e) ==
  [x \in DOMAIN cached[s] \cup {e} |-> IF x \in DOMAIN cached[s] THEN cached[s][x] ELSE value[x]]

\* sub.cached[p_e.id] = value
Remember(s, e) ==
  [x \in DOMAIN cached[s] \cup {e} |-> IF x = e THEN value[e] ELSE cached[s][x]]

\* The callback of a subscription: the callable runs if the field, as it is by
\* now, is not as it was the last time.
DeliverField ==
  /\ AtCallback
  /\ Callee \in FieldSub /\ Accepts(Callee, Top.ev)
  /\ LET s == Callee
         e == Top.ev.ent
     IN IF /\ subId[s] # 0
           /\ Has(e, {Watched})
           /\ ~(e \in DOMAIN cached[s] /\ cached[s][e] = value[e])
        THEN /\ cached' = [cached EXCEPT ![s] = Remember(s, e)]
             /\ CallFrom(Passed, UserCode(s))
        ELSE SetTop(Passed) /\ UNCHANGED cached
  /\ UNCHANGED <<worldVars, dispatchVars, observerVars, made, subId, written, calls, missed>>

\* Mutant: an entity that no longer matches is kept.
ReevaluatedSticky(o, e) ==
  IF Has(e, Match[o]) THEN membership[o] \cup {e} ELSE membership[o]

Reevaluated(o, e) ==
  IF Has(e, Match[o]) THEN membership[o] \cup {e} ELSE membership[o] \ {e}

\* evaluate_match(): MATCHED or UNMATCHED if the entity is on the other side
\* of the query than it was.
EvaluateMatch ==
  /\ Running("dispatch")
  /\ \E o \in Top.evaluate :
       LET e == Top.ev.ent
           done == [Top EXCEPT !.evaluate = {}]
       IN IF o \in linked /\ Match[o] # {}
          THEN /\ membership' = [membership EXCEPT ![o] = Reevaluated(o, e)]
               /\ missed' = [missed EXCEPT ![o] = @ \ {e}]
               /\ IF membership'[o] # membership[o] THEN CallFrom(done, UserCode(o))
                  ELSE SetTop(done)
          ELSE SetTop(done) /\ UNCHANGED <<membership, missed>>
  /\ UNCHANGED <<worldVars, dispatchVars, observerId, linked, freed, again, subVars, calls>>

EndDelivery ==
  /\ Running("dispatch") /\ Top.evaluate = {}
  /\ Top.next > Len(Walked)
  /\ Return
  /\ UNCHANGED <<worldVars, dispatchVars, observerVars, subVars, calls, missed>>

\* The walk of seed_membership() reads the rows as they are by now.
SeedNext ==
  /\ Running("seed")
  /\ LET o == Top.obs
         rows == tables[Head(Top.todo)]
         after == [Top EXCEPT !.row = @ + 1]
     IN CASE Top.todo = <<>> -> Return /\ UNCHANGED <<membership, missed>>
          [] Top.todo # <<>> /\ Top.row > Len(rows) ->
               /\ SetTop([Top EXCEPT !.todo = Tail(@), !.row = 1])
               /\ UNCHANGED <<membership, missed>>
          [] OTHER ->
               /\ membership' = [membership EXCEPT ![o] = @ \cup {rows[Top.row]}]
               /\ missed' = [missed EXCEPT ![o] = @ \ {rows[Top.row]}]
               /\ IF rows[Top.row] \in membership[o] THEN SetTop(after)
                  ELSE CallFrom(after, UserCode(o))
  /\ UNCHANGED <<worldVars, dispatchVars, observerId, linked, freed, again, subVars, calls>>

(***************************************************************************)
(* Specification: a world with entities in it, and no observer yet.        *)
(***************************************************************************)

InitialTables ==
  {f \in [SUBSET Comp -> BoundedSeq(Entity, Cardinality(Entity))] :
     \A A, B \in SUBSET Comp : \A i \in DOMAIN f[A], j \in DOMAIN f[B] :
       f[A][i] = f[B][j] => A = B /\ i = j}

Init ==
  /\ tables \in InitialTables
  /\ value = [e \in Entity |-> 0]
  /\ callbacks = <<>> /\ nextId = FirstId
  /\ observerId = [o \in Observer |-> 0]
  /\ linked = {} /\ freed = {} /\ again = {}
  /\ membership = [o \in Observer |-> {}]
  /\ made = {}
  /\ subId = [s \in FieldSub |-> 0]
  /\ cached = [s \in FieldSub |-> <<>>]
  /\ written = [s \in FieldSub |-> {}]
  /\ stack = <<>>
  /\ calls = 0
  /\ missed = [o \in Observer |-> {}]

WorldCall ==
  \/ \E e \in Entity : CreateEntity(e) \/ DestroyEntity(e)
  \/ \E e \in Entity, t \in Comp : AddComponent(e, t) \/ RemoveComponent(e, t)
  \/ \E e \in Entity, v \in Value : WriteField(e, v)
  \/ Clear

ObserverCall ==
  \/ \E o \in Observer : AddObserver(o) \/ RemoveObserver(o) \/ FreeObserver(o)
  \/ \E s \in FieldSub : Subscribe(s) \/ Off(s)
  \/ Shutdown

DeliveryStep ==
  \/ UserReturns \/ NextRemoval \/ SeedNext
  \/ SkipNext \/ DeliverNext \/ DeliverField \/ EvaluateMatch \/ EndDelivery

Next == WorldCall \/ ObserverCall \/ DeliveryStep

Spec == Init /\ [][Next]_vars

(***************************************************************************)
(* Properties.                                                             *)
(***************************************************************************)

Callback == [id : 1..MaxCalls, obs : Observer \cup FieldSub]

TypeOK ==
  /\ tables \in [SUBSET Comp -> Seq(Entity)]
  /\ callbacks \in Seq(Callback)
  /\ nextId \in 1..MaxCalls + 1
  /\ observerId \in [Observer -> 0..MaxCalls]
  /\ linked \cup freed \cup again \subseteq Observer
  /\ membership \in [Observer -> SUBSET Entity]
  /\ missed \in [Observer -> SUBSET Entity]
  /\ value \in [Entity -> Value]
  /\ made \subseteq FieldSub
  /\ subId \in [FieldSub -> 0..MaxCalls]
  /\ \A s \in FieldSub :
       DOMAIN cached[s] \subseteq Entity /\ Range(cached[s]) \subseteq Value
  /\ written \in [FieldSub -> SUBSET Entity]
  /\ \A i \in DOMAIN stack :
       stack[i].kind \in {"user", "dispatch", "removals", "seed"}

\* An observer that also asks for ADDED and REMOVED, of its match components at
\* least: only then dispatch() lets the events through that it follows.
Tracks(o) ==
  /\ {"Added", "Removed"} \subseteq Mask[o] /\ HasMatchEvents(o) /\ Match[o] # {}
  /\ Filter[o] = {} \/ Match[o] \subseteq Filter[o]

\* "MATCHED/UNMATCHED observers additionally track membership of a component-set
\* query" (vecs_observer.h:29): when all calls have returned, an observer that
\* follows has in its membership exactly the entities that match, whatever the
\* callbacks did between an event and its evaluation (evaluate_match), except
\* for entities whose rows moved under its seeding or that changed while it was
\* not registered.
MembershipFollowsWorld ==
  stack = <<>> =>
    \A o \in Observer :
      (Tracks(o) /\ Hears(o)) => membership[o] \ missed[o] = Matching(o) \ missed[o]

\* "observers may register/unregister other observers while an event is being
\* delivered (re-entrancy safe)" (observer_dispatch.h:49): a delivery runs
\* every callback that was registered when the event was fired and wants it,
\* once, in order of registration (ids grow), and no other.  An observer that
\* was added twice has two callbacks.
EachCalledOnce ==
  [][EndDelivery =>
       /\ ToSet(Top.got) = Top.due
       /\ \A i, j \in DOMAIN Top.got : i < j => Top.got[i].id < Top.got[j].id]_vars

\* "free() (which auto-unregisters)" (vecs_world.h:106), with one exception: an
\* observer that is gone is on the list for events to come only if it was added
\* while it was on the list already, for free() takes off no more than the last
\* of its callbacks.  Neither ids that start again after shutdown(), nor a
\* removal that takes another observer's callback with it, leave one there.
FreedNotRegistered ==
  \A i \in DOMAIN callbacks : callbacks[i].obs \in freed => callbacks[i].obs \in again

\* "the callback (entity, new_value) fires only when the field actually changed
\* value since the last delivery" (vecs_world.h:136), and then it does: when all
\* calls have returned, the value a subscription saw last of an entity that was
\* written under it is the value the field has, also where a callback wrote the
\* field again before the write that called it had reached everybody.
FieldSubsUpToDate ==
  stack = <<>> =>
    \A s \in {x \in FieldSub : Registered(x)} :
      \A e \in written[s] : e \in DOMAIN cached[s] /\ cached[s][e] = value[e]
=============================================================================

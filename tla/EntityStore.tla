----------------------------- MODULE EntityStore -----------------------------
(***************************************************************************)
(* What World promises about entities, components and values, with ids     *)
(* opaque and nothing said of archetypes, rows or columns: a partial map   *)
(* from the entities alive to the components each one has.  Every          *)
(* operation touches one entity and leaves all the others as they were.    *)
(***************************************************************************)
EXTENDS FiniteSets, Functions

CONSTANTS
  Handle,   \* entity ids
  Comp,     \* registered component types
  Val       \* component values

VARIABLE store   \* [the entities alive -> [the components of each -> Val]]

NoComponents == [t \in {} |-> CHOOSE v \in Val : TRUE]

Attached(e) == DOMAIN store[e]

Create(e) ==
  /\ e \notin DOMAIN store
  /\ store' = [x \in DOMAIN store \cup {e} |->
                 IF x = e THEN NoComponents ELSE store[x]]

Destroy(e) ==
  /\ e \in DOMAIN store
  /\ store' = Restrict(store, DOMAIN store \ {e})

SetComponent(e, t, v) ==
  /\ e \in DOMAIN store
  /\ store' = [store EXCEPT ![e] =
                 [c \in Attached(e) \cup {t} |-> IF c = t THEN v ELSE store[e][c]]]

RemoveComponent(e, t) ==
  /\ e \in DOMAIN store
  /\ store' = [store EXCEPT ![e] = Restrict(@, Attached(e) \ {t})]

Init == store = [e \in {} |-> NoComponents]

Next ==
  \/ \E e \in Handle : Create(e) \/ Destroy(e)
  \/ \E e \in Handle, t \in Comp, v \in Val : SetComponent(e, t, v)
  \/ \E e \in Handle, t \in Comp : RemoveComponent(e, t)

Spec == Init /\ [][Next]_store
=============================================================================

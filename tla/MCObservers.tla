----------------------------- MODULE MCObservers -----------------------------
(***************************************************************************)
(* Observers on two entities and two component types.  One observer wants  *)
(* every event and follows the entities that have both types; the other    *)
(* listens to one type only and follows the entities that have it.         *)
(***************************************************************************)
EXTENDS Observers

CONSTANTS e1, e2, position, health, all, one, hp

MCEntity == {e1, e2}
MCComp == {position, health}
MCObserver == {all, one}

MCFieldSub == {hp}

MCMask == (all :> Kinds) @@ (one :> {"Added", "Removed", "Matched", "Unmatched"})
MCFilter == (all :> {}) @@ (one :> {position})
MCMatch == (all :> MCComp) @@ (one :> {position})

Sym == Permutations(MCEntity)
=============================================================================

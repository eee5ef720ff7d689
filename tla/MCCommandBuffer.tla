--------------------------- MODULE MCCommandBuffer ---------------------------
(***************************************************************************)
(* CommandBuffer on two entities.  A flush is checked with two component   *)
(* types, one of them with two values; a flush in a flush with one type.   *)
(***************************************************************************)
EXTENDS CommandBuffer, TLC

CONSTANTS e1, e2, position, health

MCEntity == {e1, e2}
MCComps == {position, health}
MCPosition == {position}
MCValues == [t \in MCComps |-> IF t = position THEN {0, 1} ELSE {0}]
MCPositionValues == [t \in MCPosition |-> {0, 1}]

Sym == Permutations(MCEntity)
=============================================================================

--------------------------- MODULE MCChangeTracking ---------------------------
(***************************************************************************)
(* ChangeTracking with two entities and two components: the view watches   *)
(* one of them, the query reads the other through the first.               *)
(***************************************************************************)
EXTENDS ChangeTracking, TLC

CONSTANTS e1, e2, position, health, a0, a1, a2, a3

MCEntity == {e1, e2}
MCComp == {position, health}
MCWatched == {position}
MCQueryAll == {position}
MCQueryChanged == {health}
MCAddr == {a0, a1, a2, a3}

\* Entities are interchangeable, and so are the addresses but RootAddr.
Sym == Permutations(MCEntity) \cup Permutations(MCAddr \ {RootAddr})
=============================================================================

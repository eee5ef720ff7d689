------------------------------- MODULE MCWorld -------------------------------
(***************************************************************************)
(* World on three entities and two component types.                        *)
(***************************************************************************)
EXTENDS World

CONSTANTS position, health

MCComp == {position, health}

=============================================================================

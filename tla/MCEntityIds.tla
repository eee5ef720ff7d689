----------------------------- MODULE MCEntityIds -----------------------------
(***************************************************************************)
(* EntityIds on a world of two slots with two generations each, whose      *)
(* callers name any id that create_entity_preassigned() takes.             *)
(***************************************************************************)
EXTENDS EntityIds
=============================================================================

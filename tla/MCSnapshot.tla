------------------------------ MODULE MCSnapshot ------------------------------
(***************************************************************************)
(* Snapshot with entities that are blank or have a component, of which a   *)
(* JSON string keeps all or only a part.                                   *)
(***************************************************************************)
EXTENDS Snapshot

CONSTANTS blank, part, full
MCData == {blank, part, full}
MCReadBack == [d \in MCData |-> IF d = full THEN part ELSE d]
=============================================================================

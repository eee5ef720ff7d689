---------------------------- MODULE MCReplication ----------------------------
(***************************************************************************)
(* Replication of two entities: fields sent at every tick, fields sent at  *)
(* most at every second tick, and fields sent with the spawn only.         *)
(***************************************************************************)
EXTENDS Replication, TLC

CONSTANTS e1, e2, position, health, realtime, low, spawnOnly

MCEntity == {e1, e2}
MCComp == {position, health}
MCBucket == {realtime, low, spawnOnly}
MCInterval == (realtime :> 0) @@ (low :> 2) @@ (spawnOnly :> Never)
=============================================================================

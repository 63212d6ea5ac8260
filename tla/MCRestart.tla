------------------------------ MODULE MCRestart ------------------------------
(***************************************************************************)
(* Instances of the restart: one key the configuration may define one way, *)
(* another way, or not at all, from one start to the next.                 *)
(***************************************************************************)
EXTENDS Restart

CONSTANTS c1, v1, g1

Forever  == [soft |-> None, hard |-> None]
HardOnly == [soft |-> None, hard |-> 2]

MCFetchDef == [source |-> c1, ttl |-> HardOnly]
MCOtherDef == [source |-> c1, ttl |-> Forever]
MCWrites   == {[value |-> v1, ttl |-> HardOnly, guard |-> g1, owner |-> None]}
MCConfigs  == {[k \in Keys |-> None], [k \in Keys |-> MCFetchDef]}
MCOnline   == {MCOtherDef}

=============================================================================

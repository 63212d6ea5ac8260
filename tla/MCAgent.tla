------------------------------ MODULE MCAgent ------------------------------
(***************************************************************************)
(* Two sockets with a source each; the first also serves a key of the      *)
(* configuration.  Its source covers two items, so a key can change item.  *)
(***************************************************************************)
EXTENDS Agent

CONSTANTS i1, i2, i3, l1, s1, s2, k1, k2, b1, b2

MCCovers   == [s \in Sources |-> IF s = s1 THEN {i1, i2} ELSE {i3}]
MCSourceOf == [k \in Sockets |-> IF k = k1 THEN s1 ELSE s2]
MCLocalOf  == [k \in Sockets |-> [b \in Blobs |-> IF k = k1 /\ b = b2 THEN l1 ELSE None]]
MCSocketOf == [c \in Conns |-> k1]
MCHeld     == [i \in Items |-> CASE i = i1 -> b1 [] i = i2 -> None [] i = i3 -> b1]

=============================================================================

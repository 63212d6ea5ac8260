------------------------------ MODULE MCApproval ------------------------------
(***************************************************************************)
(* Instances of the approval of guarded reads: two reads of one process,   *)
(* and others of which each is a question of its own.                      *)
(***************************************************************************)
EXTENDS Approval

CONSTANTS r1, r2, r3, A, B, g1, g2

MCCaller == [r \in Reads |-> IF r \in {r1, r2} THEN A ELSE B]

\* The one guard admits everybody, the other only A.
MCAdmits == {<<g1, A>>, <<g1, B>>, <<g2, A>>}

=============================================================================

------------------------------ MODULE MCStore -------------------------------
(***************************************************************************)
(* The store on small lifetimes: one TTL with both limits, one with a hard *)
(* limit only; pins shorter and longer than the hard limit; prompts and    *)
(* commands that outlast the limits.                                       *)
(***************************************************************************)
EXTENDS Store

MCTtls == {[soft |-> 1, hard |-> 2], [soft |-> None, hard |-> 1], [soft |-> 1, hard |-> None]}

=============================================================================

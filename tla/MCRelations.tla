---------------------------- MODULE MCRelations ----------------------------
(***************************************************************************)
(* A small tenant: four users, one of whom buys an order and may be an    *)
(* agent as well.                                                          *)
(***************************************************************************)
EXTENDS Relations, TLC

CONSTANTS u1, u2, u3, u4, o1, nobody

OneOrder == {o1}
ThirdBuys == [o \in OneOrder |-> u3]

(* The users that buy nothing are interchangeable.                         *)
AgentSymmetry == Permutations({u1, u2, u4})
=============================================================================

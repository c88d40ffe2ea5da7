--------------------------- MODULE MCFulfilment ---------------------------
(* Instances of Fulfilment for TLC. *)
EXTENDS Fulfilment, TLC

Symmetry == Permutations(Users) \cup Permutations(Enders) \cup Permutations(Requests)
=============================================================================

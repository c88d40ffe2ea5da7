----------------------------- MODULE MCBidding -----------------------------
(* Instances of Bidding for TLC. *)
EXTENDS Bidding, TLC

CONSTANT Funds

MCInitialBalance == [u \in Users |-> Funds]
Symmetric == Permutations(Users) \cup Permutations(Requests)
=============================================================================

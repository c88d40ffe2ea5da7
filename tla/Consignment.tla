---------------------------- MODULE Consignment ----------------------------
(***************************************************************************)
(* What the auction service promises about goods, whatever the statuses,   *)
(* cron jobs and requests behind it: units leave the stock only into a     *)
(* lot, come back from a lot at most once, and a sold lot is final.        *)
(***************************************************************************)
EXTENDS Integers, FiniteSets, Counting

CONSTANTS Lots, Products, Baskets, InitialStock

VARIABLES
  stock,  \* units of each product that are not in a lot
  units,  \* units of each product in each lot
  sold    \* the lots that have been sold

cvars == <<stock, units, sold>>

NoUnits == [p \in Products |-> 0]

Init ==
  /\ stock = InitialStock
  /\ units = [a \in Lots |-> NoUnits]
  /\ sold = {}

(* Units of product p in the lots of f. *)
Total(f, p) == TotalOf([a \in DOMAIN f |-> f[a][p]], DOMAIN f)

(* A lot that is not sold is filled, or its contents are changed. *)
Fill(a, u) ==
  /\ a \notin sold
  /\ units' = [units EXCEPT ![a] = u]
  /\ stock' = [p \in Products |-> stock[p] + units[a][p] - u[p]]
  /\ UNCHANGED sold

(* Some unsold lots give their units back. *)
GiveBack(S) ==
  /\ S \cap sold = {}
  /\ units' = [a \in Lots |-> IF a \in S THEN NoUnits ELSE units[a]]
  /\ stock' = [p \in Products |-> stock[p] + Total([a \in S |-> units[a]], p)]
  /\ UNCHANGED sold

Sell(a) ==
  /\ sold' = sold \cup {a}
  /\ UNCHANGED <<stock, units>>

Next ==
  \/ \E a \in Lots : Sell(a) \/ \E u \in Baskets : Fill(a, u)
  \/ \E S \in SUBSET Lots : GiveBack(S)

Spec == Init /\ [][Next]_cvars
=============================================================================

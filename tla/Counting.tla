------------------------------ MODULE Counting ------------------------------
(***************************************************************************)
(* Sums over rows.  A sum of naturals is the number of its units, each     *)
(* unit tagged with the row it belongs to.  In this form, and not as a     *)
(* fold, its laws can be proved for any number of rows (CountingProofs).   *)
(***************************************************************************)
EXTENDS Integers, FiniteSets

Units(f, S) == UNION {{x} \X (1 .. f[x]) : x \in S}

(* The sum of f[x] over the x of S. *)
TotalOf(f, S) == Cardinality(Units(f, S))
=============================================================================

--------------------------- MODULE CountingProofs ---------------------------
(***************************************************************************)
(* The laws of sums that the proofs about wallets and stock rest on, and   *)
(* the two facts that stand in for induction: a set of naturals has a      *)
(* least member, a finite set of integers a largest one.                   *)
(***************************************************************************)
EXTENDS Counting, FiniteSetsExt, FiniteSetTheorems, WellFoundedInduction, TLAPS

(* The counterexample to look at in a proof by induction.                  *)
LEMMA LeastNumber ==
  ASSUME NEW T \in SUBSET Nat, T # {}
  PROVE  \E x \in T : \A y \in T : x <= y
<1> DEFINE R == OpToRel(<, Nat)
<1>1. IsWellFoundedOn(R, Nat) BY NatLessThanWellFounded
<1>2. \A y, x \in Nat : y < x => <<y, x>> \in R BY DEF OpToRel
<1> HIDE DEF R
<1>3. PICK x \in T : \A y \in T : ~(<<y, x>> \in R) BY <1>1, WFMin
<1>4. \A y \in T : ~(y < x) BY <1>2, <1>3
<1>5. \A y \in T : x <= y BY <1>4
<1> QED BY <1>5

(* A subset of least size among those without a largest member would have  *)
(* one: the largest of the rest, or the member taken out.                  *)
LEMMA MaxOfFinite ==
  ASSUME NEW A, IsFiniteSet(A), A \subseteq Int, A # {}
  PROVE  Max(A) \in A /\ \A a \in A : a <= Max(A)
<1> DEFINE Bad == {T \in SUBSET A : T # {} /\ ~\E m \in T : \A a \in T : a <= m}
           Sizes == {Cardinality(T) : T \in Bad}
<1>1. \A T \in SUBSET A : IsFiniteSet(T) /\ Cardinality(T) \in Nat
  BY FS_Subset, FS_CardinalityType
<1>2. Bad = {}
  <2> SUFFICES ASSUME Bad # {} PROVE FALSE OBVIOUS
  <2>1. Sizes \in SUBSET Nat /\ Sizes # {} BY <1>1
  <2>2. PICK n \in Sizes : \A y \in Sizes : n <= y
    <3> HIDE DEF Sizes
    <3> QED BY <2>1, LeastNumber
  <2>3. PICK T \in Bad : Cardinality(T) = n BY <2>2
  <2>4. \A U \in Bad : n <= Cardinality(U) BY <2>2
  <2>5. T \subseteq A /\ T # {} /\ ~\E m \in T : \A a \in T : a <= m BY <2>3
  <2>6. PICK x \in T : TRUE BY <2>5
  <2>7. Cardinality(T \ {x}) = n - 1 /\ n \in Nat
    BY <2>3, <2>5, <2>6, <1>1, FS_RemoveElement
  <2>8. T \ {x} \notin Bad
    <3>1. ~(n <= n - 1) BY <2>7
    <3> HIDE DEF Bad
    <3> QED BY <2>7, <2>4, <3>1
  <2>9. CASE T \ {x} = {} BY <2>9, <2>5, <2>6
  <2>10. CASE T \ {x} # {}
    <3>1. PICK m \in T \ {x} : \A a \in T \ {x} : a <= m BY <2>8, <2>10, <2>5
    <3>2. m \in Int /\ x \in Int BY <3>1, <2>5, <2>6
    <3>3. \A a \in T : a \in Int BY <2>5
    <3>4. CASE x <= m BY <3>4, <3>1, <2>5
    <3>5. CASE ~(x <= m) BY <3>5, <3>1, <3>2, <3>3, <2>5, <2>6
    <3> QED BY <3>4, <3>5
  <2> QED BY <2>9, <2>10
<1>3. \E m \in A : \A a \in A : a <= m BY <1>2
<1> QED BY <1>3 DEF Max

(* S is a finite set of rows on which f counts something. *)
Counts(f, S) == IsFiniteSet(S) /\ \A x \in S : f[x] \in Nat

(* The units of one row are as many as the row says. *)
LEMMA RowUnits ==
  ASSUME NEW x, NEW n \in Nat
  PROVE  IsFiniteSet({x} \X (1..n)) /\ Cardinality({x} \X (1..n)) = n
<1>1. IsFiniteSet({x}) /\ Cardinality({x}) = 1 BY FS_Singleton
<1>2. IsFiniteSet(1..n) /\ Cardinality(1..n) = n BY FS_Interval
<1>3. /\ IsFiniteSet({x} \X (1..n))
      /\ Cardinality({x} \X (1..n)) = Cardinality({x}) * Cardinality(1..n)
  BY <1>1, <1>2, FS_Product
<1> QED BY <1>1, <1>2, <1>3

LEMMA UnitsFinite ==
  ASSUME NEW f, NEW S, Counts(f, S)
  PROVE  IsFiniteSet(Units(f, S))
<1> DEFINE row == [x \in S |-> {x} \X (1 .. f[x])]
           family == {row[x] : x \in S}
<1>1. row \in Surjection(S, family) BY DEF Surjection
<1>2. IsFiniteSet(family) BY <1>1, FS_Surjection DEF ExistsSurjection, Counts
<1>3. \A x \in S : IsFiniteSet(row[x])
  <2> TAKE x \in S
  <2>1. row[x] = {x} \X (1 .. f[x]) OBVIOUS
  <2>2. f[x] \in Nat BY DEF Counts
  <2>3. IsFiniteSet({x} \X (1 .. f[x])) BY <2>2, RowUnits
  <2> HIDE DEF row
  <2> QED BY <2>1, <2>3
<1>4. Units(f, S) = UNION family BY DEF Units
<1>5. \A T \in family : IsFiniteSet(T)
  <2> HIDE DEF row
  <2> QED BY <1>3
<1> HIDE DEF family
<1> QED BY <1>2, <1>4, <1>5, FS_UNION

(* A sum is a natural number. *)
LEMMA TotalType ==
  ASSUME NEW f, NEW S, Counts(f, S)
  PROVE  TotalOf(f, S) \in Nat
BY UnitsFinite, FS_CardinalityType DEF TotalOf

LEMMA TotalEmpty == \A f : TotalOf(f, {}) = 0
  BY FS_EmptySet DEF TotalOf, Units

(* Only the values on S matter. *)
LEMMA TotalSame ==
  ASSUME NEW f, NEW g, NEW S, \A x \in S : f[x] = g[x]
  PROVE  TotalOf(f, S) = TotalOf(g, S)
<1>1. Units(f, S) = Units(g, S) BY DEF Units
<1> QED BY <1>1 DEF TotalOf

LEMMA TotalZero ==
  ASSUME NEW f, NEW S, \A x \in S : f[x] = 0
  PROVE  TotalOf(f, S) = 0
<1>1. Units(f, S) = {} BY DEF Units
<1> QED BY <1>1, FS_EmptySet DEF TotalOf

(* The sum over two disjoint sets of rows. *)
LEMMA TotalDisjoint ==
  ASSUME NEW f, NEW S, NEW T, Counts(f, S), Counts(f, T), S \cap T = {}
  PROVE  TotalOf(f, S \cup T) = TotalOf(f, S) + TotalOf(f, T)
<1>1. Units(f, S \cup T) = Units(f, S) \cup Units(f, T) BY DEF Units
<1>2. Units(f, S) \cap Units(f, T) = {}
  <2> SUFFICES ASSUME NEW u \in Units(f, S), u \in Units(f, T) PROVE FALSE OBVIOUS
  <2>1. PICK x \in S : u \in {x} \X (1 .. f[x]) BY DEF Units
  <2>2. PICK y \in T : u \in {y} \X (1 .. f[y]) BY DEF Units
  <2>3. u[1] = x /\ u[1] = y BY <2>1, <2>2
  <2> QED BY <2>3
<1>3. IsFiniteSet(Units(f, S)) /\ IsFiniteSet(Units(f, T)) BY UnitsFinite
<1>4. /\ Cardinality(Units(f, S)) \in Nat /\ Cardinality(Units(f, T)) \in Nat
  BY <1>3, FS_CardinalityType
<1>5. Cardinality(Units(f, S) \cup Units(f, T)) =
        Cardinality(Units(f, S)) + Cardinality(Units(f, T))
          - Cardinality(Units(f, S) \cap Units(f, T))
  BY <1>3, FS_Union
<1>6. Cardinality(Units(f, S) \cap Units(f, T)) = 0 BY <1>2, FS_EmptySet
<1> DEFINE s == Cardinality(Units(f, S))
           t == Cardinality(Units(f, T))
           both == Cardinality(Units(f, S) \cup Units(f, T))
           meet == Cardinality(Units(f, S) \cap Units(f, T))
<1>7. s \in Nat /\ t \in Nat /\ both = s + t - meet /\ meet = 0
  BY <1>4, <1>5, <1>6
<1>8. /\ TotalOf(f, S) = s /\ TotalOf(f, T) = t /\ TotalOf(f, S \cup T) = both
  BY <1>1 DEF TotalOf
<1> HIDE DEF s, t, both, meet
<1> QED BY <1>7, <1>8

LEMMA TotalOne ==
  ASSUME NEW f, NEW x, f[x] \in Nat
  PROVE  Counts(f, {x}) /\ TotalOf(f, {x}) = f[x]
<1>1. Units(f, {x}) = {x} \X (1 .. f[x]) BY DEF Units
<1>2. IsFiniteSet({x}) BY FS_Singleton
<1> QED BY <1>1, <1>2, RowUnits DEF TotalOf, Counts

(* One more row. *)
LEMMA TotalAdd ==
  ASSUME NEW f, NEW S, Counts(f, S), NEW x, x \notin S, f[x] \in Nat
  PROVE  TotalOf(f, S \cup {x}) = TotalOf(f, S) + f[x]
<1>1. Counts(f, {x}) /\ TotalOf(f, {x}) = f[x] BY TotalOne
<1>2. S \cap {x} = {} OBVIOUS
<1> QED BY <1>1, <1>2, TotalDisjoint

(* Some rows change: the sum changes by the difference of their sums. *)
LEMMA TotalChange ==
  ASSUME NEW f, NEW g, NEW S, NEW T, Counts(f, S), Counts(g, S), T \subseteq S,
         \A x \in S \ T : f[x] = g[x]
  PROVE  /\ Counts(f, T) /\ Counts(g, T)
         /\ TotalOf(g, S) = TotalOf(f, S) - TotalOf(f, T) + TotalOf(g, T)
<1>1. /\ Counts(f, T) /\ Counts(g, T) /\ Counts(f, S \ T) /\ Counts(g, S \ T)
  BY FS_Subset DEF Counts
<1>2. S = (S \ T) \cup T /\ (S \ T) \cap T = {} OBVIOUS
<1>3. TotalOf(f, S) = TotalOf(f, S \ T) + TotalOf(f, T) BY <1>1, <1>2, TotalDisjoint
<1>4. TotalOf(g, S) = TotalOf(g, S \ T) + TotalOf(g, T) BY <1>1, <1>2, TotalDisjoint
<1>5. TotalOf(f, S \ T) = TotalOf(g, S \ T) BY TotalSame
<1>6. /\ TotalOf(f, S \ T) \in Nat /\ TotalOf(f, T) \in Nat /\ TotalOf(g, T) \in Nat
  BY <1>1, TotalType
<1> QED BY <1>1, <1>3, <1>4, <1>5, <1>6
=============================================================================

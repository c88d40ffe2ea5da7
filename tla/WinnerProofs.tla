---------------------------- MODULE WinnerProofs ----------------------------
(***************************************************************************)
(* The winner of an auction: what the sort and the loop of endAuction      *)
(* compute for any number of bids, that he has paid, and that the money    *)
(* held of the bidders follows the bids.                                   *)
(***************************************************************************)
EXTENDS BiddingProofs

-----------------------------------------------------------------------------
(* The sort.  SortedBids is a recursion over the rows that are left; its   *)
(* value is the set of all orders in which the database may return them.   *)

Sorted(T) ==
  {s \in Seq(T) :
     /\ \A b \in T : \E i \in 1..Len(s) : s[i] = b
     /\ \A i, j \in 1..Len(s) : i < j => s[i] # s[j] /\ NotAfter(s[i], s[j])}

LEMMA NotAfterSelf == \A b \in Bid : NotAfter(b, b)
  BY BidFields DEF NotAfter

LEMMA SortedEmpty == Sorted({}) = {<<>>}
<1>1. \A s \in Seq({}) : s = <<>>
  <2> TAKE s \in Seq({})
  <2>1. Len(s) \in Nat /\ \A i \in 1..Len(s) : s[i] \in {}
    BY LenProperties, ElementOfSeq
  <2>2. Len(s) = 0
    <3>1. Len(s) # 0 => 1 \in 1..Len(s) BY <2>1
    <3> QED BY <2>1, <3>1
  <2> QED BY <2>2, EmptySeq
<1>2. <<>> \in Sorted({})
  <2>1. <<>> \in Seq({}) /\ 1..Len(<<>>) = {} BY EmptySeq
  <2> QED BY <2>1 DEF Sorted
<1>3. \A s \in Sorted({}) : s \in Seq({}) BY DEF Sorted
<1> QED BY <1>1, <1>2, <1>3

First(T) == {c \in T : \A d \in T : NotAfter(c, d)}

(* A sorted list is a first row followed by a sorted list of the others.   *)
LEMMA SortedSplit ==
  ASSUME NEW T \in SUBSET Bid, T # {}, NEW t \in Sorted(T)
  PROVE  \E b \in First(T) : \E s \in Sorted(T \ {b}) : t = <<b>> \o s
<1>1. t \in Seq(T) /\ Len(t) \in Nat /\ \A i \in 1..Len(t) : t[i] \in T
  BY LenProperties, ElementOfSeq DEF Sorted
<1>2. PICK c \in T : TRUE OBVIOUS
<1>3. Len(t) >= 1 /\ t # <<>>
  <2>1. \E i \in 1..Len(t) : t[i] = c BY DEF Sorted
  <2>2. Len(t) # 0 BY <2>1, <1>1
  <2> QED BY <2>2, <1>1, EmptySeq
<1> DEFINE b == t[1]
           s == Tail(t)
<1>4. b \in T /\ b = Head(t) BY <1>1, <1>3
<1>5. b \in First(T)
  <2> SUFFICES ASSUME NEW d \in T PROVE NotAfter(b, d) BY <1>4 DEF First
  <2>1. PICK j \in 1..Len(t) : t[j] = d BY DEF Sorted
  <2>2. CASE j = 1 BY <2>2, <2>1, NotAfterSelf
  <2>3. CASE j # 1
    <3>1. 1 \in 1..Len(t) /\ 1 < j BY <2>3, <1>1, <1>3
    <3> QED BY <3>1, <2>1 DEF Sorted
  <2> QED BY <2>2, <2>3
<1>6. /\ s \in Seq(T) /\ Len(s) = Len(t) - 1
      /\ \A i \in 1..Len(s) : s[i] = t[i+1]
  BY <1>1, <1>3, HeadTailProperties
<1>7. t = <<b>> \o s BY <1>1, <1>3, <1>4, HeadTailProperties
<1>8. s \in Sorted(T \ {b})
  <2>1. \A i \in 1..Len(s) : i + 1 \in 1..Len(t) /\ 1 \in 1..Len(t) /\ 1 < i + 1
    BY <1>1, <1>3, <1>6
  <2>2. \A i \in 1..Len(s) : s[i] \in T /\ s[i] # b
    <3> TAKE i \in 1..Len(s)
    <3>1. t[1] # t[i+1] BY <2>1 DEF Sorted
    <3> QED BY <3>1, <2>1, <1>1, <1>6
  <2>3. s \in Seq(T \ {b})
    <3>1. \A i \in 1..Len(s) : s[i] \in T \ {b} BY <2>2
    <3> HIDE DEF s, b
    <3> QED BY <3>1, <1>6, SeqDef, LenProperties
  <2>4. \A d \in T \ {b} : \E i \in 1..Len(s) : s[i] = d
    <3> TAKE d \in T \ {b}
    <3>1. PICK j \in 1..Len(t) : t[j] = d BY DEF Sorted
    <3>2. j # 1 BY <3>1
    <3>3. j - 1 \in 1..Len(s) /\ j = (j - 1) + 1 BY <3>2, <1>1, <1>6
    <3>4. s[j-1] = t[j-1+1] BY <3>3, <1>6
    <3> HIDE DEF s, b
    <3> QED BY <3>1, <3>3, <3>4
  <2>5. \A i, j \in 1..Len(s) : i < j => s[i] # s[j] /\ NotAfter(s[i], s[j])
    <3> SUFFICES ASSUME NEW i \in 1..Len(s), NEW j \in 1..Len(s), i < j
                 PROVE  s[i] # s[j] /\ NotAfter(s[i], s[j])
      OBVIOUS
    <3>1. i + 1 \in 1..Len(t) /\ j + 1 \in 1..Len(t) /\ i + 1 < j + 1
      BY <2>1
    <3>2. t[i+1] # t[j+1] /\ NotAfter(t[i+1], t[j+1]) BY <3>1 DEF Sorted
    <3>3. s[i] = t[i+1] /\ s[j] = t[j+1] BY <1>6
    <3> QED BY <3>2, <3>3
  <2> HIDE DEF s, b
  <2> QED BY <2>3, <2>4, <2>5 DEF Sorted
<1> HIDE DEF s, b
<1> QED BY <1>5, <1>7, <1>8

LEMMA SortedJoin ==
  ASSUME NEW T \in SUBSET Bid, NEW b \in First(T), NEW s \in Sorted(T \ {b})
  PROVE  <<b>> \o s \in Sorted(T)
<1> DEFINE t == <<b>> \o s
<1>1. b \in T /\ <<b>> \in Seq(T) /\ Len(<<b>>) = 1 /\ <<b>>[1] = b BY DEF First
<1>2. /\ s \in Seq(T) /\ Len(s) \in Nat /\ \A i \in 1..Len(s) : s[i] \in T \ {b}
  <2>1. s \in Seq(T \ {b}) BY DEF Sorted
  <2>2. Len(s) \in Nat /\ \A i \in 1..Len(s) : s[i] \in T \ {b}
    BY <2>1, LenProperties, ElementOfSeq
  <2>3. s \in Seq(T) BY <2>1, <2>2, SeqDef, LenProperties
  <2> QED BY <2>2, <2>3
<1>3. /\ t \in Seq(T) /\ Len(t) = 1 + Len(s)
      /\ \A i \in 1 .. 1 + Len(s) : t[i] = IF i = 1 THEN b ELSE s[i-1]
  <2>1. /\ t \in Seq(T) /\ Len(t) = Len(<<b>>) + Len(s)
        /\ \A i \in 1 .. Len(<<b>>) + Len(s) :
             t[i] = IF i <= Len(<<b>>) THEN <<b>>[i] ELSE s[i - Len(<<b>>)]
    BY <1>1, <1>2, ConcatProperties
  <2>2. \A i \in 1 .. 1 + Len(s) : i <= 1 <=> i = 1 BY <1>2
  <2> HIDE DEF t
  <2> QED BY <1>1, <2>1, <2>2
<1> HIDE DEF t
<1>4. ASSUME NEW d \in T PROVE \E i \in 1..Len(t) : t[i] = d
  <2>1. CASE d = b
    <3>1. 1 \in 1 .. 1 + Len(s) BY <1>2
    <3> QED BY <3>1, <2>1, <1>3
  <2>2. CASE d # b
    <3>1. PICK i \in 1..Len(s) : s[i] = d BY <2>2 DEF Sorted
    <3>2. i + 1 \in 1 .. 1 + Len(s) /\ i + 1 # 1 /\ i + 1 - 1 = i BY <1>2
    <3>3. t[i+1] = s[i+1-1] BY <3>2, <1>3
    <3> QED BY <3>1, <3>2, <3>3, <1>3
  <2> QED BY <2>1, <2>2
<1>5. ASSUME NEW i \in 1..Len(t), NEW j \in 1..Len(t), i < j
      PROVE  t[i] # t[j] /\ NotAfter(t[i], t[j])
  <2>1. j # 1 /\ j - 1 \in 1..Len(s) /\ t[j] = s[j-1] BY <1>2, <1>3, <1>5
  <2>2. CASE i = 1
    <3>1. t[i] = b /\ t[j] \in T \ {b} BY <2>1, <2>2, <1>2, <1>3
    <3> QED BY <3>1 DEF First
  <2>3. CASE i # 1
    <3>1. i - 1 \in 1..Len(s) /\ t[i] = s[i-1] /\ i - 1 < j - 1
      BY <2>3, <1>2, <1>3, <1>5
    <3>2. s[i-1] # s[j-1] /\ NotAfter(s[i-1], s[j-1]) BY <2>1, <3>1 DEF Sorted
    <3> QED BY <2>1, <3>1, <3>2
  <2> QED BY <2>2, <2>3
<1>6. t \in Sorted(T) BY <1>3, <1>4, <1>5 DEF Sorted
<1> QED BY <1>6 DEF t

LEMMA SortedUnfold ==
  ASSUME NEW T \in SUBSET Bid
  PROVE  Sorted(T) = IF T = {} THEN {<<>>}
                     ELSE UNION {{<<b>> \o s : s \in Sorted(T \ {b})} : b \in First(T)}
<1>1. CASE T = {} BY <1>1, SortedEmpty
<1>2. CASE T # {}
  <2> DEFINE U == UNION {{<<b>> \o s : s \in Sorted(T \ {b})} : b \in First(T)}
  <2>1. ASSUME NEW t \in Sorted(T) PROVE t \in U
    <3>1. PICK b \in First(T) : \E s \in Sorted(T \ {b}) : t = <<b>> \o s
      BY <1>2, SortedSplit
    <3>2. t \in {<<b>> \o s : s \in Sorted(T \ {b})} BY <3>1
    <3> QED BY <3>2
  <2>2. ASSUME NEW t \in U PROVE t \in Sorted(T)
    <3>1. PICK b \in First(T) : t \in {<<b>> \o s : s \in Sorted(T \ {b})} OBVIOUS
    <3>2. PICK s \in Sorted(T \ {b}) : t = <<b>> \o s BY <3>1
    <3> QED BY <3>1, <3>2, SortedJoin
  <2> QED BY <1>2, <2>1, <2>2
<1> QED BY <1>1, <1>2

(* The lists that a first row b and the lists of f for the others make.    *)
Steps(f, T) == {{<<b>> \o s : s \in f[T \ {b}]} : b \in First(T)}

LEMMA SameSteps ==
  ASSUME NEW f, NEW g, NEW T, \A b \in First(T) : f[T \ {b}] = g[T \ {b}]
  PROVE  Steps(f, T) = Steps(g, T)
<1>1. ASSUME NEW x \in Steps(f, T) PROVE x \in Steps(g, T)
  <2>1. PICK b \in First(T) : x = {<<b>> \o s : s \in f[T \ {b}]} BY DEF Steps
  <2>2. x = {<<b>> \o s : s \in g[T \ {b}]} BY <2>1
  <2> QED BY <2>2 DEF Steps
<1>2. ASSUME NEW x \in Steps(g, T) PROVE x \in Steps(f, T)
  <2>1. PICK b \in First(T) : x = {<<b>> \o s : s \in g[T \ {b}]} BY DEF Steps
  <2>2. x = {<<b>> \o s : s \in f[T \ {b}]} BY <2>1
  <2> QED BY <2>2 DEF Steps
<1> QED BY <1>1, <1>2

LEMMA SortedSteps ==
  ASSUME NEW S \in SUBSET Bid, NEW T \in SUBSET S
  PROVE  LET g == [U \in SUBSET S |-> Sorted(U)] IN
         Sorted(T) = IF T = {} THEN {<<>>} ELSE UNION Steps(g, T)
<1> DEFINE g == [U \in SUBSET S |-> Sorted(U)]
<1>1. \A b \in First(T) : g[T \ {b}] = Sorted(T \ {b}) OBVIOUS
<1>2. Steps(g, T) = {{<<b>> \o s : s \in Sorted(T \ {b})} : b \in First(T)}
  <2> DEFINE G == {{<<b>> \o s : s \in Sorted(T \ {b})} : b \in First(T)}
  <2> HIDE DEF g
  <2>1. ASSUME NEW x \in Steps(g, T) PROVE x \in G
    <3>1. PICK b \in First(T) : x = {<<b>> \o s : s \in g[T \ {b}]} BY DEF Steps
    <3>2. x = {<<b>> \o s : s \in Sorted(T \ {b})} BY <1>1, <3>1
    <3> QED BY <3>2
  <2>2. ASSUME NEW x \in G PROVE x \in Steps(g, T)
    <3>1. PICK b \in First(T) : x = {<<b>> \o s : s \in Sorted(T \ {b})} OBVIOUS
    <3>2. x = {<<b>> \o s : s \in g[T \ {b}]} BY <1>1, <3>1
    <3> QED BY <3>2 DEF Steps
  <2> QED BY <2>1, <2>2
<1> HIDE DEF g
<1>3. T \in SUBSET Bid OBVIOUS
<1>4. Sorted(T) = IF T = {} THEN {<<>>} ELSE UNION Steps(g, T)
  BY <1>2, <1>3, SortedUnfold
<1> QED BY <1>4 DEF g

(* Every recursion of that shape computes the same lists: look at a        *)
(* smallest set on which it does not.                                      *)
Unfolds(f, S) ==
  f = [T \in SUBSET S |->
         IF T = {} THEN {<<>>}
         ELSE UNION {{<<b>> \o s : s \in f[T \ {b}]} :
                     b \in {c \in T : \A d \in T : NotAfter(c, d)}}]

LEMMA UnfoldsOnce ==
  ASSUME NEW S \in SUBSET Bid, IsFiniteSet(S), NEW f, Unfolds(f, S)
  PROVE  \A T \in SUBSET S : f[T] = Sorted(T)
<1> DEFINE Bad == {T \in SUBSET S : f[T] # Sorted(T)}
           Sizes == {Cardinality(T) : T \in Bad}
<1>1. \A T \in SUBSET S : IsFiniteSet(T) /\ Cardinality(T) \in Nat
  BY FS_Subset, FS_CardinalityType
<1> SUFFICES ASSUME Bad # {} PROVE FALSE OBVIOUS
<1>2. Sizes \in SUBSET Nat /\ Sizes # {} BY <1>1
<1>3. PICK n \in Sizes : \A y \in Sizes : n <= y
  <2> HIDE DEF Sizes
  <2> QED BY <1>2, LeastNumber
<1>4. PICK T \in Bad : Cardinality(T) = n BY <1>3
<1>5. \A U \in Bad : n <= Cardinality(U) BY <1>3
<1>6. T \in SUBSET S /\ f[T] # Sorted(T) /\ T \in SUBSET Bid BY <1>4
<1>7. \A b \in T : f[T \ {b}] = Sorted(T \ {b})
  <2> TAKE b \in T
  <2>1. Cardinality(T \ {b}) = n - 1 /\ n \in Nat
    BY <1>1, <1>4, <1>6, FS_RemoveElement
  <2>2. ~(n <= n - 1) BY <2>1
  <2>3. T \ {b} \notin Bad
    <3> HIDE DEF Bad
    <3> QED BY <1>5, <2>1, <2>2
  <2> QED BY <2>3, <1>6
<1> DEFINE g == [U \in SUBSET S |-> Sorted(U)]
<1>8. f[T] = IF T = {} THEN {<<>>} ELSE UNION Steps(f, T)
  BY <1>6 DEF Unfolds, First, Steps
<1>9. Sorted(T) = IF T = {} THEN {<<>>} ELSE UNION Steps(g, T)
  BY <1>6, SortedSteps
<1>10. \A b \in First(T) : f[T \ {b}] = g[T \ {b}] BY <1>6, <1>7 DEF First
<1> HIDE DEF g
<1>11. Steps(f, T) = Steps(g, T) BY <1>10, SameSteps
<1> QED BY <1>6, <1>8, <1>9, <1>11

(* The orders of SortedBids are exactly the sorted lists of the rows.      *)
LEMMA SortedBidsAre ==
  ASSUME NEW S \in SUBSET Bid, IsFiniteSet(S)
  PROVE  SortedBids(S) = Sorted(S)
<1> DEFINE g == [T \in SUBSET S |-> Sorted(T)]
<1>1. Unfolds(g, S)
  <2>1. ASSUME NEW T \in SUBSET S
        PROVE  Sorted(T) = IF T = {} THEN {<<>>} ELSE UNION Steps(g, T)
    BY SortedSteps
  <2> QED BY <2>1 DEF Unfolds, Steps, First
<1> DEFINE orders == CHOOSE f : Unfolds(f, S)
<1>2. Unfolds(orders, S) BY <1>1
<1>3. SortedBids(S) = orders[S] BY DEF SortedBids, Unfolds
<1>4. orders[S] = Sorted(S)
  <2> HIDE DEF orders
  <2> QED BY <1>2, UnfoldsOnce
<1> QED BY <1>3, <1>4

-----------------------------------------------------------------------------
(* The loop.  It stops at the first row of another user than the first one *)
(* and keeps the row before it.                                            *)

IsStop(s, m) ==
  /\ m \in 2 .. Len(s) + 1
  /\ \A i \in 1 .. m - 1 : s[i].user = s[1].user
  /\ m <= Len(s) => s[m].user # s[1].user

LEMMA StopExists ==
  ASSUME NEW s, Len(s) \in Nat \ {0}
  PROVE  \E m : IsStop(s, m)
<1> DEFINE Others == {i \in 1..Len(s) : s[i].user # s[1].user}
<1>1. CASE Others = {}
  <2>1. Len(s) + 1 \in 2 .. Len(s) + 1 /\ ~(Len(s) + 1 <= Len(s)) OBVIOUS
  <2>2. \A i \in 1 .. Len(s) + 1 - 1 : s[i].user = s[1].user BY <1>1
  <2> QED BY <2>1, <2>2 DEF IsStop
<1>2. CASE Others # {}
  <2>1. Others \in SUBSET Nat OBVIOUS
  <2>2. PICK m \in Others : \A y \in Others : m <= y
    <3> HIDE DEF Others
    <3> QED BY <1>2, <2>1, LeastNumber
  <2>3. m \in 1..Len(s) /\ s[m].user # s[1].user BY <2>2
  <2>4. m \in 2 .. Len(s) + 1 BY <2>3
  <2>5. \A i \in 1 .. m - 1 : s[i].user = s[1].user
    <3> SUFFICES ASSUME NEW i \in 1 .. m - 1, s[i].user # s[1].user PROVE FALSE
      OBVIOUS
    <3>1. i \in 1..Len(s) /\ ~(m <= i) BY <2>3
    <3>2. i \in Others BY <3>1
    <3> QED BY <2>2, <3>1, <3>2
  <2> QED BY <2>3, <2>4, <2>5 DEF IsStop
<1> QED BY <1>1, <1>2

(* What the loop holds after row i.                                        *)
Walked(s, m) ==
  [i \in 1..Len(s) |-> IF i < m THEN [bid |-> s[i], broke |-> FALSE]
                                ELSE [bid |-> s[m-1], broke |-> TRUE]]

Turn(f, s, i) ==
  IF i = 1 THEN [bid |-> s[1], broke |-> FALSE]
  ELSE LET w == f[i-1] IN
       IF w.broke \/ Breaks(s[i], w.bid) THEN [w EXCEPT !.broke = TRUE]
       ELSE IF s[i].user = w.bid.user THEN [w EXCEPT !.bid = s[i]] ELSE w

LEMMA TurnIs ==
  ASSUME NEW s, Len(s) \in Nat \ {0}, NEW m, IsStop(s, m), NEW f,
         NEW i \in 1..Len(s), i # 1 => f[i-1] = Walked(s, m)[i-1]
  PROVE  Turn(f, s, i) = Walked(s, m)[i]
<1>1. m \in 2 .. Len(s) + 1 BY DEF IsStop
<1>2. CASE i = 1
  <2>1. i < m BY <1>1, <1>2
  <2> QED BY <2>1, <1>2 DEF Turn, Walked
<1>3. CASE i # 1
  <2>1. i - 1 \in 1..Len(s) BY <1>3
  <2> DEFINE w == f[i-1]
  <2>2. w = IF i - 1 < m THEN [bid |-> s[i-1], broke |-> FALSE]
                         ELSE [bid |-> s[m-1], broke |-> TRUE]
    BY <2>1, <1>3 DEF Walked
  <2>3. Turn(f, s, i) = IF w.broke \/ Breaks(s[i], w.bid) THEN [w EXCEPT !.broke = TRUE]
                        ELSE IF s[i].user = w.bid.user THEN [w EXCEPT !.bid = s[i]]
                        ELSE w
    BY <1>3 DEF Turn
  <2> HIDE DEF w
  <2>4. CASE i < m
    <3>1. w = [bid |-> s[i-1], broke |-> FALSE] BY <2>2, <2>4, <1>1
    <3>2. s[i].user = s[1].user /\ s[i-1].user = s[1].user
      BY <2>1, <2>4, <1>1 DEF IsStop
    <3>3. Turn(f, s, i) = [bid |-> s[i], broke |-> FALSE]
      BY <3>1, <3>2, <2>3 DEF Breaks
    <3> QED BY <3>3, <2>4 DEF Walked
  <2>5. CASE i = m
    <3>1. w = [bid |-> s[m-1], broke |-> FALSE] BY <2>2, <2>5, <1>1
    <3>2. m - 1 \in 1 .. m - 1 /\ m <= Len(s) BY <2>5, <1>1
    <3>3. s[i].user # s[m-1].user BY <3>2, <2>5 DEF IsStop
    <3>4. Turn(f, s, i) = [bid |-> s[m-1], broke |-> TRUE]
      BY <3>1, <3>3, <2>3 DEF Breaks
    <3>5. ~(i < m) BY <2>5, <1>1
    <3> QED BY <3>4, <3>5 DEF Walked
  <2>6. CASE i > m
    <3>1. w = [bid |-> s[m-1], broke |-> TRUE] BY <2>2, <2>6, <1>1
    <3>2. Turn(f, s, i) = [bid |-> s[m-1], broke |-> TRUE] BY <3>1, <2>3
    <3>3. ~(i < m) BY <2>6, <1>1
    <3> QED BY <3>2, <3>3 DEF Walked
  <2> QED BY <2>4, <2>5, <2>6, <1>1
<1> QED BY <1>2, <1>3

Walks(f, s) ==
  f = [i \in 1..Len(s) |->
         IF i = 1 THEN [bid |-> s[1], broke |-> FALSE]
         ELSE LET w == f[i-1] IN
              IF w.broke \/ Breaks(s[i], w.bid) THEN [w EXCEPT !.broke = TRUE]
              ELSE IF s[i].user = w.bid.user THEN [w EXCEPT !.bid = s[i]] ELSE w]

LEMMA WalksOnce ==
  ASSUME NEW s, Len(s) \in Nat \ {0}, NEW m, IsStop(s, m), NEW f, Walks(f, s)
  PROVE  \A i \in 1..Len(s) : f[i] = Walked(s, m)[i]
<1> DEFINE Bad == {i \in 1..Len(s) : f[i] # Walked(s, m)[i]}
<1> SUFFICES ASSUME Bad # {} PROVE FALSE OBVIOUS
<1>1. Bad \in SUBSET Nat OBVIOUS
<1>2. PICK i \in Bad : \A j \in Bad : i <= j
  <2> HIDE DEF Bad
  <2> QED BY <1>1, LeastNumber
<1>3. i \in 1..Len(s) /\ f[i] # Walked(s, m)[i] BY <1>2
<1>4. i # 1 => f[i-1] = Walked(s, m)[i-1]
  <2>1. i # 1 => i - 1 \in 1..Len(s) /\ ~(i <= i - 1) BY <1>3
  <2>2. i # 1 => i - 1 \notin Bad
    <3> HIDE DEF Bad
    <3> QED BY <1>2, <2>1, SMTT(30)
  <2> QED BY <2>1, <2>2
<1>5. f[i] = Turn(f, s, i) BY <1>3 DEF Walks, Turn
<1> HIDE DEF Bad
<1>6. Turn(f, s, i) = Walked(s, m)[i] BY <1>3, <1>4, TurnIs
<1> QED BY <1>3, <1>5, <1>6

LEMMA WinnerBidIs ==
  ASSUME NEW s, Len(s) \in Nat \ {0}, NEW m, IsStop(s, m)
  PROVE  WinnerBid(s) = s[m-1]
<1> DEFINE g == Walked(s, m)
<1>1. Walks(g, s)
  <2>1. \A i \in 1..Len(s) : Turn(g, s, i) = g[i] BY TurnIs
  <2>2. g = [i \in 1..Len(s) |-> g[i]] BY DEF Walked
  <2> HIDE DEF g
  <2>3. g = [i \in 1..Len(s) |-> Turn(g, s, i)] BY <2>1, <2>2
  <2> QED BY <2>3 DEF Walks, Turn
<1> DEFINE walk == CHOOSE f : Walks(f, s)
<1>2. Walks(walk, s) BY <1>1
<1>3. WinnerBid(s) = walk[Len(s)].bid BY DEF WinnerBid, Walks
<1> HIDE DEF walk
<1>4. walk[Len(s)] = g[Len(s)] BY <1>2, WalksOnce
<1>5. g[Len(s)].bid = s[m-1]
  <2>1. m \in 2 .. Len(s) + 1 BY DEF IsStop
  <2>2. CASE Len(s) < m
    <3>1. m - 1 = Len(s) BY <2>1, <2>2
    <3> QED BY <3>1, <2>2 DEF Walked
  <2>3. CASE ~(Len(s) < m) BY <2>3 DEF Walked
  <2> QED BY <2>2, <2>3
<1> QED BY <1>3, <1>4, <1>5

(* What both together find, of any rows.                                   *)
LEMMA WinnerIs ==
  ASSUME NEW S \in SUBSET Bid, IsFiniteSet(S), S # {}, NEW s \in SortedBids(S)
  PROVE  LET w == WinnerBid(s) IN
         /\ w \in S
         /\ \A c \in S : c.user # w.user => NotAfter(w, c)
         /\ \A b \in S : b # w /\ b.user = w.user =>
              NotAfter(b, w) \/ \E c \in S : c.user # w.user /\ NotAfter(c, b)
<1>1. s \in Sorted(S) BY SortedBidsAre
<1>2. s \in Seq(S) /\ Len(s) \in Nat /\ \A i \in 1..Len(s) : s[i] \in S
  BY <1>1, LenProperties, ElementOfSeq DEF Sorted
<1>3. Len(s) \in Nat \ {0}
  <2>1. PICK b \in S : TRUE OBVIOUS
  <2>2. \E i \in 1..Len(s) : s[i] = b BY <1>1 DEF Sorted
  <2> QED BY <2>2, <1>2
<1>4. PICK m : IsStop(s, m) BY <1>3, StopExists
<1> DEFINE k == m - 1
<1>5. /\ k \in 1..Len(s) /\ m = k + 1
      /\ \A i \in 1..k : s[i].user = s[1].user
      /\ m <= Len(s) => s[m].user # s[1].user
  BY <1>3, <1>4 DEF IsStop
<1>6. WinnerBid(s) = s[k] BY <1>3, <1>4, WinnerBidIs
<1> HIDE DEF k
<1>7. s[k].user = s[1].user BY <1>5
<1>8. \A i, j \in 1..Len(s) : i < j => NotAfter(s[i], s[j]) BY <1>1 DEF Sorted
<1>9. ASSUME NEW c \in S, c.user # s[k].user PROVE NotAfter(s[k], c)
  <2>1. PICK j \in 1..Len(s) : s[j] = c BY <1>1 DEF Sorted
  <2>2. j \notin 1..k BY <2>1, <1>5, <1>7, <1>9
  <2>3. k < j BY <2>2, <1>5
  <2> QED BY <2>1, <2>3, <1>5, <1>8
<1>10. ASSUME NEW b \in S, b # s[k], b.user = s[k].user
       PROVE  NotAfter(b, s[k]) \/ \E c \in S : c.user # s[k].user /\ NotAfter(c, b)
  <2>1. PICK j \in 1..Len(s) : s[j] = b BY <1>1 DEF Sorted
  <2>2. CASE j < k BY <2>1, <2>2, <1>5, <1>8
  <2>3. CASE j > k
    <3>1. m \in 1..Len(s) BY <2>3, <1>5
    <3>2. s[m] \in S /\ s[m].user # s[k].user BY <3>1, <1>2, <1>5, <1>7
    <3>3. m # j BY <3>2, <2>1, <1>10
    <3>4. m < j BY <3>3, <2>3, <1>5
    <3>5. NotAfter(s[m], b) BY <3>1, <3>4, <2>1, <1>8
    <3> QED BY <3>2, <3>5
  <2>4. j # k BY <2>1, <1>10
  <2> QED BY <2>2, <2>3, <2>4, <1>5
<1> QED BY <1>2, <1>5, <1>6, <1>9, <1>10

(* However many bids and bidders there are and in whatever order equal     *)
(* rows come, the winner is the cheapest bid of its user above all rivals. *)
THEOREM WinnerIsCorrect == Spec => []WinnerCorrect
<1>1. TypeOK => WinnerCorrect
  <2> SUFFICES ASSUME TypeOK, bids # {}, NEW s \in SortedBids(bids)
               PROVE  LET w == WinnerBid(s)
                          Rivals == {b \in bids : b.user # w.user} IN
                      /\ \A b \in Rivals : b.amount <= w.amount
                      /\ \A b \in bids \ Rivals :
                           b.amount < w.amount => \E c \in Rivals : c.amount >= b.amount
    BY DEF WinnerCorrect
  <2> DEFINE w == WinnerBid(s)
  <2>1. bids \in SUBSET Bid /\ IsFiniteSet(bids) BY DEF TypeOK
  <2>2. /\ w \in bids
        /\ \A c \in bids : c.user # w.user => NotAfter(w, c)
        /\ \A b \in bids : b # w /\ b.user = w.user =>
              NotAfter(b, w) \/ \E c \in bids : c.user # w.user /\ NotAfter(c, b)
    BY <2>1, WinnerIs
  <2>3. \A b \in bids : b.amount \in Nat BY <2>1, BidFields
  <2> HIDE DEF w
  <2>4. ASSUME NEW b \in bids, b.user # w.user PROVE b.amount <= w.amount
    BY <2>2, <2>3, <2>4 DEF NotAfter
  <2>5. ASSUME NEW b \in bids, b.user = w.user, b.amount < w.amount
        PROVE  \E c \in bids : c.user # w.user /\ c.amount >= b.amount
    <3>1. b # w BY <2>2, <2>3, <2>5
    <3>2. ~NotAfter(b, w) BY <2>2, <2>3, <2>5 DEF NotAfter
    <3>3. PICK c \in bids : c.user # w.user /\ NotAfter(c, b) BY <3>1, <3>2, <2>2, <2>5
    <3>4. c.amount >= b.amount BY <3>3, <2>3 DEF NotAfter
    <3> QED BY <3>3, <3>4
  <2> QED BY <2>4, <2>5 DEF w
<1> QED BY <1>1, TypeCorrect, PTL

-----------------------------------------------------------------------------
(* Who is carried as winner has paid.  The rows of the ledger lose their   *)
(* bid when it is deleted, never their type, user or amount.               *)

LEMMA RowsKept ==
  ASSUME TypeInv, [Next]_vars, NEW row \in Rows(ledger)
  PROVE  \E x \in Rows(ledger') :
           x.type = row.type /\ x.user = row.user /\ x.amount = row.amount
<1>1. CASE Quiet BY <1>1 DEF Quiet, Rows
<1>2. ASSUME NEW r \in Requests, CommitBid(r) PROVE row \in Rows(ledger')
  BY <1>2, RowsBid
<1>3. ASSUME NEW r \in Requests, CommitHidden(r) PROVE row \in Rows(ledger')
  BY <1>3, RowsHidden
<1>4. ASSUME NEW r \in Requests, CommitDeposit(r) PROVE row \in Rows(ledger')
  BY <1>4, RowsDeposit
<1>5. ASSUME NEW r \in Requests, CommitClose(r)
      PROVE  \E x \in Rows(ledger') :
               x.type = row.type /\ x.user = row.user /\ x.amount = row.amount
  <2> DEFINE l == ledger \o RefundRow(req[r])
  <2>1. ledger' = SetNull(l) BY <1>5 DEF CommitClose
  <2>2. l \in Seq(Row) /\ Rows(l) = Rows(ledger) \cup Rows(RefundRow(req[r]))
    <3>1. ledger \in Seq(Row) /\ RefundRow(req[r]) \in Seq(Row)
      BY RefundRowType DEF TypeInv, TypeOK
    <3> QED BY <3>1, Appended, RowsAppended
  <2>3. Len(l) \in Nat /\ \A i \in 1..Len(l) : l[i] \in Row
    BY <2>2, LenProperties, ElementOfSeq
  <2> HIDE DEF l
  <2>4. PICK i \in 1..Len(l) : l[i] = row BY <2>2 DEF Rows
  <2>5. /\ Len(SetNull(l)) = Len(l)
        /\ SetNull(l)[i] = [l[i] EXCEPT !.bid = Null]
    BY <2>3 DEF SetNull
  <2>6. SetNull(l)[i] \in Rows(ledger') BY <2>1, <2>5 DEF Rows
  <2>7. l[i] \in Row BY <2>3
  <2>8. /\ SetNull(l)[i].type = row.type /\ SetNull(l)[i].user = row.user
        /\ SetNull(l)[i].amount = row.amount
    BY <2>4, <2>5, <2>7 DEF Row
  <2> QED BY <2>6, <2>8
<1> QED BY <1>1, <1>2, <1>3, <1>4, <1>5, StepKinds

PaidFor(b, rows) ==
  \E row \in rows :
    row.type = "BID_PAYMENT" /\ row.user = b.user /\ row.amount >= b.amount

(* The bids and those the requests carry are paid for.                     *)
PaidInv ==
  /\ \A b \in bids : PaidFor(b, Rows(ledger))
  /\ \A r \in Requests : req[r].last # NoBid => PaidFor(req[r].last, Rows(ledger))

LEMMA PaidKept ==
  ASSUME TypeInv, [Next]_vars, NEW b, PaidFor(b, Rows(ledger))
  PROVE  PaidFor(b, Rows(ledger'))
<1>1. PICK row \in Rows(ledger) :
        row.type = "BID_PAYMENT" /\ row.user = b.user /\ row.amount >= b.amount
  BY DEF PaidFor
<1>2. PICK x \in Rows(ledger') :
        x.type = row.type /\ x.user = row.user /\ x.amount = row.amount
  BY RowsKept
<1> QED BY <1>1, <1>2 DEF PaidFor

(* A bid is inserted together with its payment.                            *)
LEMMA PaidStep == TypeInv /\ PaidInv /\ [Next]_vars => PaidInv'
<1> SUFFICES ASSUME TypeInv, PaidInv, [Next]_vars
             PROVE  /\ \A b \in bids' : PaidFor(b, Rows(ledger'))
                    /\ \A r \in Requests :
                         req'[r].last # NoBid => PaidFor(req'[r].last, Rows(ledger'))
  BY DEF PaidInv, PaidFor, Rows
<1>1. /\ \A b \in bids : PaidFor(b, Rows(ledger'))
      /\ \A r \in Requests :
           req[r].last # NoBid => PaidFor(req[r].last, Rows(ledger'))
  BY PaidKept DEF PaidInv
<1>2. CASE Quiet
  <2>1. bids' = bids /\ \A r \in Requests : req'[r] = req[r] \/ Moves(r)
    BY <1>2 DEF Quiet
  <2> QED BY <2>1, <1>1 DEF Moves
<1>i. Idle.last = NoBid BY DEF Idle
<1>3. ASSUME NEW r \in Requests, Goto(r, Idle),
             \A b \in bids' : b \in bids \/ PaidFor(b, Rows(ledger'))
      PROVE  /\ \A b \in bids' : PaidFor(b, Rows(ledger'))
             /\ \A s \in Requests :
                  req'[s].last # NoBid => PaidFor(req'[s].last, Rows(ledger'))
  <2>1. req'[r] = Idle /\ \A s \in Requests \ {r} : req'[s] = req[s]
    BY <1>3, CommitFrame
  <2> QED BY <2>1, <1>1, <1>3, <1>i
<1>4. ASSUME NEW r \in Requests, CommitBid(r)
      PROVE  Goto(r, Idle) /\ \A b \in bids' : b \in bids \/ PaidFor(b, Rows(ledger'))
  <2>1. PICK row :
          /\ Rows(ledger') = Rows(ledger) \cup Rows(RefundRow(req[r])) \cup {row}
          /\ row.type = "BID_PAYMENT" /\ row.user = req[r].user
          /\ row.amount \in req[r].amounts
          /\ bids' = bids \cup
               {[id |-> nextId, user |-> req[r].user, amount |-> row.amount,
                 hidden |-> FALSE, at |-> now]}
    BY <1>4, RowsBid
  <2>2. row.amount \in Nat
    <3>1. row.amount \in Amounts
      BY <1>4, <2>1 DEF CommitBid, TypeInv, CarriesOK
    <3> QED BY <3>1, ConstantsAssumption
  <2>3. row \in Rows(ledger') /\ row.amount >= row.amount BY <2>1, <2>2
  <2>4. ASSUME NEW b \in bids', b \notin bids PROVE PaidFor(b, Rows(ledger'))
    <3>1. b.user = row.user /\ b.amount = row.amount BY <2>1, <2>4
    <3> QED BY <3>1, <2>1, <2>3 DEF PaidFor
  <2> QED BY <2>4, <1>4 DEF CommitBid
<1>5. ASSUME NEW r \in Requests, CommitHidden(r)
      PROVE  Goto(r, Idle) /\ \A b \in bids' : b \in bids \/ PaidFor(b, Rows(ledger'))
  <2>1. PICK row : /\ Rows(ledger') = Rows(ledger) \cup {row}
                   /\ row.type = "BID_PAYMENT" /\ row.user = req[r].user
                   /\ \A a \in req[r].amounts : a <= row.amount
                   /\ row.amount = Charge(req[r].amounts)
    BY <1>5, RowsHidden
  <2>2. bids' = bids \cup HiddenRows(req[r]) BY <1>5 DEF CommitHidden
  <2>3. \A a \in req[r].amounts : row.amount >= a
    <3>1. req[r].amounts \subseteq Nat
      BY <1>5, ConstantsAssumption DEF CommitHidden, TypeInv, CarriesOK
    <3>2. row.amount \in Nat
      <4>1. req[r].amounts \in SUBSET Amounts /\ req[r].amounts # {}
        BY <1>5 DEF CommitHidden, TypeInv, CarriesOK
      <4>2. req[r].amounts \subseteq Int /\ IsFiniteSet(req[r].amounts)
        BY <4>1, <3>1, FiniteAmounts
      <4>3. Charge(req[r].amounts) \in req[r].amounts
        BY <4>1, <4>2, MaxOfFinite DEF Charge
      <4> QED BY <4>3, <2>1, <3>1
    <3> QED BY <2>1, <3>1, <3>2
  <2>4. ASSUME NEW b \in HiddenRows(req[r]) PROVE PaidFor(b, Rows(ledger'))
    <3>1. b.user = req[r].user /\ b.amount \in req[r].amounts
      BY <2>4, <1>5, HiddenRowsType DEF CommitHidden
    <3> QED BY <3>1, <2>1, <2>3 DEF PaidFor
  <2> QED BY <2>2, <2>4, <1>5 DEF CommitHidden
<1>6. ASSUME NEW r \in Requests, CommitClose(r) \/ CommitDeposit(r)
      PROVE  Goto(r, Idle) /\ \A b \in bids' : b \in bids
  BY <1>6 DEF CommitClose, CommitDeposit
<1> QED BY <1>2, <1>3, <1>4, <1>5, <1>6, StepKinds

(* Ending an auction names a user who has paid the price or more, also     *)
(* when the bids were deleted by a close after endAuction read them.       *)
THEOREM WinnerHasPaidCorrect == Spec => WinnerHasPaid
<1>1. Init => PaidInv BY DEF Init, Idle, PaidInv
<1>2. Spec => []PaidInv BY <1>1, PaidStep, InitTypeInv, TypeStep, PTL DEF Spec
<1>3. PaidInv /\ [Next]_vars =>
        [\A r \in Requests :
           CommitEnd(r) /\ req[r].last # NoBid =>
             \E i \in RowsOf(req[r].last.user, {"BID_PAYMENT"}) :
               ledger[i].amount >= req[r].last.amount]_vars
  BY DEF PaidInv, PaidFor, Rows, RowsOf
<1> QED BY <1>2, <1>3, PTL DEF Spec, WinnerHasPaid

-----------------------------------------------------------------------------
(* The money of the bidders.  What the bids and the rows say is written    *)
(* without the state, so that one lemma serves for before and after.       *)

Saldo(rows, u) ==
  SumIn(rows, u, {"BID_PAYMENT"}) - SumIn(rows, u, {"BID_REFUND"})

Shown(B) == {b \in B : ~b.hidden}
Top(B) == {b \in Shown(B) : \A c \in Shown(B) : c.id <= b.id}
Concealed(B, u) == {b \in B : b.hidden /\ b.user = u}
DueOf(B, u) == Largest({b \in Top(B) : b.user = u}) + Largest(Concealed(B, u))

LEMMA Terms ==
  /\ \A u : Net(u) = Saldo(ledger, u) /\ Net(u)' = Saldo(ledger', u)
  /\ \A u : Due(u) = DueOf(bids, u) /\ Due(u)' = DueOf(bids', u)
  /\ Public = Shown(bids) /\ Public' = Shown(bids')
  /\ LastPublic = Top(bids) /\ LastPublic' = Top(bids')
  /\ \A u : HiddenOf(u) = Concealed(bids, u)
<1>1. Public = Shown(bids) /\ Public' = Shown(bids') BY DEF Public, Shown
<1>2. LastPublic = Top(bids) /\ LastPublic' = Top(bids')
  BY <1>1 DEF LastPublic, Top
<1>3. \A u : HiddenOf(u) = Concealed(bids, u) /\ HiddenOf(u)' = Concealed(bids', u)
  BY DEF HiddenOf, Concealed
<1>4. \A u : Due(u) = DueOf(bids, u) /\ Due(u)' = DueOf(bids', u)
  BY <1>2, <1>3 DEF Due, DueOf, Largest
<1>5. \A u : Net(u) = Saldo(ledger, u) /\ Net(u)' = Saldo(ledger', u)
  BY DEF Net, Saldo, SumIn, OfUser, AmountIn, Total, RowsOf
<1> QED BY <1>1, <1>2, <1>3, <1>4, <1>5

LEMMA LargestIs ==
  ASSUME NEW S \in SUBSET Bid, IsFiniteSet(S)
  PROVE  /\ Largest(S) \in Nat
         /\ S = {} => Largest(S) = 0
         /\ \A b \in S : b.amount <= Largest(S)
         /\ Largest(S) = 0 \/ \E b \in S : Largest(S) = b.amount
<1> DEFINE amount == [b \in S |-> b.amount]
           A == {b.amount : b \in S}
<1>1. amount \in Surjection(S, A) BY DEF Surjection
<1>2. IsFiniteSet(A) BY <1>1, FS_Surjection DEF ExistsSurjection
<1>3. A \subseteq Nat BY BidFields
<1>4. IsFiniteSet({0} \cup A)
  <2>1. {0} \cup A = A \cup {0} OBVIOUS
  <2> HIDE DEF A
  <2> QED BY <2>1, <1>2, FS_AddElement
<1> DEFINE B == {0} \cup A
<1>5. Largest(S) = Max(B) BY DEF Largest
<1>6. B \subseteq Nat /\ B \subseteq Int /\ B # {} /\ 0 \in B
  <2> HIDE DEF A
  <2> QED BY <1>3
<1>7. \A b \in S : b.amount \in B OBVIOUS
<1>8. \A x \in B : x = 0 \/ \E b \in S : x = b.amount OBVIOUS
<1>9. IsFiniteSet(B) BY <1>4
<1>10. S = {} => B = {0} OBVIOUS
<1> HIDE DEF B
<1>11. Max(B) \in B /\ \A x \in B : x <= Max(B) BY <1>6, <1>9, MaxOfFinite
<1> QED BY <1>5, <1>6, <1>7, <1>8, <1>10, <1>11

LEMMA DueType ==
  ASSUME NEW B \in SUBSET Bid, IsFiniteSet(B), NEW u
  PROVE  /\ DueOf(B, u) \in Nat
         /\ Largest({b \in Top(B) : b.user = u}) \in Nat
         /\ Largest(Concealed(B, u)) \in Nat
         /\ \A b \in B : b.user = u /\ (b.hidden \/ b \in Top(B)) =>
              b.amount <= DueOf(B, u)
<1> DEFINE T == {b \in Top(B) : b.user = u}
           H == Concealed(B, u)
<1>1. T \in SUBSET Bid /\ H \in SUBSET Bid /\ T \in SUBSET B /\ H \in SUBSET B
  BY DEF Top, Shown, Concealed
<1>2. IsFiniteSet(T) /\ IsFiniteSet(H) BY <1>1, FS_Subset
<1>3. DueOf(B, u) = Largest(T) + Largest(H) BY DEF DueOf
<1>4. \A b \in B : b.user = u /\ (b.hidden \/ b \in Top(B)) => b \in T \/ b \in H
  BY DEF Concealed
<1> HIDE DEF T, H
<1>5. Largest(T) \in Nat /\ Largest(H) \in Nat BY <1>1, <1>2, LargestIs
<1>6. ASSUME NEW b \in B, b.user = u /\ (b.hidden \/ b \in Top(B))
      PROVE  b.amount <= DueOf(B, u)
  <2>1. b \in Bid /\ b.amount \in Nat BY BidFields
  <2>2. CASE b \in T
    <3>1. b.amount <= Largest(T) BY <2>2, <1>1, <1>2, LargestIs
    <3> QED BY <3>1, <2>1, <1>3, <1>5
  <2>3. CASE b \in H
    <3>1. b.amount <= Largest(H) BY <2>3, <1>1, <1>2, LargestIs
    <3> QED BY <3>1, <2>1, <1>3, <1>5
  <2> QED BY <2>2, <2>3, <1>4, <1>6
<1> QED BY <1>3, <1>5, <1>6 DEF T, H

LEMMA SaldoType ==
  ASSUME NEW rows \in Seq(Row), NEW u
  PROVE  Saldo(rows, u) \in Int
<1>1. /\ SumIn(rows, u, {"BID_PAYMENT"}) \in Nat
      /\ SumIn(rows, u, {"BID_REFUND"}) \in Nat
  BY RowsCount
<1> QED BY <1>1 DEF Saldo

(* What one more row is worth to the auction.                              *)
Kept(type, amount) ==
  IF type = "BID_PAYMENT" THEN amount ELSE IF type = "BID_REFUND" THEN -amount ELSE 0

LEMMA SaldoAppend ==
  ASSUME NEW rows \in Seq(Row), NEW type \in {"DEPOSIT", "BID_PAYMENT", "BID_REFUND"},
         NEW v \in Users, NEW amount \in Nat, NEW bid \in Nat, NEW after \in Int, NEW u
  PROVE  /\ rows \o Row1(type, v, amount, bid, after) \in Seq(Row)
         /\ Saldo(rows \o Row1(type, v, amount, bid, after), u) =
              Saldo(rows, u) + IF u = v THEN Kept(type, amount) ELSE 0
<1> DEFINE m == Row1(type, v, amount, bid, after)
           pay == {"BID_PAYMENT"}
           refund == {"BID_REFUND"}
<1>1. /\ m \in Seq(Row) /\ Len(m) = 1
      /\ m[1] = [type |-> type, user |-> v, amount |-> amount, bid |-> bid,
                 balanceAfter |-> after]
  BY DEF Row1, Row
<1> HIDE DEF m
<1>2. m[1].type = type /\ m[1].user = v /\ m[1].amount = amount
  BY <1>1
<1>3. /\ SumIn(rows, u, pay) \in Nat /\ SumIn(rows, u, refund) \in Nat
  BY RowsCount
<1>4. /\ rows \o m \in Seq(Row)
      /\ SumIn(rows \o m, u, pay) = SumIn(rows, u, pay) +
           IF m[1].user = u /\ m[1].type \in pay THEN m[1].amount ELSE 0
  BY <1>1, SumAppend
<1>5. SumIn(rows \o m, u, refund) = SumIn(rows, u, refund) +
        IF m[1].user = u /\ m[1].type \in refund THEN m[1].amount ELSE 0
  BY <1>1, SumAppend
<1>6. /\ Saldo(rows \o m, u) = SumIn(rows \o m, u, pay) - SumIn(rows \o m, u, refund)
      /\ Saldo(rows, u) = SumIn(rows, u, pay) - SumIn(rows, u, refund)
  BY DEF Saldo
<1> DEFINE p == SumIn(rows, u, pay)
           q == SumIn(rows, u, refund)
           pp == SumIn(rows \o m, u, pay)
           qq == SumIn(rows \o m, u, refund)
<1>7. /\ pp = p + IF v = u /\ type = "BID_PAYMENT" THEN amount ELSE 0
      /\ qq = q + IF v = u /\ type = "BID_REFUND" THEN amount ELSE 0
  BY <1>2, <1>4, <1>5
<1>8. pp - qq = p - q + IF u = v THEN Kept(type, amount) ELSE 0
  <2> HIDE DEF p, q, pp, qq
  <2>1. p \in Nat /\ q \in Nat BY <1>3 DEF p, q
  <2>2. CASE u # v BY <2>2, <2>1, <1>7
  <2>3. CASE u = v /\ type = "BID_PAYMENT" BY <2>3, <2>1, <1>7 DEF Kept
  <2>4. CASE u = v /\ type = "BID_REFUND" BY <2>4, <2>1, <1>7 DEF Kept
  <2>5. CASE u = v /\ type = "DEPOSIT" BY <2>5, <2>1, <1>7 DEF Kept
  <2> QED BY <2>2, <2>3, <2>4, <2>5
<1>9. Saldo(rows \o m, u) = Saldo(rows, u) + IF u = v THEN Kept(type, amount) ELSE 0
  BY <1>6, <1>8
<1> QED BY <1>4, <1>9 DEF m

(* What each transaction adds to the money held of u.                      *)
LEMMA BidSaldo ==
  ASSUME TypeInv, NEW r \in Requests, CommitBid(r), NEW a \in req[r].amounts,
         ledger' = ledger \o RefundRow(req[r])
                          \o Row1("BID_PAYMENT", req[r].user, a, Null, req[r].funds - a),
         NEW u
  PROVE  LET q == req[r] IN
         Saldo(ledger', u) = Saldo(ledger, u)
           - (IF q.last # NoBid /\ u = q.last.user THEN q.last.amount ELSE 0)
           + (IF u = q.user THEN a ELSE 0)
<1> DEFINE q == req[r]
           first == ledger \o RefundRow(q)
           back == IF q.last # NoBid /\ u = q.last.user THEN q.last.amount ELSE 0
<1>1. /\ q \in Request /\ q.op = "bid" /\ CarriesOK(q) /\ ledger \in Seq(Row)
  BY DEF CommitBid, TypeInv, TypeOK
<1>2. /\ q.user \in Users /\ a \in Nat /\ q.funds \in Int
  BY <1>1, ConstantsAssumption DEF CarriesOK, Request
<1>3. first \in Seq(Row) /\ back \in Int /\ Saldo(first, u) = Saldo(ledger, u) - back
  <2>0. Saldo(ledger, u) \in Int BY <1>1, SaldoType
  <2>1. CASE q.last = NoBid
    <3>1. RefundRow(q) = <<>> BY <2>1 DEF RefundRow
    <3>2. first = ledger BY <3>1, <1>1
    <3>3. back = 0 BY <2>1
    <3> HIDE DEF first, back
    <3> QED BY <3>2, <3>3, <2>0, <1>1
  <2>2. CASE q.last # NoBid
    <3> DEFINE v == q.last.user
               x == q.last.amount
               id == q.last.id
               after == q.funds + x
    <3>1. q.last \in Bid BY <2>2, <1>1 DEF Request
    <3>2. v \in Users /\ x \in Nat /\ x \in Int /\ id \in Nat
      BY <3>1, BidFields
    <3>3. after \in Int BY <3>2, <1>2
    <3>4. first = ledger \o Row1("BID_REFUND", v, x, id, after)
      BY <2>2 DEF RefundRow
    <3>5. back = IF u = v THEN x ELSE 0 BY <2>2
    <3> HIDE DEF first, back, v, x, id, after
    <3>6. /\ first \in Seq(Row)
          /\ Saldo(first, u) = Saldo(ledger, u) + IF u = v THEN Kept("BID_REFUND", x) ELSE 0
      BY <3>2, <3>3, <3>4, <1>1, SaldoAppend
    <3>7. Kept("BID_REFUND", x) = -x BY DEF Kept
    <3> QED BY <3>2, <3>5, <3>6, <3>7, <2>0
  <2> QED BY <2>1, <2>2
<1> DEFINE w == q.user
           after == q.funds - a
<1>4. w \in Users /\ after \in Int /\ Null \in Nat BY <1>2 DEF Null
<1>5. ledger' = first \o Row1("BID_PAYMENT", w, a, Null, after) OBVIOUS
<1> HIDE DEF first, w, after, back, q
<1>6. Saldo(ledger', u) = Saldo(first, u) + IF u = w THEN Kept("BID_PAYMENT", a) ELSE 0
  <2>1. a \in Nat /\ first \in Seq(Row) BY <1>2, <1>3
  <2>2. Saldo(first \o Row1("BID_PAYMENT", w, a, Null, after), u)
          = Saldo(first, u) + IF u = w THEN Kept("BID_PAYMENT", a) ELSE 0
    BY <2>1, <1>4, SaldoAppend
  <2> QED BY <2>2, <1>5
<1>7. Kept("BID_PAYMENT", a) = a BY DEF Kept
<1>8. Saldo(ledger', u) = Saldo(ledger, u) - back + (IF u = w THEN a ELSE 0)
  BY <1>3, <1>6, <1>7
<1> QED BY <1>8 DEF w, back, q

LEMMA HiddenSaldo ==
  ASSUME TypeInv, NEW r \in Requests, CommitHidden(r), NEW u
  PROVE  /\ Charge(req[r].amounts) \in Nat
         /\ Saldo(ledger', u) = Saldo(ledger, u) +
              IF u = req[r].user THEN Charge(req[r].amounts) ELSE 0
<1> DEFINE q == req[r]
           v == q.user
           paid == Charge(q.amounts)
           after == q.funds - paid
<1>1. q.op = "hidden" /\ ledger' = ledger \o Row1("BID_PAYMENT", v, paid, Null, after)
  BY DEF CommitHidden
<1>2. /\ q.amounts \in SUBSET Amounts /\ q.amounts # {} /\ v \in Users
      /\ ledger \in Seq(Row) /\ q.funds \in Int
  BY <1>1 DEF TypeInv, TypeOK, CarriesOK, Request
<1>3. paid \in Nat
  <2>1. IsFiniteSet(q.amounts) /\ q.amounts \subseteq Nat /\ q.amounts \subseteq Int
    BY <1>2, FiniteAmounts
  <2> QED BY <2>1, <1>2, MaxOfFinite DEF Charge
<1>4. after \in Int /\ Null \in Nat
  <2> HIDE DEF paid
  <2> QED BY <1>2, <1>3 DEF Null
<1> HIDE DEF q, v, paid, after
<1>5. Saldo(ledger', u) = Saldo(ledger, u) + IF u = v THEN Kept("BID_PAYMENT", paid) ELSE 0
  BY <1>1, <1>2, <1>3, <1>4, SaldoAppend
<1>6. Kept("BID_PAYMENT", paid) = paid BY DEF Kept
<1> QED BY <1>3, <1>5, <1>6 DEF q, v, paid

LEMMA DepositSaldo ==
  ASSUME TypeInv, NEW r \in Requests, CommitDeposit(r), NEW u
  PROVE  Saldo(ledger', u) = Saldo(ledger, u)
<1> DEFINE v == req[r].user
<1>1. PICK d \in req[r].amounts :
        ledger' = ledger \o Row1("DEPOSIT", v, d, Null, balance[v] + d)
  BY DEF CommitDeposit
<1>2. /\ v \in Users /\ d \in Nat /\ balance \in [Users -> Int] /\ ledger \in Seq(Row)
  BY <1>1, ConstantsAssumption DEF CommitDeposit, TypeInv, TypeOK, CarriesOK
<1> DEFINE after == balance[v] + d
<1>3. after \in Int /\ Null \in Nat /\ ledger' = ledger \o Row1("DEPOSIT", v, d, Null, after)
  BY <1>1, <1>2 DEF Null
<1> HIDE DEF v, after
<1>4. Saldo(ledger', u) = Saldo(ledger, u) + IF u = v THEN Kept("DEPOSIT", d) ELSE 0
  BY <1>2, <1>3, SaldoAppend
<1>5. Kept("DEPOSIT", d) = 0 BY DEF Kept
<1> QED BY <1>2, <1>4, <1>5, SaldoType

-----------------------------------------------------------------------------
(* Money and dues move together.                                           *)

(* A public bid that replaces the last one: one bid is due instead of the  *)
(* other, and as much is held.                                             *)
LEMMA BidMoney ==
  ASSUME Inv, NEW r \in Requests, CommitBid(r), ReplacesLast(req[r]), NEW u
  PROVE  Saldo(ledger', u) - DueOf(bids', u) = Saldo(ledger, u) - DueOf(bids, u)
<1> DEFINE q == req[r]
<1>1. PICK a \in q.amounts :
        /\ bids' = bids \cup {[id |-> nextId, user |-> q.user, amount |-> a,
                               hidden |-> FALSE, at |-> now]}
        /\ ledger' = ledger \o RefundRow(q)
                            \o Row1("BID_PAYMENT", q.user, a, Null, q.funds - a)
  BY DEF CommitBid
<1> DEFINE new == [id |-> nextId, user |-> q.user, amount |-> a, hidden |-> FALSE,
                   at |-> now]
<1>2. /\ new.id = nextId /\ new.user = q.user /\ new.amount = a /\ ~new.hidden
      /\ bids' = bids \cup {new}
  BY <1>1
<1>3. new \in Bid
  <2>1. /\ q.user \in Users /\ a \in Amounts /\ nextId \in Nat \ {0} /\ now \in Nat
    BY DEF CommitBid, Inv, TypeInv, TypeOK, CarriesOK
  <2> QED BY <2>1 DEF Bid
<1> HIDE DEF new
<1>4. /\ bids \in SUBSET Bid /\ IsFiniteSet(bids) /\ ledger \in Seq(Row)
      /\ nextId \in Nat /\ \A b \in bids : b.id < nextId
  BY DEF Inv, TypeInv, TypeOK, LedgerInv, IdsOK
<1>5. a \in Nat /\ \A b \in bids : b.id \in Nat BY <1>2, <1>3, <1>4, BidFields
<1>6. Top(bids') = {new}
  <2>1. \A b \in bids : b.id \in Nat /\ ~(nextId <= b.id) /\ b.id <= nextId
    BY <1>4, <1>5
  <2>2. nextId <= nextId BY <1>4
  <2>3. Shown(bids') = Shown(bids) \cup {new} /\ Shown(bids) \subseteq bids
    BY <1>2 DEF Shown
  <2> QED BY <2>1, <2>2, <2>3, <1>2 DEF Top
<1>7. Concealed(bids', u) = Concealed(bids, u) BY <1>2 DEF Concealed
<1>8. Top(bids) = IF q.last = NoBid THEN {} ELSE {q.last}
  <2>1. CASE q.last = NoBid
    <3>1. Shown(bids) = {} BY <2>1, Terms DEF ReplacesLast
    <3> QED BY <3>1, <2>1 DEF Top
  <2>2. CASE q.last # NoBid
    <3>1. q.last \in Top(bids) BY <2>2, Terms DEF ReplacesLast
    <3>2. ASSUME NEW b \in Top(bids) PROVE b = q.last
      <4>1. b.id <= q.last.id /\ q.last.id <= b.id /\ b \in bids /\ q.last \in bids
        BY <3>1 DEF Top, Shown
      <4>2. b.id = q.last.id BY <4>1, <1>5
      <4> QED BY <4>1, <4>2 DEF Inv, LedgerInv, IdsOK
    <3> QED BY <3>1, <3>2, <2>2
  <2> QED BY <2>1, <2>2
<1>9. q.last # NoBid => q.last \in Bid
  BY DEF Inv, TypeInv, TypeOK, Request
<1> DEFINE in == IF u = q.user THEN a ELSE 0
           out == IF q.last # NoBid /\ u = q.last.user THEN q.last.amount ELSE 0
           Mine(B) == {b \in Top(B) : b.user = u}
           hid == Largest(Concealed(bids, u))
<1>10. DueOf(bids', u) = Largest(Mine(bids')) + hid /\ DueOf(bids, u) = Largest(Mine(bids)) + hid
  BY <1>7 DEF DueOf
<1>11. Saldo(ledger', u) = Saldo(ledger, u) - out + in
  BY <1>1, BidSaldo DEF Inv
<1>12. Largest({}) = 0 BY LargestIs, FS_EmptySet
<1>13. \A b \in Bid : Largest({b}) = b.amount
  <2> TAKE b \in Bid
  <2>1. {b} \in SUBSET Bid /\ IsFiniteSet({b}) BY FS_Singleton
  <2>2. /\ b.amount <= Largest({b}) /\ Largest({b}) \in Nat
        /\ Largest({b}) = 0 \/ Largest({b}) = b.amount
    BY <2>1, LargestIs
  <2> QED BY <2>2, BidFields
<1>14. Largest(Mine(bids')) = in
  <2>1. CASE u = q.user
    <3>1. Mine(bids') = {new} BY <2>1, <1>2, <1>6
    <3>2. in = a BY <2>1
    <3> HIDE DEF in, Mine
    <3> QED BY <3>1, <3>2, <1>2, <1>3, <1>13
  <2>2. CASE u # q.user
    <3>1. Mine(bids') = {} BY <2>2, <1>2, <1>6
    <3>2. in = 0 BY <2>2
    <3> HIDE DEF in, Mine
    <3> QED BY <3>1, <3>2, <1>12
  <2> QED BY <2>1, <2>2
<1>15. Largest(Mine(bids)) = out
  <2>1. CASE q.last # NoBid /\ u = q.last.user
    <3>1. Mine(bids) = {q.last} BY <2>1, <1>8
    <3>2. out = q.last.amount BY <2>1
    <3> HIDE DEF out, Mine
    <3> QED BY <2>1, <3>1, <3>2, <1>9, <1>13
  <2>2. CASE ~(q.last # NoBid /\ u = q.last.user)
    <3>1. Mine(bids) = {} BY <2>2, <1>8
    <3>2. out = 0 BY <2>2
    <3> HIDE DEF out, Mine
    <3> QED BY <3>1, <3>2, <1>12
  <2> QED BY <2>1, <2>2
<1>16. Saldo(ledger, u) \in Int /\ out \in Int /\ in \in Int /\ hid \in Int
  <2>1. Saldo(ledger, u) \in Int BY <1>4, SaldoType
  <2>2. hid \in Nat BY <1>4, DueType
  <2>3. in \in Int BY <1>5
  <2>4. out \in Int BY <1>9, BidFields
  <2> HIDE DEF in, out, hid
  <2> QED BY <2>1, <2>2, <2>3, <2>4
<1> HIDE DEF in, out, hid, Mine
<1> QED BY <1>10, <1>11, <1>14, <1>15, <1>16

(* A first hidden submission: its largest amount is due, and is paid.      *)
LEMMA HiddenMoney ==
  ASSUME Inv, NEW r \in Requests, CommitHidden(r), HiddenOf(req[r].user) = {}, NEW u
  PROVE  Saldo(ledger', u) - DueOf(bids', u) = Saldo(ledger, u) - DueOf(bids, u)
<1> DEFINE q == req[r]
           H == HiddenRows(q)
<1>1. q.op = "hidden" /\ q.pc = "tx" /\ bids' = bids \cup H
  BY DEF CommitHidden
<1>2. /\ H \in SUBSET Bid /\ IsFiniteSet(H)
      /\ \A b \in H : b.hidden /\ b.user = q.user
      /\ {b.amount : b \in H} = q.amounts
  BY <1>1, HiddenRowsType DEF Inv
<1>3. /\ bids \in SUBSET Bid /\ IsFiniteSet(bids) /\ ledger \in Seq(Row)
  BY DEF Inv, TypeInv, TypeOK
<1> HIDE DEF H
<1>4. Top(bids') = Top(bids)
  <2>1. Shown(bids') = Shown(bids) BY <1>1, <1>2 DEF Shown
  <2> QED BY <2>1 DEF Top
<1>5. Concealed(bids, q.user) = {} BY Terms
<1>6. Largest(H) = Charge(q.amounts) /\ Largest({}) = 0
  <2>1. Largest({}) = 0 BY LargestIs, FS_EmptySet
  <2>2. /\ q.amounts \in SUBSET Amounts /\ q.amounts # {}
    BY <1>1 DEF Inv, TypeInv, CarriesOK
  <2>3. IsFiniteSet(q.amounts) /\ q.amounts \subseteq Nat /\ q.amounts \subseteq Int
    BY <2>2, FiniteAmounts
  <2>4. /\ Charge(q.amounts) \in q.amounts
        /\ \A a \in q.amounts : a <= Charge(q.amounts)
    BY <2>2, <2>3, MaxOfFinite DEF Charge
  <2>5. /\ Largest(H) \in Nat /\ \A b \in H : b.amount <= Largest(H)
        /\ Largest(H) = 0 \/ \E b \in H : Largest(H) = b.amount
    BY <1>2, LargestIs
  <2>6. \A a \in q.amounts : a <= Largest(H) BY <1>2, <2>5
  <2>7. Largest(H) = 0 \/ Largest(H) \in q.amounts BY <1>2, <2>5
  <2>8. Charge(q.amounts) \in Nat /\ Charge(q.amounts) <= Largest(H) BY <2>3, <2>4, <2>6
  <2>9. Largest(H) <= Charge(q.amounts) BY <2>4, <2>5, <2>7, <2>8
  <2>10. Largest(H) = Charge(q.amounts) BY <2>5, <2>8, <2>9
  <2> QED BY <2>1, <2>10
<1>7. Saldo(ledger', u) - DueOf(bids', u) = Saldo(ledger, u) - DueOf(bids, u)
  <2> DEFINE top == Largest({b \in Top(bids) : b.user = u})
             paid == Charge(q.amounts)
  <2>1. /\ paid \in Nat
        /\ Saldo(ledger', u) = Saldo(ledger, u) + IF u = q.user THEN paid ELSE 0
    BY HiddenSaldo DEF Inv
  <2>2. Saldo(ledger, u) \in Int BY <1>3, SaldoType
  <2>3. top \in Nat BY <1>3, DueType
  <2>4. /\ DueOf(bids', u) = top + Largest(Concealed(bids', u))
        /\ DueOf(bids, u) = top + Largest(Concealed(bids, u))
    BY <1>4 DEF DueOf
  <2>5. Largest(Concealed(bids, u)) \in Nat BY <1>3, DueType
  <2> HIDE DEF top, paid, q
  <2>6. CASE u = q.user
    <3>1. Concealed(bids', u) = H BY <2>6, <1>1, <1>2, <1>5 DEF Concealed
    <3>2. /\ Largest(Concealed(bids', u)) = paid
          /\ Largest(Concealed(bids, u)) = 0
      BY <3>1, <2>6, <1>5, <1>6 DEF paid
    <3> QED BY <3>2, <2>1, <2>2, <2>3, <2>4, <2>6
  <2>7. CASE u # q.user
    <3>1. Concealed(bids', u) = Concealed(bids, u)
      BY <2>7, <1>1, <1>2 DEF Concealed
    <3> QED BY <3>1, <2>1, <2>2, <2>3, <2>4, <2>5, <2>7
  <2> QED BY <2>6, <2>7
<1> QED BY <1>7

(* However many calls overlap, also those of one user, the money held of a *)
(* user and the money due to the auction move together in every step but   *)
(* the three that the code leaves unguarded: closing, replacing a bid that *)
(* is not the last any more, and a second hidden submission.               *)
THEOREM MoneyFollowsBidsHolds == Spec => MoneyFollowsBids
<1> DEFINE Follows == \A u \in Users : Net(u)' - Due(u)' = Net(u) - Due(u)
           Excused == \E r \in Requests :
                        \/ CommitClose(r)
                        \/ CommitBid(r) /\ ~ReplacesLast(req[r])
                        \/ CommitHidden(r) /\ HiddenOf(req[r].user) # {}
<1>1. ASSUME Inv, [Next]_vars, <<bids, ledger>>' # <<bids, ledger>>
      PROVE  Follows \/ Excused
  <2>1. ~Quiet BY <1>1 DEF Quiet
  <2>2. PICK r \in Requests : \/ CommitBid(r) \/ CommitHidden(r)
                              \/ CommitClose(r) \/ CommitDeposit(r)
    BY <1>1, <2>1, StepKinds DEF Inv
  <2>3. CASE CommitBid(r)
    <3>1. CASE ReplacesLast(req[r])
      <4>1. \A u \in Users : Saldo(ledger', u) - DueOf(bids', u)
                               = Saldo(ledger, u) - DueOf(bids, u)
        BY <1>1, <2>3, <3>1, BidMoney
      <4> QED BY <4>1, Terms
    <3> QED BY <2>3, <3>1
  <2>4. CASE CommitHidden(r)
    <3>1. CASE HiddenOf(req[r].user) = {}
      <4>1. \A u \in Users : Saldo(ledger', u) - DueOf(bids', u)
                               = Saldo(ledger, u) - DueOf(bids, u)
        BY <1>1, <2>4, <3>1, HiddenMoney
      <4> QED BY <4>1, Terms
    <3> QED BY <2>4, <3>1
  <2>5. CASE CommitClose(r) BY <2>5
  <2>6. CASE CommitDeposit(r)
    <3>1. bids' = bids BY <2>6 DEF CommitDeposit
    <3>2. \A u \in Users : Saldo(ledger', u) = Saldo(ledger, u)
      BY <1>1, <2>6, DepositSaldo DEF Inv
    <3> QED BY <3>1, <3>2, Terms
  <2> QED BY <2>2, <2>3, <2>4, <2>5, <2>6
<1>2. Inv /\ [Next]_vars =>
        [<<bids, ledger>>' # <<bids, ledger>> => Follows \/ Excused]_vars
  BY <1>1
<1> QED BY <1>2, Invariance, PTL DEF Spec, MoneyFollowsBids
=============================================================================

--------------------------- MODULE BiddingProofs ---------------------------
(***************************************************************************)
(* Types, refunds, counts and closing; then how far requests that overlap  *)
(* can go past the balance check and the check that hidden bids are sent   *)
(* once; then the wallets and their transactions.                          *)
(***************************************************************************)
EXTENDS Bidding, CountingProofs, FiniteSetTheorems, SequenceTheorems, TLAPS

(* What a request in flight carries, beyond its type. *)
CarriesOK(q) ==
  /\ q.op \in {"bid", "hidden", "deposit"} => q.user \in Users
  /\ q.op \in {"bid", "hidden"} => q.amounts \subseteq Amounts
  /\ q.op = "deposit" => q.amounts \subseteq Deposits
  /\ q.op \in {"bid", "hidden"} => q.amounts # {}
  /\ q.op = "hidden" => Cardinality(q.amounts) <= 3
  /\ q.pc \in {"previous", "hiddenCount"} => q.op = "hidden"
  /\ q.pc \in {"lastBid", "user"} => q.op \in {"bid", "hidden"}

TypeInv == TypeOK /\ \A r \in Requests : CarriesOK(req[r])

-----------------------------------------------------------------------------
(* Lemmas about the operators. *)

LEMMA FiniteAmounts ==
  ASSUME NEW A \in SUBSET Amounts
  PROVE  IsFiniteSet(A) /\ Cardinality(A) \in Nat /\ A \subseteq Nat
  BY FS_Subset, FS_CardinalityType, ConstantsAssumption

(* Appending rows: length and elements. *)
LEMMA Appended ==
  ASSUME NEW S, NEW l \in Seq(S), NEW m \in Seq(S)
  PROVE  /\ l \o m \in Seq(S)
         /\ Len(l) \in Nat /\ Len(m) \in Nat
         /\ Len(l \o m) = Len(l) + Len(m)
         /\ \A i \in 1..Len(l) : (l \o m)[i] = l[i]
         /\ \A i \in 1..Len(m) : (l \o m)[Len(l) + i] = m[i]
         /\ \A i \in 1..Len(l \o m) :
              i \in 1..Len(l) \/ \E j \in 1..Len(m) : i = Len(l) + j
<1>1. /\ Len(l) \in Nat /\ Len(m) \in Nat BY LenProperties
<1>2. \A i \in 1 .. Len(l) + Len(m) :
        (l \o m)[i] = IF i <= Len(l) THEN l[i] ELSE m[i - Len(l)]
  BY ConcatProperties
<1>3. Len(l \o m) = Len(l) + Len(m) /\ l \o m \in Seq(S) BY ConcatProperties
<1>4. ASSUME NEW i \in 1..Len(m) PROVE (l \o m)[Len(l) + i] = m[i]
  <2>1. Len(l) + i \in 1 .. Len(l) + Len(m) /\ ~(Len(l) + i <= Len(l)) BY <1>1
  <2>2. Len(l) + i - Len(l) = i BY <1>1
  <2> QED BY <2>1, <2>2, <1>2
<1>5. ASSUME NEW i \in 1..Len(l \o m), i \notin 1..Len(l)
      PROVE  \E j \in 1..Len(m) : i = Len(l) + j
  <2>1. i - Len(l) \in 1..Len(m) /\ i = Len(l) + (i - Len(l)) BY <1>5, <1>1, <1>3
  <2> QED BY <2>1
<1> QED BY <1>1, <1>2, <1>3, <1>4, <1>5

LEMMA Row1Type ==
  ASSUME NEW type \in {"DEPOSIT", "BID_PAYMENT", "BID_REFUND"}, NEW u \in Users,
         NEW amount \in Nat, NEW bid \in Nat, NEW after \in Int
  PROVE  /\ Row1(type, u, amount, bid, after) \in Seq(Row)
         /\ Len(Row1(type, u, amount, bid, after)) = 1
         /\ Row1(type, u, amount, bid, after)[1] =
              [type |-> type, user |-> u, amount |-> amount, bid |-> bid,
               balanceAfter |-> after]
  BY DEF Row1, Row

LEMMA BidFields ==
  ASSUME NEW b \in Bid
  PROVE  /\ b.user \in Users /\ b.id \in Nat \ {0} /\ b.at \in Nat
         /\ b.amount \in Nat /\ b.amount \in Int /\ b.hidden \in BOOLEAN
<1>1. /\ b.amount \in Amounts /\ b.user \in Users /\ b.id \in Nat \ {0}
      /\ b.at \in Nat /\ b.hidden \in BOOLEAN
  BY DEF Bid
<1>2. b.amount \in Nat BY <1>1, ConstantsAssumption
<1> QED BY <1>1, <1>2

LEMMA RefundRowType ==
  ASSUME NEW q \in Request
  PROVE  /\ RefundRow(q) \in Seq(Row)
         /\ q.last = NoBid => Len(RefundRow(q)) = 0
         /\ q.last # NoBid =>
              /\ Len(RefundRow(q)) = 1
              /\ RefundRow(q)[1].type = "BID_REFUND"
              /\ RefundRow(q)[1].user = q.last.user
              /\ RefundRow(q)[1].amount = q.last.amount
              /\ RefundRow(q)[1].bid = q.last.id
<1>1. CASE q.last = NoBid BY <1>1 DEF RefundRow
<1>2. CASE q.last # NoBid
  <2>1. q.last \in Bid /\ q.funds \in Int BY <1>2 DEF Request
  <2>2. q.last.user \in Users /\ q.last.amount \in Nat /\ q.last.id \in Nat
    BY <2>1, BidFields
  <2>3. q.funds + q.last.amount \in Int BY <2>1, <2>2
  <2>4. RefundRow(q) = Row1("BID_REFUND", q.last.user, q.last.amount,
                            q.last.id, q.funds + q.last.amount)
    BY <1>2 DEF RefundRow
  <2>5. /\ RefundRow(q) \in Seq(Row) /\ Len(RefundRow(q)) = 1
        /\ RefundRow(q)[1] =
             [type |-> "BID_REFUND", user |-> q.last.user, amount |-> q.last.amount,
              bid |-> q.last.id, balanceAfter |-> q.funds + q.last.amount]
    BY <2>2, <2>3, <2>4, Row1Type
  <2> QED BY <1>2, <2>5
<1> QED BY <1>1, <1>2

LEMMA CreditType ==
  ASSUME NEW bal \in [Users -> Int], NEW u \in Users, NEW x \in Int
  PROVE  /\ Credit(bal, u, x) \in [Users -> Int]
         /\ \A v \in Users : v # u => Credit(bal, u, x)[v] = bal[v]
         /\ Credit(bal, u, x)[u] = bal[u] + x
  BY DEF Credit

LEMMA NewestInSet ==
  ASSUME NEW S, NEW b \in NewestOrNull(S)
  PROVE  b = NoBid \/ b \in S
  BY DEF NewestOrNull, Newest

(* The rows of a hidden submission: one id each, from nextId on. *)
LEMMA HiddenRowsType ==
  ASSUME TypeInv, NEW r \in Requests, req[r].op = "hidden"
  PROVE  LET q == req[r] IN
         /\ Cardinality(q.amounts) \in Nat
         /\ HiddenRows(q) \subseteq Bid /\ IsFiniteSet(HiddenRows(q))
         /\ Cardinality(HiddenRows(q)) <= Cardinality(q.amounts)
         /\ \A b \in HiddenRows(q) :
              /\ b.hidden /\ b.user = q.user
              /\ b.id >= nextId /\ b.id < nextId + Cardinality(q.amounts)
         /\ \A b, c \in HiddenRows(q) : b.id = c.id => b = c
         /\ {b.amount : b \in HiddenRows(q)} = q.amounts
<1> DEFINE A == req[r].amounts
           Below(a) == {b \in A : b < a}
           id(a) == nextId + Cardinality(Below(a))
           row == [a \in A |-> [id |-> id(a), user |-> req[r].user, amount |-> a,
                                hidden |-> TRUE, at |-> now]]
<1>1. /\ A \in SUBSET Amounts /\ req[r].user \in Users
      /\ nextId \in Nat \ {0} /\ now \in Nat
  BY DEF TypeInv, TypeOK, CarriesOK, Request
<1>2. IsFiniteSet(A) /\ Cardinality(A) \in Nat /\ A \subseteq Nat
  BY <1>1, FiniteAmounts
<1>3. ASSUME NEW a \in A
      PROVE  /\ IsFiniteSet(Below(a)) /\ Cardinality(Below(a)) \in Nat
             /\ Cardinality(Below(a)) < Cardinality(A)
  <2>1. Below(a) \in SUBSET A /\ Below(a) # A BY <1>2
  <2>2. /\ IsFiniteSet(Below(a)) /\ Cardinality(Below(a)) <= Cardinality(A)
        /\ Cardinality(Below(a)) # Cardinality(A)
    BY <2>1, <1>2, FS_Subset
  <2> QED BY <2>2, <1>2, FS_CardinalityType
<1>4. ASSUME NEW a \in A, NEW c \in A, a < c
      PROVE  Cardinality(Below(a)) < Cardinality(Below(c))
  <2>1. Below(a) \in SUBSET Below(c) /\ Below(a) # Below(c) BY <1>4, <1>2
  <2>2. /\ Cardinality(Below(a)) <= Cardinality(Below(c))
        /\ Cardinality(Below(a)) # Cardinality(Below(c))
    BY <2>1, <1>3, FS_Subset
  <2> QED BY <2>2, <1>3
<1>5. HiddenRows(req[r]) = {row[a] : a \in A} BY DEF HiddenRows
<1>6. row \in Surjection(A, {row[a] : a \in A}) BY DEF Surjection
<1>7. /\ IsFiniteSet(HiddenRows(req[r]))
      /\ Cardinality(HiddenRows(req[r])) <= Cardinality(A)
  BY <1>5, <1>6, <1>2, FS_Surjection DEF ExistsSurjection
<1>8. \A a \in A : id(a) \in Nat /\ id(a) >= nextId /\ id(a) < nextId + Cardinality(A)
  BY <1>1, <1>2, <1>3
<1>9. \A a, c \in A : id(a) = id(c) => a = c
  <2> SUFFICES ASSUME NEW a \in A, NEW c \in A, id(a) = id(c), a # c PROVE FALSE
    OBVIOUS
  <2>1. a < c \/ c < a BY <1>2
  <2>2. Cardinality(Below(a)) # Cardinality(Below(c))
    <3> HIDE DEF Below
    <3> QED BY <2>1, <1>3, <1>4
  <2>3. Cardinality(Below(a)) = Cardinality(Below(c))
    <3>1. id(a) = nextId + Cardinality(Below(a)) OBVIOUS
    <3>2. id(c) = nextId + Cardinality(Below(c)) OBVIOUS
    <3> HIDE DEF Below
    <3> QED BY <3>1, <3>2, <1>1, <1>3
  <2> QED BY <2>2, <2>3
<1>10. \A a \in A : /\ row[a].id = id(a) /\ row[a].hidden
                    /\ row[a].user = req[r].user /\ row[a].amount = a
  OBVIOUS
<1>11. \A a \in A : row[a] \in Bid
  <2> TAKE a \in A
  <2>1. id(a) \in Nat \ {0} BY <1>1, <1>8
  <2>2. a \in Amounts BY <1>1
  <2> HIDE DEF id
  <2> QED BY <2>1, <2>2, <1>1 DEF Bid
<1> HIDE DEF row, id
<1>12. HiddenRows(req[r]) \subseteq Bid BY <1>5, <1>11
<1>13. \A b \in HiddenRows(req[r]) :
         /\ b.hidden /\ b.user = req[r].user
         /\ b.id >= nextId /\ b.id < nextId + Cardinality(A)
  BY <1>5, <1>8, <1>10
<1>14. \A b, c \in HiddenRows(req[r]) : b.id = c.id => b = c
  BY <1>5, <1>9, <1>10
<1>15. {b.amount : b \in HiddenRows(req[r])} = A
  <2> DEFINE Asked == {b.amount : b \in HiddenRows(req[r])}
  <2>1. ASSUME NEW x \in Asked PROVE x \in A BY <1>5, <1>10
  <2>2. ASSUME NEW a \in A PROVE a \in Asked BY <1>5, <1>10
  <2> QED BY <2>1, <2>2
<1> QED BY <1>2, <1>7, <1>12, <1>13, <1>14, <1>15

-----------------------------------------------------------------------------
(* Type correctness. *)

LEMMA IdleOK == Idle \in Request /\ CarriesOK(Idle)
  BY DEF Idle, Request, CarriesOK

LEMMA InitTypeInv == Init => TypeInv
  BY IdleOK, ConstantsAssumption, FS_EmptySet, EmptySeq DEF Init, TypeOK, TypeInv

(* A request moves on to a well-formed record, the others stay. *)
LEMMA GotoType ==
  ASSUME TypeInv, NEW r \in Requests, NEW q \in Request, CarriesOK(q), Goto(r, q)
  PROVE  /\ req' \in [Requests -> Request]
         /\ \A s \in Requests : CarriesOK(req'[s])
         /\ req'[r] = q /\ \A s \in Requests : s # r => req'[s] = req[s]
  BY DEF TypeInv, TypeOK, Goto

(* The queries change only the request. *)
LEMMA ReadType ==
  ASSUME TypeInv, NEW r \in Requests, NEW q \in Request, CarriesOK(q), Goto(r, q),
         UNCHANGED <<now, auction, bids, nextId, balance, ledger>>
  PROVE  TypeInv'
<1>1. TypeOK' BY GotoType DEF TypeInv, TypeOK
<1>2. \A s \in Requests : CarriesOK(req'[s]) BY GotoType
<1> QED BY <1>1, <1>2 DEF TypeInv, CarriesOK

LEMMA TypeStep == TypeInv /\ [Next]_vars => TypeInv'
<1> SUFFICES ASSUME TypeInv, [Next]_vars PROVE TypeInv' OBVIOUS
<1>r. \A r \in Requests : req[r] \in Request /\ CarriesOK(req[r])
  BY DEF TypeInv, TypeOK
<1>t. /\ now \in 0..Horizon /\ now \in Nat
      /\ auction \in [status: {"OPEN", "CLOSED", "COMPLETED"}, currentPrice: Nat,
                      bidCount: Nat, winner: Users \cup {NoUser}]
      /\ bids \subseteq Bid /\ IsFiniteSet(bids)
      /\ nextId \in Nat \ {0} /\ balance \in [Users -> Int] /\ ledger \in Seq(Row)
  BY DEF TypeInv, TypeOK
<1>1. ASSUME NEW r \in Requests, NEW u \in Users, NEW a \in Amounts,
             ValidateBid(r, u, a)
      PROVE  TypeInv'
  <2> DEFINE q == [Idle EXCEPT !.op = "bid", !.pc = "lastBid", !.user = u,
                               !.amounts = {a}, !.price = auction.currentPrice]
  <2>1. q \in Request /\ CarriesOK(q) BY <1>t, IdleOK DEF Idle, Request, CarriesOK
  <2>2. Goto(r, q) /\ UNCHANGED <<now, auction, bids, nextId, balance, ledger>>
    BY <1>1 DEF ValidateBid
  <2> QED BY <2>1, <2>2, ReadType
<1>2. ASSUME NEW r \in Requests, NEW u \in Users, NEW A \in SUBSET Amounts,
             ValidateHidden(r, u, A)
      PROVE  TypeInv'
  <2> DEFINE q == [Idle EXCEPT !.op = "hidden", !.pc = "previous", !.user = u,
                               !.amounts = A, !.price = auction.currentPrice]
  <2>1. q \in Request /\ CarriesOK(q)
    BY <1>2, <1>t, IdleOK DEF Idle, Request, CarriesOK, ValidateHidden
  <2>2. Goto(r, q) /\ UNCHANGED <<now, auction, bids, nextId, balance, ledger>>
    BY <1>2 DEF ValidateHidden
  <2> QED BY <2>1, <2>2, ReadType
<1>3. ASSUME NEW r \in Requests, NEW u \in Users, NEW d \in Deposits,
             ReadForDeposit(r, u, d)
      PROVE  TypeInv'
  <2> DEFINE q == [Idle EXCEPT !.op = "deposit", !.pc = "tx", !.user = u,
                               !.amounts = {d}]
  <2>1. q \in Request /\ CarriesOK(q) BY <1>t, IdleOK DEF Idle, Request, CarriesOK
  <2>2. Goto(r, q) /\ UNCHANGED <<now, auction, bids, nextId, balance, ledger>>
    BY <1>3 DEF ReadForDeposit
  <2> QED BY <2>1, <2>2, ReadType
<1>4. ASSUME NEW r \in Requests,
             \/ ReadPrevious(r) \/ ReadHiddenCount(r) \/ ReadLastPublicBid(r)
      PROVE  TypeInv'
  <2>1. \A pc \in {"hiddenCount", "lastBid", "user"} :
          /\ Step(r, pc) \in Request
          /\ req[r].op = "hidden" => CarriesOK(Step(r, pc))
    BY <1>r DEF Step, Request, CarriesOK
  <2>2. req[r].op = "hidden"
    BY <1>4, <1>r DEF ReadPrevious, ReadHiddenCount, ReadLastPublicBid, CarriesOK
  <2>3. \E pc \in {"hiddenCount", "lastBid", "user"} : Goto(r, Step(r, pc))
    BY <1>4 DEF ReadPrevious, ReadHiddenCount, ReadLastPublicBid
  <2>4. UNCHANGED <<now, auction, bids, nextId, balance, ledger>>
    BY <1>4 DEF ReadPrevious, ReadHiddenCount, ReadLastPublicBid
  <2> QED BY <2>1, <2>2, <2>3, <2>4, ReadType
<1>5. ASSUME NEW r \in Requests, ReadLastBid(r) PROVE TypeInv'
  <2>1. PICK last \in NewestOrNull(bids) : Goto(r, [Step(r, "user") EXCEPT !.last = last])
    BY <1>5 DEF ReadLastBid
  <2>2. last \in Bid \cup {NoBid} BY <1>t, <2>1, NewestInSet
  <2>3. /\ [Step(r, "user") EXCEPT !.last = last] \in Request
        /\ CarriesOK([Step(r, "user") EXCEPT !.last = last])
    BY <1>5, <1>r, <2>2 DEF Step, Request, CarriesOK, ReadLastBid
  <2>4. UNCHANGED <<now, auction, bids, nextId, balance, ledger>>
    BY <1>5 DEF ReadLastBid
  <2> QED BY <2>1, <2>3, <2>4, ReadType
<1>6. ASSUME NEW r \in Requests, ReadUser(r) PROVE TypeInv'
  <2> DEFINE q == [Step(r, "tx") EXCEPT !.funds = balance[req[r].user]]
  <2>1. req[r].user \in Users BY <1>6, <1>r DEF ReadUser, CarriesOK
  <2>2. q \in Request /\ CarriesOK(q)
    BY <1>r, <1>t, <2>1 DEF Step, Request, CarriesOK
  <2>3. Goto(r, q) /\ UNCHANGED <<now, auction, bids, nextId, balance, ledger>>
    BY <1>6 DEF ReadUser
  <2> QED BY <2>2, <2>3, ReadType
<1>7. ASSUME NEW r \in Requests, ReadForClose(r) PROVE TypeInv'
  <2> DEFINE paid(last) == last # NoBid /\ Refunded(last)
             q(last) == [Idle EXCEPT !.op = "close", !.pc = "tx",
                           !.last = IF paid(last) THEN last ELSE NoBid,
                           !.funds = IF paid(last) THEN balance[last.user] ELSE 0]
  <2>1. PICK last \in NewestOrNull(Public) : Goto(r, q(last))
    BY <1>7 DEF ReadForClose
  <2>2. last \in Bid \cup {NoBid}
    BY <1>t, <2>1, NewestInSet DEF Public
  <2>3. paid(last) => last \in Bid /\ balance[last.user] \in Int
    BY <2>2, <1>t DEF Bid
  <2>4. q(last) \in Request /\ CarriesOK(q(last))
    <3> HIDE DEF paid
    <3> QED BY <2>3, IdleOK DEF Idle, Request, CarriesOK
  <2>5. UNCHANGED <<now, auction, bids, nextId, balance, ledger>>
    BY <1>7 DEF ReadForClose
  <2> QED BY <2>1, <2>4, <2>5, ReadType
<1>8. ASSUME NEW r \in Requests, ReadForEnd(r) PROVE TypeInv'
  <2>1. PICK last \in bids \cup {NoBid} :
          Goto(r, [Idle EXCEPT !.op = "end", !.pc = "tx", !.last = last])
    BY <1>8 DEF ReadForEnd
  <2>2. /\ [Idle EXCEPT !.op = "end", !.pc = "tx", !.last = last] \in Request
        /\ CarriesOK([Idle EXCEPT !.op = "end", !.pc = "tx", !.last = last])
    BY <1>t, IdleOK DEF Idle, Request, CarriesOK
  <2>3. UNCHANGED <<now, auction, bids, nextId, balance, ledger>>
    BY <1>8 DEF ReadForEnd
  <2> QED BY <2>1, <2>2, <2>3, ReadType
<1>9. ASSUME NEW r \in Requests, Fail(r) PROVE TypeInv'
  BY <1>9, IdleOK, ReadType DEF Fail
<1>10. ASSUME NEW r \in Requests, CommitBid(r) PROVE TypeInv'
  <2> DEFINE q == req[r]
  <2>1. /\ q.pc = "tx" /\ q.op = "bid" /\ Goto(r, Idle)
        /\ nextId' = nextId + 1 /\ now' = now
    BY <1>10 DEF CommitBid
  <2>2. q \in Request /\ q.user \in Users /\ q.amounts \subseteq Amounts
    BY <2>1, <1>r DEF CarriesOK
  <2>3. PICK a \in q.amounts :
          /\ balance' = Credit(AfterRefund(q), q.user, -a)
          /\ bids' = bids \cup {[id |-> nextId, user |-> q.user, amount |-> a,
                                 hidden |-> FALSE, at |-> now]}
          /\ auction' = [auction EXCEPT !.currentPrice = a, !.bidCount = @ + 1]
          /\ ledger' = ledger \o RefundRow(q)
                              \o Row1("BID_PAYMENT", q.user, a, Null, q.funds - a)
    BY <1>10 DEF CommitBid
  <2>4. a \in Nat /\ a \in Amounts BY <2>2, <2>3, ConstantsAssumption
  <2>5. AfterRefund(q) \in [Users -> Int]
    <3>1. CASE q.last = NoBid BY <3>1, <1>t DEF AfterRefund
    <3>2. CASE q.last # NoBid
      <4>1. q.last \in Bid BY <3>2, <2>2 DEF Request
      <4>2. q.last.user \in Users /\ q.last.amount \in Int
        BY <4>1, BidFields
      <4> QED BY <4>2, <3>2, <1>t, CreditType DEF AfterRefund
    <3> QED BY <3>1, <3>2
  <2>6. balance' \in [Users -> Int] BY <2>2, <2>3, <2>4, <2>5, CreditType, SMTT(30)
  <2>7. bids' \subseteq Bid /\ IsFiniteSet(bids')
    <3>1. [id |-> nextId, user |-> q.user, amount |-> a, hidden |-> FALSE, at |-> now]
            \in Bid
      BY <1>t, <2>2, <2>4 DEF Bid
    <3> QED BY <3>1, <2>3, <1>t, FS_AddElement
  <2>8. auction' \in [status: {"OPEN", "CLOSED", "COMPLETED"}, currentPrice: Nat,
                      bidCount: Nat, winner: Users \cup {NoUser}]
    <3>1. auction.bidCount + 1 \in Nat BY <1>t
    <3> HIDE DEF q
    <3> QED BY <3>1, <2>3, <2>4, <1>t
  <2>9. ledger' \in Seq(Row)
    <3>1. RefundRow(q) \in Seq(Row) BY <2>2, RefundRowType
    <3>2. q.funds - a \in Int BY <2>2, <2>4 DEF Request
    <3>3. Row1("BID_PAYMENT", q.user, a, Null, q.funds - a) \in Seq(Row)
      BY <3>2, <2>2, <2>4, Row1Type DEF Null
    <3> QED BY <3>1, <3>3, <2>3, <1>t, Appended
  <2>10. /\ req' \in [Requests -> Request]
         /\ \A s \in Requests : CarriesOK(req'[s])
    BY <2>1, IdleOK, GotoType
  <2>11. TypeOK' BY <2>1, <2>6, <2>7, <2>8, <2>9, <2>10, <1>t DEF TypeOK
  <2> QED BY <2>10, <2>11 DEF TypeInv, CarriesOK
<1>11. ASSUME NEW r \in Requests, CommitHidden(r) PROVE TypeInv'
  <2> DEFINE q == req[r]
             paid == Charge(q.amounts)
  <2>1. /\ q.pc = "tx" /\ q.op = "hidden" /\ Goto(r, Idle)
        /\ nextId' = nextId + Cardinality(q.amounts)
        /\ now' = now /\ auction' = auction
        /\ balance' = Credit(balance, q.user, -paid)
        /\ ledger' = ledger \o Row1("BID_PAYMENT", q.user, paid, Null, q.funds - paid)
        /\ bids' = bids \cup HiddenRows(q)
    BY <1>11 DEF CommitHidden
  <2>2. /\ q \in Request /\ q.user \in Users /\ q.amounts \in SUBSET Amounts
        /\ q.amounts # {} /\ Cardinality(q.amounts) <= 3
    BY <2>1, <1>r DEF CarriesOK
  <2>3. paid \in Nat
    <3>1. IsFiniteSet(q.amounts) /\ q.amounts \subseteq Nat /\ q.amounts \subseteq Int
      BY <2>2, FiniteAmounts
    <3> QED BY <3>1, <2>2, MaxOfFinite DEF Charge
  <2>4. balance' \in [Users -> Int] BY <2>1, <2>2, <2>3, <1>t, CreditType
  <2>5. /\ bids' \subseteq Bid /\ IsFiniteSet(bids') /\ nextId' \in Nat \ {0}
    <3>1. /\ HiddenRows(q) \subseteq Bid /\ IsFiniteSet(HiddenRows(q))
          /\ Cardinality(q.amounts) \in Nat
      BY <2>1, HiddenRowsType
    <3>2. nextId + Cardinality(q.amounts) \in Nat \ {0} BY <3>1, <1>t
    <3>3. IsFiniteSet(bids \cup HiddenRows(q)) BY <3>1, <1>t, FS_Union
    <3> HIDE DEF q
    <3> QED BY <3>1, <3>2, <3>3, <2>1, <1>t
  <2>6. ledger' \in Seq(Row)
    <3>1. q.funds - paid \in Int BY <2>2, <2>3 DEF Request
    <3>2. Row1("BID_PAYMENT", q.user, paid, Null, q.funds - paid) \in Seq(Row)
      BY <3>1, <2>2, <2>3, Row1Type DEF Null
    <3> QED BY <3>2, <2>1, <1>t, Appended
  <2>7. /\ req' \in [Requests -> Request]
        /\ \A s \in Requests : CarriesOK(req'[s])
    BY <2>1, IdleOK, GotoType
  <2>8. TypeOK' BY <2>1, <2>4, <2>5, <2>6, <2>7, <1>t DEF TypeOK
  <2> QED BY <2>7, <2>8 DEF TypeInv, CarriesOK
<1>12. ASSUME NEW r \in Requests, CommitClose(r) PROVE TypeInv'
  <2> DEFINE q == req[r]
  <2>1. /\ Goto(r, Idle) /\ bids' = {} /\ nextId' = nextId /\ now' = now
        /\ auction' = [auction EXCEPT !.status = "CLOSED", !.bidCount = 0,
                                      !.currentPrice = StartingPrice]
        /\ balance' = IF q.last = NoBid THEN balance
                      ELSE [balance EXCEPT ![q.last.user] = q.funds + q.last.amount]
        /\ ledger' = SetNull(ledger \o RefundRow(q))
    BY <1>12 DEF CommitClose
  <2>2. q \in Request BY <1>r
  <2>3. balance' \in [Users -> Int]
    <3>1. CASE q.last = NoBid BY <3>1, <2>1, <1>t
    <3>2. CASE q.last # NoBid
      <4>1. q.last \in Bid /\ q.funds \in Int BY <3>2, <2>2 DEF Request
      <4>2. q.last.amount \in Int BY <4>1, BidFields
      <4>3. q.funds + q.last.amount \in Int BY <4>1, <4>2
      <4> QED BY <4>3, <3>2, <2>1, <1>t
    <3> QED BY <3>1, <3>2
  <2>4. ledger' \in Seq(Row)
    <3>1. ledger \o RefundRow(q) \in Seq(Row)
      BY <1>t, <2>2, RefundRowType, Appended
    <3>2. ASSUME NEW l \in Seq(Row) PROVE SetNull(l) \in Seq(Row)
      <4>1. Len(l) \in Nat /\ \A i \in 1..Len(l) : l[i] \in Row
        BY LenProperties, ElementOfSeq
      <4>2. \A i \in 1..Len(l) : [l[i] EXCEPT !.bid = Null] \in Row
        BY <4>1 DEF Row, Null
      <4> QED BY <4>1, <4>2 DEF SetNull
    <3> QED BY <3>1, <3>2, <2>1
  <2>5. auction' \in [status: {"OPEN", "CLOSED", "COMPLETED"}, currentPrice: Nat,
                      bidCount: Nat, winner: Users \cup {NoUser}]
    BY <2>1, <1>t, ConstantsAssumption
  <2>6. /\ req' \in [Requests -> Request]
        /\ \A s \in Requests : CarriesOK(req'[s])
    BY <2>1, IdleOK, GotoType
  <2>7. TypeOK' BY <2>1, <2>3, <2>4, <2>5, <2>6, <1>t, FS_EmptySet DEF TypeOK
  <2> QED BY <2>6, <2>7 DEF TypeInv, CarriesOK
<1>13. ASSUME NEW r \in Requests, CommitEnd(r) PROVE TypeInv'
  <2> DEFINE q == req[r]
  <2>1. /\ Goto(r, Idle) /\ UNCHANGED <<now, bids, nextId, balance, ledger>>
        /\ auction' = IF q.last = NoBid THEN [auction EXCEPT !.status = "CLOSED"]
                      ELSE [auction EXCEPT !.status = "COMPLETED",
                                           !.winner = q.last.user]
    BY <1>13 DEF CommitEnd
  <2>2. q.last # NoBid => q.last.user \in Users BY <1>r DEF Request, Bid
  <2>3. auction' \in [status: {"OPEN", "CLOSED", "COMPLETED"}, currentPrice: Nat,
                      bidCount: Nat, winner: Users \cup {NoUser}]
    BY <2>1, <2>2, <1>t
  <2>4. /\ req' \in [Requests -> Request]
        /\ \A s \in Requests : CarriesOK(req'[s])
    BY <2>1, IdleOK, GotoType
  <2>5. TypeOK' BY <2>1, <2>3, <2>4, <1>t DEF TypeOK
  <2> QED BY <2>4, <2>5 DEF TypeInv, CarriesOK
<1>14. ASSUME NEW r \in Requests, CommitDeposit(r) PROVE TypeInv'
  <2> DEFINE q == req[r]
  <2>1. /\ q.op = "deposit" /\ Goto(r, Idle)
        /\ UNCHANGED <<now, auction, bids, nextId>>
    BY <1>14 DEF CommitDeposit
  <2>2. PICK d \in q.amounts :
          /\ balance' = Credit(balance, q.user, d)
          /\ ledger' = ledger \o Row1("DEPOSIT", q.user, d, Null, balance[q.user] + d)
    BY <1>14 DEF CommitDeposit
  <2>3. q.user \in Users /\ d \in Nat
    BY <2>1, <2>2, <1>r, ConstantsAssumption DEF CarriesOK
  <2>4. balance' \in [Users -> Int]
    <3>1. d \in Int BY <2>3
    <3> HIDE DEF q
    <3> QED BY <3>1, <2>2, <2>3, <1>t, CreditType
  <2>5. ledger' \in Seq(Row)
    <3>1. balance[q.user] + d \in Int BY <2>3, <1>t
    <3>2. Row1("DEPOSIT", q.user, d, Null, balance[q.user] + d) \in Seq(Row)
      BY <3>1, <2>3, Row1Type DEF Null
    <3> QED BY <3>2, <2>2, <1>t, Appended
  <2>6. /\ req' \in [Requests -> Request]
        /\ \A s \in Requests : CarriesOK(req'[s])
    BY <2>1, IdleOK, GotoType
  <2>7. TypeOK' BY <2>1, <2>4, <2>5, <2>6, <1>t DEF TypeOK
  <2> QED BY <2>6, <2>7 DEF TypeInv, CarriesOK
<1>15. CASE Tick
  <2>1. TypeOK' BY <1>15, <1>t, ConstantsAssumption DEF TypeInv, TypeOK, Tick
  <2> QED BY <2>1, <1>15 DEF TypeInv, CarriesOK, Tick
<1>16. CASE UNCHANGED vars
  BY <1>16 DEF vars, TypeInv, TypeOK, CarriesOK
<1> QED
  BY <1>1, <1>2, <1>3, <1>4, <1>5, <1>6, <1>7, <1>8, <1>9, <1>10, <1>11, <1>12,
     <1>13, <1>14, <1>15, <1>16 DEF Next

(* Every variable keeps its type for every number of users and requests:   *)
(* in particular bid ids stay positive and bid_count never gets negative.  *)
THEOREM TypeCorrect == Spec => []TypeOK
<1>1. TypeInv => TypeOK BY DEF TypeInv
<1> QED BY <1>1, InitTypeInv, TypeStep, PTL DEF Spec

-----------------------------------------------------------------------------
(* The steps that write no wallet and no bid.  A request that moves takes  *)
(* what it carries from the state it moves in.                             *)

Carrying(op, pc) == op \in {"bid", "hidden"} /\ pc = "tx"
Counted(q) == q.op = "hidden" /\ q.pc \in {"lastBid", "user", "tx"}

Moves(r) ==
  LET q == req'[r] IN
  /\ q.last \in {NoBid, req[r].last} \cup bids
  /\ q.op = "close" /\ q.last # NoBid => Refunded(q.last)
  /\ Carrying(q.op, q.pc) => \A a \in q.amounts : balance[q.user] >= a
  /\ Counted(q) => \/ HiddenOf(q.user) = {}
                   \/ Counted(req[r]) /\ req[r].user = q.user

Quiet ==
  /\ UNCHANGED <<bids, nextId, balance, ledger>>
  /\ auction'.bidCount = auction.bidCount
  /\ \/ req' = req
     \/ \E r \in Requests : Moves(r) /\ \A s \in Requests \ {r} : req'[s] = req[s]

LEMMA QuietRequest ==
  ASSUME TypeInv, NEW r \in Requests, NEW q, Goto(r, q),
         UNCHANGED <<now, auction, bids, nextId, balance, ledger>>,
         q.last \in {NoBid, req[r].last} \cup bids,
         q.op = "close" /\ q.last # NoBid => Refunded(q.last),
         Carrying(q.op, q.pc) => \A a \in q.amounts : balance[q.user] >= a,
         Counted(q) => \/ HiddenOf(q.user) = {}
                       \/ Counted(req[r]) /\ req[r].user = q.user
  PROVE  Quiet
BY DEF TypeInv, TypeOK, Goto, Quiet, Moves

LEMMA StepKinds ==
  TypeInv /\ [Next]_vars =>
    \/ Quiet
    \/ \E r \in Requests : \/ CommitBid(r) \/ CommitHidden(r)
                           \/ CommitClose(r) \/ CommitDeposit(r)
<1> SUFFICES ASSUME TypeInv, [Next]_vars,
                    ~ \E r \in Requests : \/ CommitBid(r) \/ CommitHidden(r)
                                          \/ CommitClose(r) \/ CommitDeposit(r)
             PROVE  Quiet
  OBVIOUS
<1>r. \A r \in Requests : req[r] \in Request /\ CarriesOK(req[r])
  BY DEF TypeInv, TypeOK
<1>i. Idle = [op |-> "none", pc |-> "idle", user |-> NoUser, amounts |-> {},
              price |-> 0, last |-> NoBid, funds |-> 0]
  BY DEF Idle
<1>1. ASSUME NEW r \in Requests, NEW u \in Users, NEW a, ValidateBid(r, u, a)
      PROVE  Quiet
  <2> DEFINE q == [Idle EXCEPT !.op = "bid", !.pc = "lastBid", !.user = u,
                               !.amounts = {a}, !.price = auction.currentPrice]
  <2>1. /\ q.last = NoBid /\ q.op = "bid" /\ q.pc = "lastBid" /\ q.user = u
    BY <1>i
  <2>2. /\ Goto(r, q) /\ UNCHANGED <<now, auction, bids, nextId, balance, ledger>>
    BY <1>1 DEF ValidateBid
  <2> HIDE DEF q
  <2> QED BY <2>1, <2>2, QuietRequest DEF Carrying, Counted
<1>2. ASSUME NEW r \in Requests, NEW u \in Users, NEW A, ValidateHidden(r, u, A)
      PROVE  Quiet
  <2> DEFINE q == [Idle EXCEPT !.op = "hidden", !.pc = "previous", !.user = u,
                               !.amounts = A, !.price = auction.currentPrice]
  <2>1. /\ q.last = NoBid /\ q.op = "hidden" /\ q.pc = "previous" /\ q.user = u
    BY <1>i
  <2>2. /\ Goto(r, q) /\ UNCHANGED <<now, auction, bids, nextId, balance, ledger>>
    BY <1>2 DEF ValidateHidden
  <2> HIDE DEF q
  <2> QED BY <2>1, <2>2, QuietRequest DEF Carrying, Counted
<1>3. ASSUME NEW r \in Requests, NEW u \in Users, NEW d, ReadForDeposit(r, u, d)
      PROVE  Quiet
  <2> DEFINE q == [Idle EXCEPT !.op = "deposit", !.pc = "tx", !.user = u,
                               !.amounts = {d}]
  <2>1. /\ q.last = NoBid /\ q.op = "deposit" /\ q.pc = "tx" /\ q.user = u
    BY <1>i
  <2>2. /\ Goto(r, q) /\ UNCHANGED <<now, auction, bids, nextId, balance, ledger>>
    BY <1>3 DEF ReadForDeposit
  <2> HIDE DEF q
  <2> QED BY <2>1, <2>2, QuietRequest DEF Carrying, Counted
<1>4. ASSUME NEW r \in Requests, NEW pc \in {"hiddenCount", "lastBid", "user"},
             req[r].op = "hidden", Goto(r, Step(r, pc)),
             UNCHANGED <<now, auction, bids, nextId, balance, ledger>>,
             pc # "hiddenCount" => Counted(req[r]) \/ HiddenOf(req[r].user) = {}
      PROVE  Quiet
  <2> DEFINE q == Step(r, pc)
  <2>1. q.last = req[r].last /\ q.op = "hidden" /\ q.pc = pc /\ q.user = req[r].user
    BY <1>4, <1>r DEF Step, Request
  <2> HIDE DEF q
  <2> QED BY <2>1, <1>4, QuietRequest DEF Carrying, Counted, q
<1>5. ASSUME NEW r \in Requests, ReadPrevious(r) PROVE Quiet
  BY <1>5, <1>4, <1>r DEF ReadPrevious, CarriesOK
<1>6. ASSUME NEW r \in Requests, ReadHiddenCount(r) PROVE Quiet
  BY <1>6, <1>4, <1>r DEF ReadHiddenCount, CarriesOK, NoHiddenYet
<1>7. ASSUME NEW r \in Requests, ReadLastPublicBid(r) PROVE Quiet
  <2>1. Counted(req[r]) BY <1>7 DEF ReadLastPublicBid, Counted
  <2> QED BY <2>1, <1>7, <1>4 DEF ReadLastPublicBid
<1>8. ASSUME NEW r \in Requests, ReadLastBid(r) PROVE Quiet
  <2>1. PICK last \in NewestOrNull(bids) :
          Goto(r, [Step(r, "user") EXCEPT !.last = last])
    BY <1>8 DEF ReadLastBid
  <2> DEFINE q == [Step(r, "user") EXCEPT !.last = last]
  <2>2. /\ q.last = last /\ q.op = "bid" /\ q.pc = "user" /\ q.user = req[r].user
    BY <1>8, <1>r DEF Step, Request, ReadLastBid
  <2>3. last \in bids \cup {NoBid} BY <2>1, NewestInSet
  <2>4. Goto(r, q) /\ UNCHANGED <<now, auction, bids, nextId, balance, ledger>>
    BY <1>8, <2>1 DEF ReadLastBid
  <2> HIDE DEF q
  <2> QED BY <2>2, <2>3, <2>4, QuietRequest DEF Carrying, Counted
<1>9. ASSUME NEW r \in Requests, ReadUser(r) PROVE Quiet
  <2> DEFINE q == [Step(r, "tx") EXCEPT !.funds = balance[req[r].user]]
  <2>1. /\ q.last = req[r].last /\ q.op = req[r].op /\ q.pc = "tx"
        /\ q.user = req[r].user /\ q.amounts = req[r].amounts
    BY <1>r DEF Step, Request
  <2>2. req[r].op \in {"bid", "hidden"} /\ req[r].pc = "user"
    BY <1>9, <1>r DEF ReadUser, CarriesOK
  <2>3. /\ Goto(r, q) /\ UNCHANGED <<now, auction, bids, nextId, balance, ledger>>
        /\ \A a \in req[r].amounts : balance[req[r].user] >= a
    BY <1>9 DEF ReadUser, CanAfford
  <2> HIDE DEF q
  <2> QED BY <2>1, <2>2, <2>3, QuietRequest DEF Carrying, Counted
<1>10. ASSUME NEW r \in Requests, ReadForClose(r) PROVE Quiet
  <2> DEFINE paid(last) == last # NoBid /\ Refunded(last)
             q(last) == [Idle EXCEPT !.op = "close", !.pc = "tx",
                           !.last = IF paid(last) THEN last ELSE NoBid,
                           !.funds = IF paid(last) THEN balance[last.user] ELSE 0]
  <2>1. PICK last \in NewestOrNull(Public) : Goto(r, q(last))
    BY <1>10 DEF ReadForClose
  <2>2. last \in bids \cup {NoBid} BY <2>1, NewestInSet DEF Public
  <2>3. /\ q(last).last = IF paid(last) THEN last ELSE NoBid
        /\ q(last).op = "close" /\ q(last).user = NoUser
    BY <1>i
  <2>4. q(last).last = NoBid \/ (q(last).last \in bids /\ Refunded(q(last).last))
    <3>1. CASE paid(last) BY <3>1, <2>2, <2>3
    <3>2. CASE ~paid(last) BY <3>2, <2>3
    <3> QED BY <3>1, <3>2
  <2>5. UNCHANGED <<now, auction, bids, nextId, balance, ledger>>
    BY <1>10 DEF ReadForClose
  <2> HIDE DEF q
  <2> QED BY <2>1, <2>3, <2>4, <2>5, QuietRequest DEF Carrying, Counted
<1>11. ASSUME NEW r \in Requests, ReadForEnd(r) PROVE Quiet
  <2>1. PICK last \in bids \cup {NoBid} :
          Goto(r, [Idle EXCEPT !.op = "end", !.pc = "tx", !.last = last])
    BY <1>11 DEF ReadForEnd
  <2> DEFINE q == [Idle EXCEPT !.op = "end", !.pc = "tx", !.last = last]
  <2>2. q.last = last /\ q.op = "end" /\ q.user = NoUser BY <1>i
  <2>3. Goto(r, q) /\ UNCHANGED <<now, auction, bids, nextId, balance, ledger>>
    BY <1>11, <2>1 DEF ReadForEnd
  <2> HIDE DEF q
  <2> QED BY <2>1, <2>2, <2>3, QuietRequest DEF Carrying, Counted
<1>12. ASSUME NEW r \in Requests, Fail(r) PROVE Quiet
  <2>1. Idle.last = NoBid /\ Idle.op = "none" /\ Idle.user = NoUser BY <1>i
  <2> QED BY <2>1, <1>12, QuietRequest DEF Carrying, Counted, Fail
<1>13. ASSUME NEW r \in Requests, CommitEnd(r) PROVE Quiet
  <2>1. Idle.last = NoBid /\ Idle.op = "none" /\ Idle.user = NoUser BY <1>i
  <2>2. req' = [req EXCEPT ![r] = Idle] /\ UNCHANGED <<bids, nextId, balance, ledger>>
    BY <1>13 DEF CommitEnd, Goto
  <2>3. auction'.bidCount = auction.bidCount
    BY <1>13 DEF CommitEnd, TypeInv, TypeOK
  <2>4. \A s \in Requests : req'[s] = IF s = r THEN Idle ELSE req[s]
    BY <2>2 DEF TypeInv, TypeOK
  <2> QED BY <2>1, <2>2, <2>3, <2>4 DEF Quiet, Moves, Carrying, Counted
<1>14. CASE Tick BY <1>14 DEF Tick, Quiet
<1>15. CASE UNCHANGED vars BY <1>15 DEF vars, Quiet
<1> QED
  BY <1>1, <1>2, <1>3, <1>5, <1>6, <1>7, <1>8, <1>9, <1>10, <1>11, <1>12, <1>13,
     <1>14, <1>15 DEF Next

-----------------------------------------------------------------------------
(* The ledger as a set of rows. *)

Rows(l) == {l[i] : i \in 1..Len(l)}

LEMMA RefundedRows == \A b : Refunded(b) <=> \E row \in Rows(ledger) : row.bid = b.id
  BY DEF Refunded, Rows

LEMMA RowsAppended ==
  ASSUME NEW l \in Seq(Row), NEW m \in Seq(Row)
  PROVE  Rows(l \o m) = Rows(l) \cup Rows(m)
<1>0. Len(l) \in Nat /\ Len(m) \in Nat /\ Len(l \o m) = Len(l) + Len(m)
  BY Appended
<1>1. ASSUME NEW i \in 1..Len(l \o m) PROVE (l \o m)[i] \in Rows(l) \cup Rows(m)
  <2>1. CASE i \in 1..Len(l)
    <3>1. (l \o m)[i] = l[i] BY <2>1, Appended
    <3> QED BY <2>1, <3>1 DEF Rows
  <2>2. CASE i - Len(l) \in 1..Len(m)
    <3>1. (l \o m)[Len(l) + (i - Len(l))] = m[i - Len(l)] BY <2>2, Appended
    <3>2. Len(l) + (i - Len(l)) = i BY <1>0
    <3> QED BY <2>2, <3>1, <3>2 DEF Rows
  <2> QED BY <1>0, <2>1, <2>2
<1>2. ASSUME NEW i \in 1..Len(l) PROVE l[i] \in Rows(l \o m)
  <2>1. i \in 1..Len(l \o m) /\ (l \o m)[i] = l[i] BY Appended
  <2> QED BY <2>1 DEF Rows
<1>3. ASSUME NEW i \in 1..Len(m) PROVE m[i] \in Rows(l \o m)
  <2>1. Len(l) + i \in 1..Len(l \o m) /\ (l \o m)[Len(l) + i] = m[i] BY Appended
  <2> QED BY <2>1 DEF Rows
<1> QED BY <1>1, <1>2, <1>3 DEF Rows

LEMMA RowsRow1 ==
  ASSUME NEW type, NEW u, NEW amount, NEW bid, NEW after
  PROVE  Rows(Row1(type, u, amount, bid, after)) =
           {[type |-> type, user |-> u, amount |-> amount, bid |-> bid,
             balanceAfter |-> after]}
  BY DEF Rows, Row1

(* The rows of a refund: none, or one that repeats the refunded bid. *)
LEMMA RowsRefund ==
  ASSUME NEW q \in Request
  PROVE  /\ q.last = NoBid => Rows(RefundRow(q)) = {}
         /\ q.last # NoBid => \E row : Rows(RefundRow(q)) = {row}
         /\ \A row \in Rows(RefundRow(q)) :
              /\ row.type = "BID_REFUND" /\ row.user = q.last.user
              /\ row.amount = q.last.amount /\ row.bid = q.last.id
<1>1. CASE q.last = NoBid BY <1>1, RefundRowType DEF Rows
<1>2. CASE q.last # NoBid
  <2>1. Rows(RefundRow(q)) = {RefundRow(q)[1]} BY <1>2, RefundRowType DEF Rows
  <2> QED BY <1>2, <2>1, RefundRowType
<1> QED BY <1>1, <1>2

(* The effect of each transaction on the rows. *)
LEMMA RowsBid ==
  ASSUME TypeInv, NEW r \in Requests, CommitBid(r)
  PROVE  /\ req[r] \in Request
         /\ \E row : /\ row.bid = Null
                     /\ Rows(ledger') = Rows(ledger) \cup Rows(RefundRow(req[r]))
                                                     \cup {row}
                     /\ row.type = "BID_PAYMENT" /\ row.user = req[r].user
                     /\ row.amount \in req[r].amounts
                     /\ bids' = bids \cup
                          {[id |-> nextId, user |-> req[r].user, amount |-> row.amount,
                            hidden |-> FALSE, at |-> now]}
<1> DEFINE q == req[r]
<1>1. q \in Request /\ CarriesOK(q) /\ ledger \in Seq(Row) BY DEF TypeInv, TypeOK
<1>2. q.user \in Users /\ q.amounts \subseteq Nat /\ q.funds \in Int
  BY <1>1, ConstantsAssumption DEF CommitBid, CarriesOK, Request
<1>3. PICK a \in q.amounts :
        /\ ledger' = ledger \o RefundRow(q)
                         \o Row1("BID_PAYMENT", q.user, a, Null, q.funds - a)
        /\ bids' = bids \cup {[id |-> nextId, user |-> q.user, amount |-> a,
                               hidden |-> FALSE, at |-> now]}
  BY DEF CommitBid
<1>4. RefundRow(q) \in Seq(Row) BY <1>1, RefundRowType
<1>5. Row1("BID_PAYMENT", q.user, a, Null, q.funds - a) \in Seq(Row)
  <2>1. a \in Nat /\ q.funds - a \in Int /\ Null \in Nat BY <1>2, <1>3 DEF Null
  <2> QED BY <2>1, <1>2, Row1Type
<1>6. ledger \o RefundRow(q) \in Seq(Row) BY <1>1, <1>4, Appended
<1> DEFINE row == [type |-> "BID_PAYMENT", user |-> q.user, amount |-> a,
                   bid |-> Null, balanceAfter |-> q.funds - a]
<1>7. Rows(ledger') = Rows(ledger) \cup Rows(RefundRow(q)) \cup {row}
  <2>1. Rows(ledger \o RefundRow(q)) = Rows(ledger) \cup Rows(RefundRow(q))
    BY <1>1, <1>4, RowsAppended
  <2>2. Rows(ledger') = Rows(ledger \o RefundRow(q))
                          \cup Rows(Row1("BID_PAYMENT", q.user, a, Null, q.funds - a))
    BY <1>3, <1>5, <1>6, RowsAppended
  <2> QED BY <2>1, <2>2, RowsRow1
<1>8. /\ row.bid = Null /\ row.type = "BID_PAYMENT" /\ row.user = q.user
      /\ row.amount = a
  OBVIOUS
<1> HIDE DEF row
<1> QED BY <1>1, <1>3, <1>7, <1>8

LEMMA RowsHidden ==
  ASSUME TypeInv, NEW r \in Requests, CommitHidden(r)
  PROVE  \E row : /\ row.bid = Null /\ Rows(ledger') = Rows(ledger) \cup {row}
                  /\ row.type = "BID_PAYMENT" /\ row.user = req[r].user
                  /\ row.amount = Charge(req[r].amounts)
                  /\ \A a \in req[r].amounts : a <= row.amount
<1> DEFINE q == req[r]
           paid == Charge(q.amounts)
<1>1. q \in Request /\ CarriesOK(q) /\ ledger \in Seq(Row) BY DEF TypeInv, TypeOK
<1>2. /\ q.user \in Users /\ q.amounts \in SUBSET Amounts /\ q.amounts # {}
      /\ Cardinality(q.amounts) <= 3 /\ q.funds \in Int
  BY <1>1 DEF CommitHidden, CarriesOK, Request
<1>3. paid \in Nat /\ \A a \in q.amounts : a <= paid
  <2>1. IsFiniteSet(q.amounts) /\ q.amounts \subseteq Nat /\ q.amounts \subseteq Int
    BY <1>2, FiniteAmounts
  <2> QED BY <2>1, <1>2, MaxOfFinite DEF Charge
<1>4. ledger' = ledger \o Row1("BID_PAYMENT", q.user, paid, Null, q.funds - paid)
  BY DEF CommitHidden
<1>5. Row1("BID_PAYMENT", q.user, paid, Null, q.funds - paid) \in Seq(Row)
  <2>1. q.funds - paid \in Int /\ Null \in Nat BY <1>2, <1>3 DEF Null
  <2> QED BY <2>1, <1>2, <1>3, Row1Type
<1> DEFINE row == [type |-> "BID_PAYMENT", user |-> q.user, amount |-> paid,
                   bid |-> Null, balanceAfter |-> q.funds - paid]
<1>6. Rows(ledger') = Rows(ledger) \cup {row}
  BY <1>1, <1>4, <1>5, RowsAppended, RowsRow1
<1>7. /\ row.bid = Null /\ row.type = "BID_PAYMENT" /\ row.user = q.user
      /\ row.amount = paid
  OBVIOUS
<1> HIDE DEF row
<1> QED BY <1>3, <1>6, <1>7

LEMMA RowsDeposit ==
  ASSUME TypeInv, NEW r \in Requests, CommitDeposit(r)
  PROVE  \E row : row.bid = Null /\ Rows(ledger') = Rows(ledger) \cup {row}
<1> DEFINE q == req[r]
<1>1. /\ q \in Request /\ CarriesOK(q) /\ ledger \in Seq(Row)
      /\ balance \in [Users -> Int]
  BY DEF TypeInv, TypeOK
<1>2. q.user \in Users /\ q.amounts \subseteq Nat
  BY <1>1, ConstantsAssumption DEF CommitDeposit, CarriesOK
<1>3. PICK d \in q.amounts :
        ledger' = ledger \o Row1("DEPOSIT", q.user, d, Null, balance[q.user] + d)
  BY DEF CommitDeposit
<1>4. Row1("DEPOSIT", q.user, d, Null, balance[q.user] + d) \in Seq(Row)
  <2>1. d \in Nat /\ balance[q.user] + d \in Int /\ Null \in Nat
    BY <1>1, <1>2, <1>3 DEF Null
  <2> QED BY <2>1, <1>2, Row1Type
<1>5. Rows(ledger') = Rows(ledger) \cup
        {[type |-> "DEPOSIT", user |-> q.user, amount |-> d, bid |-> Null,
          balanceAfter |-> balance[q.user] + d]}
  BY <1>1, <1>3, <1>4, RowsAppended, RowsRow1
<1> QED BY <1>5

LEMMA RowsClose ==
  ASSUME TypeInv, NEW r \in Requests, CommitClose(r)
  PROVE  \A row \in Rows(ledger') : row.bid = Null
<1> DEFINE l == ledger \o RefundRow(req[r])
<1>1. ledger' = SetNull(l) BY DEF CommitClose
<1>2. l \in Seq(Row) /\ req[r] \in Request
  BY RefundRowType, Appended DEF TypeInv, TypeOK
<1>3. Len(l) \in Nat /\ \A i \in 1..Len(l) : l[i] \in Row
  BY <1>2, LenProperties, ElementOfSeq
<1> HIDE DEF l
<1>4. Len(SetNull(l)) = Len(l) /\ \A i \in 1..Len(l) : SetNull(l)[i].bid = Null
  BY <1>3 DEF SetNull, Row
<1> QED BY <1>1, <1>4 DEF Rows

-----------------------------------------------------------------------------
(* The inductive invariant: ids identify bids, rows repeat the bid they    *)
(* are tied to, the bid a request carries is the row it read, and a close  *)
(* carries only a bid that is refunded or deleted.                         *)

IdsOK ==
  /\ \A b \in bids : b.id < nextId
  /\ \A b, c \in bids : b.id = c.id => b = c

RowsOK ==
  \A row \in Rows(ledger) :
    /\ row.bid < nextId
    /\ \A b \in bids : row.bid = b.id =>
         row.type = "BID_REFUND" /\ row.user = b.user /\ row.amount = b.amount

LastOK ==
  \A r \in Requests : LET last == req[r].last IN
    last # NoBid => /\ last.id < nextId
                    /\ \A b \in bids : b.id = last.id => b = last

CloseOK ==
  \A r \in Requests : LET last == req[r].last IN
    req[r].op = "close" /\ last # NoBid =>
      Refunded(last) \/ \A b \in bids : b.id # last.id

LedgerInv == IdsOK /\ RowsOK /\ LastOK /\ CloseOK /\ BidCountExact

LEMMA InitLedger == Init => LedgerInv
<1> SUFFICES ASSUME Init PROVE LedgerInv OBVIOUS
<1>1. Rows(ledger) = {} BY DEF Init, Rows
<1>2. Public = {} BY DEF Init, Public
<1>3. \A r \in Requests : req[r].last = NoBid BY DEF Init, Idle
<1> QED BY <1>1, <1>2, <1>3, FS_EmptySet
        DEF Init, LedgerInv, IdsOK, RowsOK, LastOK, CloseOK, BidCountExact

LEMMA QuietLedger == TypeInv /\ LedgerInv /\ Quiet => LedgerInv'
<1> SUFFICES ASSUME TypeInv, LedgerInv, Quiet PROVE LedgerInv' OBVIOUS
<1>1. IdsOK' BY DEF LedgerInv, IdsOK, Quiet
<1>2. RowsOK' BY DEF LedgerInv, RowsOK, Quiet, Rows
<1>m. \A r \in Requests : req'[r] = req[r] \/ Moves(r) BY DEF Quiet
<1>3. LastOK' BY <1>m DEF LedgerInv, IdsOK, LastOK, Quiet, Moves
<1>4. CloseOK' BY <1>m DEF LedgerInv, CloseOK, Quiet, Moves, Refunded
<1>5. BidCountExact' BY DEF LedgerInv, BidCountExact, Public, Quiet
<1> QED BY <1>1, <1>2, <1>3, <1>4, <1>5 DEF LedgerInv

LEMMA BidLedger ==
  ASSUME TypeInv, TypeInv', LedgerInv, NEW r \in Requests, CommitBid(r)
  PROVE  LedgerInv'
<1> DEFINE q == req[r]
<1>1. PICK row : /\ row.bid = Null
                 /\ Rows(ledger') = Rows(ledger) \cup Rows(RefundRow(q)) \cup {row}
  BY RowsBid
<1>2. q \in Request BY RowsBid
<1>3. PICK new : /\ bids' = bids \cup {new} /\ new.id = nextId /\ ~new.hidden
                 /\ new \in Bid
  <2>1. PICK a \in q.amounts :
          bids' = bids \cup {[id |-> nextId, user |-> q.user, amount |-> a,
                              hidden |-> FALSE, at |-> now]}
    BY DEF CommitBid
  <2> DEFINE b == [id |-> nextId, user |-> q.user, amount |-> a,
                   hidden |-> FALSE, at |-> now]
  <2>2. b.id = nextId /\ ~b.hidden OBVIOUS
  <2>3. bids' \subseteq Bid BY DEF TypeInv, TypeOK
  <2> QED BY <2>1, <2>2, <2>3
<1>4. nextId' = nextId + 1 /\ nextId \in Nat \ {0} /\ bids \subseteq Bid
  BY DEF CommitBid, TypeInv, TypeOK
<1>5. /\ req' = [req EXCEPT ![r] = Idle] /\ Idle.last = NoBid
      /\ \A s \in Requests : req'[s] = req[s] \/ req'[s].last = NoBid
  BY DEF CommitBid, Goto, Idle, TypeInv, TypeOK
<1>6. \A b \in bids : b.id \in Nat \ {0} /\ b.id < nextId
  BY <1>4, BidFields DEF LedgerInv, IdsOK
<1>7. \A x \in Rows(ledger) : x.bid \in Nat /\ x.bid < nextId
  <2>1. ledger \in Seq(Row) BY DEF TypeInv, TypeOK
  <2>2. \A x \in Rows(ledger) : x \in Row BY <2>1, ElementOfSeq DEF Rows
  <2> QED BY <2>2 DEF LedgerInv, RowsOK, Row
<1>8. \A x \in Rows(RefundRow(q)) :
        /\ x.bid < nextId
        /\ \A b \in bids : b.id = x.bid =>
             x.type = "BID_REFUND" /\ x.user = b.user /\ x.amount = b.amount
  BY <1>2, RowsRefund DEF LedgerInv, LastOK
<1>9. \A x \in Rows(RefundRow(q)) : x.bid \in Nat
  BY <1>2, RowsRefund, BidFields DEF Request
<1>10. IdsOK' BY <1>3, <1>4, <1>6 DEF LedgerInv, IdsOK
<1>11. RowsOK'
  <2>1. \A x \in Rows(ledger') : x.bid \in Nat /\ x.bid < nextId
    BY <1>1, <1>4, <1>7, <1>8, <1>9 DEF Null
  <2>2. \A x \in Rows(ledger'), b \in bids : x.bid = b.id =>
          x.type = "BID_REFUND" /\ x.user = b.user /\ x.amount = b.amount
    BY <1>1, <1>6, <1>8 DEF LedgerInv, RowsOK, Null
  <2> QED BY <2>1, <2>2, <1>3, <1>4 DEF RowsOK
<1>12. LastOK'
  <2> SUFFICES ASSUME NEW s \in Requests, req[s].last # NoBid, req'[s].last = req[s].last
               PROVE  /\ req[s].last.id < nextId'
                      /\ \A b \in bids' : b.id = req[s].last.id => b = req[s].last
    BY <1>5 DEF LastOK
  <2>1. req[s].last.id < nextId /\ req[s].last.id \in Nat
    <3>1. req[s].last \in Bid BY DEF TypeInv, TypeOK, Request
    <3> QED BY <3>1, BidFields DEF LedgerInv, LastOK
  <2> QED BY <2>1, <1>3, <1>4 DEF LedgerInv, LastOK
<1>13. CloseOK'
  <2> SUFFICES ASSUME NEW s \in Requests, req[s].op = "close", req[s].last # NoBid
               PROVE  \/ \E x \in Rows(ledger') : x.bid = req[s].last.id
                      \/ \A b \in bids' : b.id # req[s].last.id
    <3>1. \A b : Refunded(b)' <=> \E x \in Rows(ledger') : x.bid = b.id
      BY DEF Refunded, Rows
    <3> QED BY <3>1, <1>5 DEF CloseOK
  <2>1. req[s].last.id < nextId /\ req[s].last.id \in Nat
    <3>1. req[s].last \in Bid BY DEF TypeInv, TypeOK, Request
    <3> QED BY <3>1, BidFields DEF LedgerInv, LastOK
  <2>2. \/ \E x \in Rows(ledger) : x.bid = req[s].last.id
        \/ \A b \in bids : b.id # req[s].last.id
    BY RefundedRows DEF LedgerInv, CloseOK
  <2> QED BY <2>1, <2>2, <1>1, <1>3, <1>4
<1>14. BidCountExact'
  <2>1. Public' = Public \cup {new} /\ new \notin Public
    BY <1>3, <1>4, <1>6 DEF Public
  <2>2. IsFiniteSet(Public) BY FS_Subset DEF TypeInv, TypeOK, Public
  <2>3. auction'.bidCount = auction.bidCount + 1 BY DEF CommitBid, TypeInv, TypeOK
  <2> QED BY <2>1, <2>2, <2>3, FS_AddElement DEF LedgerInv, BidCountExact
<1> QED BY <1>10, <1>11, <1>12, <1>13, <1>14 DEF LedgerInv

LEMMA HiddenLedger ==
  ASSUME TypeInv, TypeInv', LedgerInv, NEW r \in Requests, CommitHidden(r)
  PROVE  LedgerInv'
<1> DEFINE q == req[r]
           n == Cardinality(q.amounts)
<1>1. PICK row : row.bid = Null /\ Rows(ledger') = Rows(ledger) \cup {row}
  BY RowsHidden
<1>2. /\ bids' = bids \cup HiddenRows(q) /\ nextId' = nextId + n
      /\ q.op = "hidden" /\ auction' = auction
  BY DEF CommitHidden
<1>3. /\ n \in Nat
      /\ \A b \in HiddenRows(q) : b.hidden /\ b.id >= nextId /\ b.id < nextId + n
      /\ \A b, c \in HiddenRows(q) : b.id = c.id => b = c
      /\ HiddenRows(q) \subseteq Bid
  BY <1>2, HiddenRowsType
<1>4. nextId \in Nat \ {0} /\ bids \subseteq Bid BY DEF TypeInv, TypeOK
<1>5. \A s \in Requests : req'[s] = req[s] \/ req'[s].last = NoBid
  BY DEF CommitHidden, Goto, Idle, TypeInv, TypeOK
<1>6. /\ \A b \in bids : b.id \in Nat \ {0} /\ b.id < nextId
      /\ \A b \in HiddenRows(q) : b.id \in Nat \ {0}
  BY <1>3, <1>4, BidFields DEF LedgerInv, IdsOK
<1>7. \A x \in Rows(ledger) : x.bid \in Nat /\ x.bid < nextId
  <2>1. ledger \in Seq(Row) BY DEF TypeInv, TypeOK
  <2>2. \A x \in Rows(ledger) : x \in Row BY <2>1, ElementOfSeq DEF Rows
  <2> QED BY <2>2 DEF LedgerInv, RowsOK, Row
<1> HIDE DEF n, q
<1>8. IdsOK'
  <2>1. \A b \in bids' : b.id < nextId' BY <1>2, <1>3, <1>4, <1>6
  <2>2. \A b, c \in bids' : b.id = c.id => b = c
    BY <1>2, <1>3, <1>4, <1>6 DEF LedgerInv, IdsOK
  <2> QED BY <2>1, <2>2 DEF IdsOK
<1>9. RowsOK'
  <2>1. \A x \in Rows(ledger') : x.bid \in Nat /\ x.bid < nextId
    BY <1>1, <1>4, <1>7 DEF Null
  <2>2. \A x \in Rows(ledger'), b \in bids : x.bid = b.id =>
          x.type = "BID_REFUND" /\ x.user = b.user /\ x.amount = b.amount
    BY <1>1, <1>6 DEF LedgerInv, RowsOK, Null
  <2>3. \A x \in Rows(ledger'), b \in HiddenRows(q) : x.bid # b.id
    BY <2>1, <1>3, <1>4, <1>6
  <2>4. \A x \in Rows(ledger') : x.bid < nextId' BY <2>1, <1>2, <1>3, <1>4
  <2> QED BY <2>2, <2>3, <2>4, <1>2 DEF RowsOK
<1>10. \A s \in Requests : req[s].last # NoBid =>
         req[s].last.id < nextId /\ req[s].last.id \in Nat
  <2> TAKE s \in Requests
  <2>1. req[s].last # NoBid => req[s].last \in Bid BY DEF TypeInv, TypeOK, Request
  <2> QED BY <2>1, BidFields DEF LedgerInv, LastOK
<1>11. \A s \in Requests : req[s].last # NoBid =>
         \A b \in HiddenRows(q) : b.id # req[s].last.id
  BY <1>10, <1>3, <1>4, <1>6
<1>12. LastOK'
  <2> SUFFICES ASSUME NEW s \in Requests, req[s].last # NoBid, req'[s].last = req[s].last
               PROVE  /\ req[s].last.id < nextId'
                      /\ \A b \in bids' : b.id = req[s].last.id => b = req[s].last
    BY <1>5 DEF LastOK
  <2>1. req[s].last.id < nextId' BY <1>10, <1>2, <1>3, <1>4
  <2> QED BY <2>1, <1>2, <1>11 DEF LedgerInv, LastOK
<1>13. CloseOK'
  <2> SUFFICES ASSUME NEW s \in Requests, req[s].op = "close", req[s].last # NoBid
               PROVE  \/ \E x \in Rows(ledger') : x.bid = req[s].last.id
                      \/ \A b \in bids' : b.id # req[s].last.id
    <3>1. \A b : Refunded(b)' <=> \E x \in Rows(ledger') : x.bid = b.id
      BY DEF Refunded, Rows
    <3> QED BY <3>1, <1>5 DEF CloseOK
  <2>1. \/ \E x \in Rows(ledger) : x.bid = req[s].last.id
        \/ \A b \in bids : b.id # req[s].last.id
    BY RefundedRows DEF LedgerInv, CloseOK
  <2> QED BY <2>1, <1>1, <1>2, <1>11
<1>14. BidCountExact'
  <2>1. Public' = Public BY <1>2, <1>3 DEF Public
  <2> QED BY <2>1, <1>2 DEF LedgerInv, BidCountExact
<1> QED BY <1>8, <1>9, <1>12, <1>13, <1>14 DEF LedgerInv

LEMMA DepositLedger ==
  ASSUME TypeInv, LedgerInv, NEW r \in Requests, CommitDeposit(r)
  PROVE  LedgerInv'
<1>1. PICK row : row.bid = Null /\ Rows(ledger') = Rows(ledger) \cup {row}
  BY RowsDeposit
<1>2. UNCHANGED <<bids, nextId, auction>> BY DEF CommitDeposit
<1>3. \A s \in Requests : req'[s] = req[s] \/ req'[s].last = NoBid
  BY DEF CommitDeposit, Goto, Idle, TypeInv, TypeOK
<1>4. nextId \in Nat \ {0} /\ \A b \in bids : b.id # Null
  BY BidFields DEF TypeInv, TypeOK, Null
<1>5. IdsOK' BY <1>2 DEF LedgerInv, IdsOK
<1>6. RowsOK' BY <1>1, <1>2, <1>4 DEF LedgerInv, RowsOK, Null
<1>7. LastOK' BY <1>2, <1>3 DEF LedgerInv, LastOK
<1>8. CloseOK'
  <2>1. \A b : Refunded(b) => Refunded(b)' BY <1>1 DEF Refunded, Rows
  <2> QED BY <2>1, <1>2, <1>3 DEF LedgerInv, CloseOK
<1>9. BidCountExact' BY <1>2 DEF LedgerInv, BidCountExact, Public
<1> QED BY <1>5, <1>6, <1>7, <1>8, <1>9 DEF LedgerInv

LEMMA CloseLedger ==
  ASSUME TypeInv, LedgerInv, NEW r \in Requests, CommitClose(r)
  PROVE  LedgerInv'
<1>1. \A row \in Rows(ledger') : row.bid = Null BY RowsClose
<1>2. /\ bids' = {} /\ nextId' = nextId /\ nextId \in Nat \ {0}
      /\ auction'.bidCount = 0
  BY DEF CommitClose, TypeInv, TypeOK
<1>3. \A s \in Requests : req'[s] = req[s] \/ req'[s].last = NoBid
  BY DEF CommitClose, Goto, Idle, TypeInv, TypeOK
<1>4. IdsOK' BY <1>2 DEF IdsOK
<1>5. RowsOK' BY <1>1, <1>2 DEF RowsOK, Null
<1>6. LastOK' BY <1>2, <1>3 DEF LedgerInv, LastOK
<1>7. CloseOK' BY <1>2 DEF CloseOK
<1>8. BidCountExact'
  <2>1. Public' = {} BY <1>2 DEF Public
  <2> QED BY <2>1, <1>2, FS_EmptySet DEF BidCountExact
<1> QED BY <1>4, <1>5, <1>6, <1>7, <1>8 DEF LedgerInv

Inv == TypeInv /\ LedgerInv

LEMMA InitInv == Init => Inv
  BY InitTypeInv, InitLedger DEF Inv

LEMMA InvStep == Inv /\ [Next]_vars => Inv'
  BY TypeStep, StepKinds, QuietLedger, BidLedger, HiddenLedger, DepositLedger,
     CloseLedger DEF Inv

LEMMA Invariance == Spec => []Inv
  BY InitInv, InvStep, PTL DEF Spec

-----------------------------------------------------------------------------
(* Refund rows are those of the bid they name: of its owner and amount.    *)
THEOREM RefundsMatch == Spec => []RefundMatchesBid
<1>1. Inv => RefundMatchesBid
  BY DEF Inv, LedgerInv, RowsOK, Rows, RefundMatchesBid
<1> QED BY <1>1, Invariance, PTL

(* bid_count is the number of public bid rows, through every interleaving  *)
(* of bids, hidden bids, closings and failures.                            *)
THEOREM BidCountCorrect == Spec => []BidCountExact
<1>1. Inv => BidCountExact BY DEF Inv, LedgerInv
<1> QED BY <1>1, Invariance, PTL

(* A close that reaches its refund branch violates the unique index or the *)
(* foreign key of bid_id, so no committed close pays anybody.              *)
LEMMA CloseCarriesNothing ==
  ASSUME Inv, NEW r \in Requests, CommitClose(r)
  PROVE  req[r].last = NoBid
<1> SUFFICES ASSUME req[r].last # NoBid PROVE FALSE OBVIOUS
<1>1. req[r].op = "close" /\ Refundable(req[r].last)
  BY DEF CommitClose, RefundAccepted
<1> QED BY <1>1 DEF Inv, LedgerInv, CloseOK, Refundable

THEOREM CloseNeverPays == Spec => ManualCloseNeverPays
<1>1. Inv /\ [Next]_vars => [\A r \in Requests : CommitClose(r) => balance' = balance]_vars
  BY CloseCarriesNothing DEF CommitClose
<1> QED BY <1>1, Invariance, PTL DEF Spec, ManualCloseNeverPays

(* A bid that saw another releases exactly that one, which was not         *)
(* released before: the unique index makes the second of two racing bids   *)
(* roll back.                                                              *)
THEOREM OneInOneOutHolds == Spec => OneInOneOut
<1> DEFINE A == \A r \in Requests :
                  LET last == req[r].last IN
                  CommitBid(r) /\ last # NoBid =>
                    /\ last \in Unrefunded
                    /\ Unrefunded' = (Unrefunded \ {last}) \cup (bids' \ bids)
<1>1. Inv /\ [Next]_vars => [A]_vars
  <2> SUFFICES ASSUME Inv, NEW r \in Requests, CommitBid(r), req[r].last # NoBid
               PROVE  /\ req[r].last \in Unrefunded
                      /\ Unrefunded' = (Unrefunded \ {req[r].last}) \cup (bids' \ bids)
    OBVIOUS
  <2> DEFINE q == req[r]
  <2>1. PICK row : /\ row.bid = Null
                   /\ Rows(ledger') = Rows(ledger) \cup Rows(RefundRow(q)) \cup {row}
    BY RowsBid DEF Inv
  <2>2. q.last \in Unrefunded
    BY DEF CommitBid, RefundAccepted, Refundable, Unrefunded, Inv, LedgerInv, LastOK
  <2>3. PICK new : bids' = bids \cup {new} /\ new.id = nextId
    <3>1. PICK a \in q.amounts :
            bids' = bids \cup {[id |-> nextId, user |-> q.user, amount |-> a,
                                hidden |-> FALSE, at |-> now]}
      BY DEF CommitBid
    <3> DEFINE b == [id |-> nextId, user |-> q.user, amount |-> a,
                     hidden |-> FALSE, at |-> now]
    <3>2. b.id = nextId OBVIOUS
    <3> QED BY <3>1, <3>2
  <2>4. \A b \in bids : b.id < nextId /\ b.id \in Nat \ {0}
    BY BidFields DEF Inv, TypeInv, TypeOK, LedgerInv, IdsOK
  <2>5. nextId \in Nat \ {0} BY DEF Inv, TypeInv, TypeOK
  <2>6. new \notin bids BY <2>3, <2>4, <2>5
  <2>7. \A b : Refunded(b)' <=> \E x \in Rows(ledger') : x.bid = b.id
    BY DEF Refunded, Rows
  <2>8. \E x : Rows(RefundRow(q)) = {x} /\ x.bid = q.last.id
    BY RowsRefund DEF Inv, TypeInv, TypeOK
  <2>9. \A b \in bids : Refunded(b)' <=> Refunded(b) \/ b = q.last
    <3>1. \A b \in bids : b.id = q.last.id <=> b = q.last
      BY DEF Inv, LedgerInv, LastOK
    <3> QED BY <2>1, <2>4, <2>7, <2>8, <3>1, RefundedRows DEF Null
  <2>10. ~Refunded(new)'
    <3>1. \A x \in Rows(ledger) : x.bid # nextId
      <4>1. ledger \in Seq(Row) BY DEF Inv, TypeInv, TypeOK
      <4>2. \A x \in Rows(ledger) : x \in Row BY <4>1, ElementOfSeq DEF Rows
      <4> QED BY <4>2, <2>5 DEF Inv, LedgerInv, RowsOK, Row
    <3>2. q.last \in bids BY <2>2 DEF Unrefunded
    <3> QED BY <2>1, <2>3, <2>4, <2>5, <2>7, <2>8, <3>1, <3>2 DEF Null
  <2>11. Unrefunded' = (Unrefunded \ {q.last}) \cup {new}
    BY <2>3, <2>6, <2>9, <2>10 DEF Unrefunded
  <2> QED BY <2>2, <2>3, <2>6, <2>11
<1> QED BY <1>1, Invariance, PTL DEF Spec, OneInOneOut

-----------------------------------------------------------------------------
(* What a transaction does to the wallets of all users. *)

(* A transaction leaves the other requests alone and ends its own. *)
LEMMA CommitFrame ==
  ASSUME TypeInv, NEW r \in Requests, Goto(r, Idle)
  PROVE  req'[r] = Idle /\ \A s \in Requests \ {r} : req'[s] = req[s]
  BY DEF TypeInv, TypeOK, Goto

(* What a transaction takes from a wallet: from its own user's no more     *)
(* than it carries, from the others' nothing.                              *)
Takes(r) ==
  \E a \in req[r].amounts :
    /\ balance'[req[r].user] >= balance[req[r].user] - a
    /\ \A v \in Users : v # req[r].user => balance'[v] >= balance[v]

LEMMA BidTakes ==
  ASSUME TypeInv, NEW r \in Requests, CommitBid(r)
  PROVE  Takes(r)
<1> DEFINE q == req[r]
           u == q.user
<1>1. /\ u \in Users /\ q \in Request /\ q.amounts \subseteq Nat
      /\ balance \in [Users -> Int]
  BY ConstantsAssumption DEF CommitBid, TypeInv, TypeOK, CarriesOK
<1>2. PICK a \in q.amounts : balance' = Credit(AfterRefund(q), u, -a)
  BY DEF CommitBid
<1>3. a \in Nat BY <1>1, <1>2
<1>4. /\ AfterRefund(q) \in [Users -> Int]
      /\ \A v \in Users : AfterRefund(q)[v] >= balance[v]
  <2>1. CASE q.last = NoBid BY <2>1, <1>1 DEF AfterRefund
  <2>2. CASE q.last # NoBid
    <3>1. q.last \in Bid BY <2>2, <1>1 DEF Request
    <3>2. q.last.user \in Users /\ q.last.amount \in Nat BY <3>1, BidFields
    <3>3. AfterRefund(q) = Credit(balance, q.last.user, q.last.amount)
      BY <2>2 DEF AfterRefund
    <3>4. /\ AfterRefund(q) \in [Users -> Int]
          /\ \A v \in Users : v # q.last.user => AfterRefund(q)[v] = balance[v]
          /\ AfterRefund(q)[q.last.user] = balance[q.last.user] + q.last.amount
      <4> DEFINE w == q.last.user
                 x == q.last.amount
      <4>1. w \in Users /\ x \in Int /\ AfterRefund(q) = Credit(balance, w, x)
        BY <3>2, <3>3
      <4> HIDE DEF w, x, q
      <4>2. /\ AfterRefund(q) \in [Users -> Int]
            /\ \A v \in Users : v # w => AfterRefund(q)[v] = balance[v]
            /\ AfterRefund(q)[w] = balance[w] + x
        BY <4>1, <1>1, CreditType
      <4> QED BY <4>2 DEF w, x
    <3> QED BY <3>2, <3>4, <1>1
  <2> QED BY <2>1, <2>2
<1>5. /\ balance'[u] = AfterRefund(q)[u] - a
      /\ \A v \in Users : v # u => balance'[v] = AfterRefund(q)[v]
  <2>1. -a \in Int BY <1>3
  <2>2. AfterRefund(q)[u] + (-a) = AfterRefund(q)[u] - a BY <1>1, <1>3, <1>4
  <2> HIDE DEF q, u
  <2> QED BY <2>1, <2>2, <1>1, <1>2, <1>4, CreditType
<1>6. balance'[u] >= balance[u] - a BY <1>1, <1>3, <1>4, <1>5
<1>7. \A v \in Users : v # u => balance'[v] >= balance[v] BY <1>4, <1>5
<1> QED BY <1>2, <1>6, <1>7 DEF Takes

LEMMA HiddenTakes ==
  ASSUME TypeInv, NEW r \in Requests, CommitHidden(r)
  PROVE  Takes(r)
<1> DEFINE q == req[r]
           u == q.user
           paid == Charge(q.amounts)
<1>1. balance' = Credit(balance, u, -paid) /\ q.op = "hidden"
  BY DEF CommitHidden
<1>2. /\ u \in Users /\ q.amounts \in SUBSET Amounts /\ q.amounts # {}
      /\ balance \in [Users -> Int]
  BY <1>1 DEF TypeInv, TypeOK, CarriesOK
<1>3. paid \in q.amounts /\ paid \in Nat
  <2>1. IsFiniteSet(q.amounts) /\ q.amounts \subseteq Nat /\ q.amounts \subseteq Int
    BY <1>2, FiniteAmounts
  <2> QED BY <2>1, <1>2, MaxOfFinite DEF Charge
<1>4. balance'[u] = balance[u] - paid /\ \A v \in Users : v # u => balance'[v] = balance[v]
  <2> DEFINE x == -paid
  <2>1. x \in Int /\ balance' = Credit(balance, u, x) /\ balance[u] + x = balance[u] - paid
    BY <1>1, <1>2, <1>3
  <2> HIDE DEF q, u, paid, x
  <2>2. balance'[u] = balance[u] + x /\ \A v \in Users : v # u => balance'[v] = balance[v]
    BY <2>1, <1>2, CreditType
  <2> QED BY <2>1, <2>2
<1>5. /\ balance'[u] >= balance[u] - paid
      /\ \A v \in Users : v # u => balance'[v] >= balance[v]
  BY <1>2, <1>3, <1>4
<1> QED BY <1>3, <1>5 DEF Takes

LEMMA DepositGives ==
  ASSUME TypeInv, NEW r \in Requests, CommitDeposit(r)
  PROVE  \A v \in Users : balance'[v] >= balance[v]
<1> DEFINE q == req[r]
           u == q.user
<1>1. PICK d \in q.amounts : balance' = Credit(balance, u, d) BY DEF CommitDeposit
<1>2. u \in Users /\ d \in Nat /\ balance \in [Users -> Int]
  BY <1>1, ConstantsAssumption DEF CommitDeposit, TypeInv, TypeOK, CarriesOK
<1>3. balance'[u] = balance[u] + d /\ \A v \in Users : v # u => balance'[v] = balance[v]
  <2>1. d \in Int BY <1>2
  <2> HIDE DEF q, u
  <2> QED BY <2>1, <1>1, <1>2, CreditType
<1> QED BY <1>2, <1>3

-----------------------------------------------------------------------------
(* How far a wallet can be overdrawn.  The bids of a user that have passed *)
(* the balance check and not yet paid are pending.  While n are, one of    *)
(* them still finds its amount above Floor(n): every one that commits may  *)
(* take the largest amount from the others, and Floor falls by as much.    *)

PendingIn(rs, u) ==
  {r \in Requests : Carrying(rs[r].op, rs[r].pc) /\ rs[r].user = u}

Slots == Cardinality(Requests)
Most == Max({0} \cup Amounts)
Floor(n) == (n - Slots) * Most

Solvent(bal, P, rs) ==
  /\ P = {} => bal >= Floor(1)
  /\ P # {} => /\ bal >= Floor(Cardinality(P))
               /\ \E r \in P : \A a \in rs[r].amounts :
                                 bal - a >= Floor(Cardinality(P))

DebtInv == \A u \in Users : Solvent(balance[u], PendingIn(req, u), req)

LEMMA MostType ==
  /\ Slots \in Nat /\ Most \in Nat
  /\ \A a \in Amounts : a \in Nat /\ a <= Most
<1>1. Slots \in Nat BY ConstantsAssumption, FS_CardinalityType DEF Slots
<1>2. IsFiniteSet({0} \cup Amounts)
  BY ConstantsAssumption, FS_Singleton, FS_Union
<1>3. {0} \cup Amounts \subseteq Int /\ Amounts \subseteq Nat BY ConstantsAssumption
<1>4. Most \in {0} \cup Amounts /\ \A a \in {0} \cup Amounts : a <= Most
  BY <1>2, <1>3, MaxOfFinite DEF Most
<1> QED BY <1>1, <1>3, <1>4

LEMMA FloorType ==
  ASSUME NEW n \in Nat
  PROVE  /\ Floor(n) \in Int /\ Floor(n + 1) = Floor(n) + Most
         /\ n <= Slots => Floor(n) <= 0
         /\ n # 0 => Floor(1) <= Floor(n)
<1>1. /\ Slots \in Nat /\ Most \in Nat BY MostType
<1>2. \A s, m, k \in Nat :
        /\ (k - s) * m \in Int /\ (k + 1 - s) * m = (k - s) * m + m
        /\ k <= s => (k - s) * m <= 0
        /\ k # 0 => (1 - s) * m <= (k - s) * m
  <2> TAKE s, m, k \in Nat
  <2>1. (k - s) * m \in Int /\ (k + 1 - s) * m = (k - s) * m + m OBVIOUS
  <2>2. ASSUME k <= s PROVE (k - s) * m <= 0
    <3>1. (s - k) * m >= 0 BY <2>2
    <3>2. (k - s) * m = -((s - k) * m) OBVIOUS
    <3>3. (s - k) * m \in Int OBVIOUS
    <3> QED BY <3>1, <3>2, <3>3
  <2>3. ASSUME k # 0 PROVE (1 - s) * m <= (k - s) * m
    <3>1. (k - 1) * m >= 0 BY <2>3
    <3>2. (k - s) * m = (1 - s) * m + (k - 1) * m OBVIOUS
    <3>3. (1 - s) * m \in Int /\ (k - 1) * m \in Int OBVIOUS
    <3> QED BY <3>1, <3>2, <3>3
  <2> QED BY <2>1, <2>2, <2>3
<1> QED BY <1>1, <1>2 DEF Floor

LEMMA PendingType ==
  ASSUME NEW rs \in [Requests -> Request], \A r \in Requests : CarriesOK(rs[r]),
         NEW u \in Users
  PROVE  LET P == PendingIn(rs, u) IN
         /\ P \in SUBSET Requests /\ IsFiniteSet(P)
         /\ Cardinality(P) \in Nat /\ Cardinality(P) <= Slots
         /\ P # {} => Cardinality(P) # 0
         /\ \A r \in P : /\ rs[r].amounts # {}
                         /\ \A a \in rs[r].amounts : a \in Nat /\ a <= Most
<1> DEFINE P == PendingIn(rs, u)
<1>1. P \in SUBSET Requests BY DEF PendingIn
<1>2. /\ IsFiniteSet(P) /\ Cardinality(P) \in Nat /\ Cardinality(P) <= Slots
      /\ P # {} => Cardinality(P) # 0
  BY <1>1, ConstantsAssumption, FS_Subset, FS_CardinalityType, FS_EmptySet DEF Slots
<1>3. \A r \in P : rs[r].amounts # {} /\ rs[r].amounts \subseteq Amounts
  BY DEF PendingIn, Carrying, CarriesOK
<1> QED BY <1>1, <1>2, <1>3, MostType

(* A bid that has just been found affordable is such a one. *)
LEMMA SolventAfresh ==
  ASSUME NEW rs \in [Requests -> Request], \A s \in Requests : CarriesOK(rs[s]),
         NEW u \in Users, NEW bal \in Int, NEW r \in PendingIn(rs, u),
         \A a \in rs[r].amounts : bal >= a
  PROVE  Solvent(bal, PendingIn(rs, u), rs)
<1> DEFINE P == PendingIn(rs, u)
           n == Cardinality(P)
<1>1. /\ n \in Nat /\ n <= Slots /\ rs[r].amounts # {}
      /\ \A a \in rs[r].amounts : a \in Nat
  BY PendingType
<1> HIDE DEF n
<1>2. Floor(n) \in Int /\ Floor(n) <= 0 BY <1>1, FloorType
<1>3. bal >= Floor(n) BY <1>1, <1>2
<1>4. \A a \in rs[r].amounts : bal - a >= Floor(n) BY <1>1, <1>2
<1> QED BY <1>3, <1>4 DEF n, Solvent

(* More money, and the same bids pending. *)
LEMMA SolventMore ==
  ASSUME NEW rs \in [Requests -> Request], \A s \in Requests : CarriesOK(rs[s]),
         NEW u \in Users, NEW bal \in Int, NEW more \in Int, more >= bal,
         NEW rt, \A s \in PendingIn(rs, u) : rt[s] = rs[s],
         Solvent(bal, PendingIn(rs, u), rs)
  PROVE  Solvent(more, PendingIn(rs, u), rt)
<1> DEFINE P == PendingIn(rs, u)
           n == Cardinality(P)
<1>1. /\ n \in Nat /\ \A r \in P : \A a \in rs[r].amounts : a \in Nat
  BY PendingType
<1> HIDE DEF n
<1>2. Floor(n) \in Int /\ Floor(1) \in Int BY <1>1, FloorType
<1>3. ASSUME P = {} PROVE more >= Floor(1) BY <1>2, <1>3 DEF Solvent
<1>4. ASSUME P # {}
      PROVE  /\ more >= Floor(n)
             /\ \E r \in P : \A a \in rt[r].amounts : more - a >= Floor(n)
  <2>1. bal >= Floor(n) BY <1>4 DEF Solvent, n
  <2>2. PICK r \in P : \A a \in rs[r].amounts : bal - a >= Floor(n)
    BY <1>4 DEF Solvent, n
  <2>3. \A a \in rt[r].amounts : more - a >= Floor(n) BY <2>2, <1>1, <1>2
  <2>4. more >= Floor(n) BY <2>1, <1>2
  <2> QED BY <2>3, <2>4
<1> QED BY <1>3, <1>4 DEF n, Solvent

(* A pending bid takes one of its amounts, or nothing, and is gone.        *)
LEMMA SolventLess ==
  ASSUME NEW rs \in [Requests -> Request], \A s \in Requests : CarriesOK(rs[s]),
         NEW u \in Users, NEW bal \in Int, NEW less \in Int,
         NEW r \in PendingIn(rs, u), NEW a \in rs[r].amounts, less >= bal - a,
         NEW rt, \A s \in PendingIn(rs, u) \ {r} : rt[s] = rs[s],
         Solvent(bal, PendingIn(rs, u), rs)
  PROVE  Solvent(less, PendingIn(rs, u) \ {r}, rt)
<1> DEFINE P == PendingIn(rs, u)
           Q == P \ {r}
           n == Cardinality(Q)
<1>1. /\ IsFiniteSet(P) /\ Cardinality(P) \in Nat
      /\ \A s \in P : \A b \in rs[s].amounts : b \in Nat /\ b <= Most
  BY PendingType
<1>2. IsFiniteSet(Q) /\ n \in Nat /\ Cardinality(P) = n + 1
  <2>1. r \in P OBVIOUS
  <2> HIDE DEF P
  <2>2. IsFiniteSet(Q) /\ Cardinality(Q) = Cardinality(P) - 1
    BY <2>1, <1>1, FS_RemoveElement
  <2>3. Cardinality(Q) \in Nat BY <2>2, FS_CardinalityType
  <2> QED BY <2>2, <2>3, <1>1
<1>3. Q = {} => n = 0 BY FS_EmptySet
<1> HIDE DEF n, Q
<1>4. /\ Floor(n) \in Int /\ Floor(n + 1) = Floor(n) + Most /\ Most \in Nat
  BY <1>2, FloorType, MostType
<1>5. bal >= Floor(n + 1) BY <1>2 DEF Solvent
<1>6. PICK w \in P : \A b \in rs[w].amounts : bal - b >= Floor(n + 1)
  BY <1>2 DEF Solvent
<1>7. a \in Nat /\ a <= Most BY <1>1
<1>8. ASSUME w = r PROVE less >= Floor(n + 1)
  <2>1. bal - a >= Floor(n + 1) BY <1>6, <1>8
  <2> QED BY <2>1, <1>4, <1>7
<1>9. less >= Floor(n) BY <1>4, <1>5, <1>7
<1>10. ASSUME Q = {} PROVE less >= Floor(1)
  <2>1. w = r BY <1>6, <1>10 DEF Q
  <2> QED BY <2>1, <1>3, <1>8, <1>10
<1>11. ASSUME NEW s \in Q, NEW b \in rs[s].amounts, w = r
       PROVE  less - b >= Floor(n)
  <2>1. b \in Nat /\ b <= Most BY <1>1 DEF Q
  <2> QED BY <2>1, <1>4, <1>8, <1>11
<1>12. ASSUME NEW b \in rs[w].amounts PROVE less - b >= Floor(n)
  <2>1. b \in Nat /\ bal - b >= Floor(n + 1) BY <1>1, <1>6
  <2> QED BY <2>1, <1>4, <1>7
<1>13. ASSUME Q # {}
       PROVE  \E s \in Q : \A b \in rt[s].amounts : less - b >= Floor(n)
  <2>1. \A s \in Q : rt[s] = rs[s] BY DEF Q
  <2>2. CASE w = r BY <2>1, <2>2, <1>11, <1>13
  <2>3. CASE w # r
    <3>1. w \in Q BY <2>3, <1>6 DEF Q
    <3> QED BY <3>1, <2>1, <1>12
  <2> QED BY <2>2, <2>3
<1> QED BY <1>9, <1>10, <1>13 DEF n, Q, Solvent

LEMMA InitDebt == Init => DebtInv
<1> SUFFICES ASSUME Init, NEW u \in Users
             PROVE  Solvent(balance[u], PendingIn(req, u), req)
  BY DEF DebtInv
<1>1. \A r \in Requests : req[r].op = "none" BY DEF Init, Idle
<1>2. PendingIn(req, u) = {} BY <1>1 DEF PendingIn, Carrying
<1>3. balance[u] \in Nat BY ConstantsAssumption DEF Init
<1>4. Floor(1) \in Int /\ Floor(1) <= 0
  <2>1. Slots # 0
    BY ConstantsAssumption, FS_EmptySet DEF Slots
  <2>2. 1 <= Slots BY <2>1, MostType
  <2> QED BY <2>2, FloorType
<1>5. balance[u] >= Floor(1) BY <1>3, <1>4
<1> QED BY <1>2, <1>5 DEF Solvent

LEMMA QuietDebt ==
  ASSUME TypeInv, TypeInv', DebtInv, Quiet
  PROVE  DebtInv'
<1>t. /\ req \in [Requests -> Request] /\ \A s \in Requests : CarriesOK(req[s])
      /\ req' \in [Requests -> Request] /\ \A s \in Requests : CarriesOK(req'[s])
      /\ balance \in [Users -> Int] /\ balance' = balance
  BY DEF TypeInv, TypeOK, Quiet
<1> SUFFICES ASSUME NEW u \in Users
             PROVE  Solvent(balance[u], PendingIn(req', u), req')
  BY <1>t DEF DebtInv
<1> DEFINE P == PendingIn(req, u)
           Q == PendingIn(req', u)
<1>1. balance[u] \in Int /\ Solvent(balance[u], P, req) BY <1>t DEF DebtInv
<1>2. CASE req' = req BY <1>1, <1>2
<1>3. ASSUME NEW r \in Requests, Moves(r), \A s \in Requests \ {r} : req'[s] = req[s]
      PROVE  Solvent(balance[u], Q, req')
  <2>1. CASE r \in Q
    <3>1. \A a \in req'[r].amounts : balance[u] >= a
      BY <2>1, <1>3 DEF PendingIn, Moves
    <3> QED BY <3>1, <2>1, <1>1, <1>t, SolventAfresh
  <2>2. CASE r \notin Q /\ r \notin P
    <3>1. Q = P BY <2>2, <1>3 DEF PendingIn
    <3>2. \A s \in P : req'[s] = req[s] BY <2>2, <1>3 DEF PendingIn
    <3>3. balance[u] >= balance[u] BY <1>1
    <3> HIDE DEF P, Q
    <3> QED BY <3>1, <3>2, <3>3, <1>1, <1>t, SolventMore DEF P, Q
  <2>3. CASE r \notin Q /\ r \in P
    <3>1. Q = P \ {r} BY <2>3, <1>3 DEF PendingIn
    <3>2. PICK a \in req[r].amounts : a \in Nat BY <2>3, <1>t, PendingType
    <3>3. balance[u] >= balance[u] - a BY <1>1, <3>2
    <3>4. \A s \in P \ {r} : req'[s] = req[s] BY <1>3 DEF PendingIn
    <3>5. Solvent(balance[u], P \ {r}, req')
      <4> DEFINE bal == balance[u]
      <4>1. /\ bal \in Int /\ r \in PendingIn(req, u) /\ a \in req[r].amounts
            /\ bal >= bal - a /\ Solvent(bal, PendingIn(req, u), req)
            /\ \A s \in PendingIn(req, u) \ {r} : req'[s] = req[s]
        BY <3>2, <3>3, <3>4, <2>3, <1>1
      <4> HIDE DEF bal
      <4>2. Solvent(bal, PendingIn(req, u) \ {r}, req')
        BY <4>1, <1>t, SolventLess
      <4> QED BY <4>2 DEF bal
    <3> QED BY <3>1, <3>5
  <2> QED BY <2>1, <2>2, <2>3
<1> QED BY <1>2, <1>3 DEF Quiet

(* A transaction ends its request, so that no bid of it is pending.        *)
LEMMA CommitDebt ==
  ASSUME TypeInv, TypeInv', DebtInv, NEW r \in Requests, Goto(r, Idle),
         \/ \A v \in Users : balance'[v] >= balance[v]
         \/ Carrying(req[r].op, req[r].pc) /\ Takes(r)
  PROVE  DebtInv'
<1>t. /\ req \in [Requests -> Request] /\ \A s \in Requests : CarriesOK(req[s])
      /\ balance \in [Users -> Int] /\ balance' \in [Users -> Int]
  BY DEF TypeInv, TypeOK
<1>f. req'[r] = Idle /\ \A s \in Requests \ {r} : req'[s] = req[s] BY CommitFrame
<1> SUFFICES ASSUME NEW u \in Users
             PROVE  Solvent(balance'[u], PendingIn(req', u), req')
  BY DEF DebtInv
<1> DEFINE P == PendingIn(req, u)
           Q == PendingIn(req', u)
<1>1. /\ balance[u] \in Int /\ balance'[u] \in Int
      /\ Solvent(balance[u], P, req)
  BY <1>t DEF DebtInv
<1>2. Q = P \ {r} BY <1>f DEF PendingIn, Carrying, Idle
<1>3. \A s \in P \ {r} : req'[s] = req[s] BY <1>f DEF PendingIn
<1>4. CASE r \in P
  <2>1. PICK a \in req[r].amounts : balance'[u] >= balance[u] - a
    <3>1. PICK b \in req[r].amounts : b \in Nat BY <1>4, <1>t, PendingType
    <3>2. CASE \A v \in Users : balance'[v] >= balance[v]
      <4>1. balance'[u] >= balance[u] - b BY <3>1, <3>2, <1>1
      <4> QED BY <4>1, <3>1
    <3>3. CASE Takes(r)
      <4>1. req[r].user = u BY <1>4 DEF PendingIn
      <4> QED BY <4>1, <3>3 DEF Takes
    <3> QED BY <3>2, <3>3
  <2> DEFINE bal == balance[u]
             less == balance'[u]
  <2>2. /\ bal \in Int /\ less \in Int /\ less >= bal - a
        /\ r \in PendingIn(req, u) /\ a \in req[r].amounts
        /\ Solvent(bal, PendingIn(req, u), req)
        /\ \A s \in PendingIn(req, u) \ {r} : req'[s] = req[s]
    BY <2>1, <1>1, <1>3, <1>4
  <2> HIDE DEF bal, less
  <2>3. Solvent(less, PendingIn(req, u) \ {r}, req')
    BY <2>2, <1>t, SolventLess
  <2> QED BY <2>3, <1>2 DEF less
<1>5. CASE r \notin P
  <2>1. Q = P /\ \A s \in P : req'[s] = req[s] BY <1>2, <1>3, <1>5
  <2>2. balance'[u] >= balance[u]
    <3>1. Carrying(req[r].op, req[r].pc) => req[r].user # u BY <1>5 DEF PendingIn
    <3> QED BY <3>1 DEF Takes
  <2> HIDE DEF P, Q
  <2> QED BY <2>1, <2>2, <1>1, <1>t, SolventMore DEF P, Q
<1> QED BY <1>4, <1>5

LEMMA DebtStep == Inv /\ DebtInv /\ [Next]_vars => DebtInv'
<1> SUFFICES ASSUME Inv, DebtInv, [Next]_vars PROVE DebtInv' OBVIOUS
<1>1. TypeInv /\ TypeInv' BY InvStep DEF Inv
<1>2. ASSUME NEW r \in Requests, CommitBid(r) PROVE DebtInv'
  BY <1>1, <1>2, BidTakes, CommitDebt DEF CommitBid, Carrying
<1>3. ASSUME NEW r \in Requests, CommitHidden(r) PROVE DebtInv'
  BY <1>1, <1>3, HiddenTakes, CommitDebt DEF CommitHidden, Carrying
<1>4. ASSUME NEW r \in Requests, CommitDeposit(r) PROVE DebtInv'
  <2>1. Goto(r, Idle) BY <1>4 DEF CommitDeposit
  <2> QED BY <2>1, <1>1, <1>4, DepositGives, CommitDebt
<1>5. ASSUME NEW r \in Requests, CommitClose(r) PROVE DebtInv'
  <2>1. balance' = balance /\ Goto(r, Idle)
    BY <1>5, CloseCarriesNothing DEF CommitClose
  <2>2. \A v \in Users : balance'[v] >= balance[v]
    BY <2>1, <1>1 DEF TypeInv, TypeOK
  <2> QED BY <2>1, <2>2, <1>1, CommitDebt
<1> QED BY <1>1, <1>2, <1>3, <1>4, <1>5, StepKinds, QuietDebt

(* However requests overlap, of one user or of several, a wallet is not    *)
(* overdrawn by more than the largest amount for each request but one.     *)
THEOREM OverdraftIsBounded == Spec => []OverdraftBounded
<1>1. Inv /\ DebtInv => OverdraftBounded
  <2> SUFFICES ASSUME Inv, DebtInv, NEW u \in Users
               PROVE  balance[u] >= -((Slots - 1) * Most)
    BY DEF OverdraftBounded, Slots, Most
  <2> DEFINE P == PendingIn(req, u)
  <2>1. /\ req \in [Requests -> Request] /\ \A s \in Requests : CarriesOK(req[s])
        /\ balance[u] \in Int
    BY DEF Inv, TypeInv, TypeOK
  <2>2. Cardinality(P) \in Nat /\ (P # {} => Cardinality(P) # 0)
    BY <2>1, PendingType
  <2>3. Solvent(balance[u], P, req) BY DEF DebtInv
  <2> HIDE DEF P
  <2>4. /\ Floor(1) \in Int /\ Floor(Cardinality(P)) \in Int
        /\ P # {} => Floor(1) <= Floor(Cardinality(P))
    BY <2>2, FloorType
  <2>5. balance[u] >= Floor(1) BY <2>1, <2>3, <2>4 DEF Solvent
  <2>6. Floor(1) = -((Slots - 1) * Most) BY MostType DEF Floor
  <2> QED BY <2>5, <2>6
<1> QED BY <1>1, InitDebt, DebtStep, InitInv, Invariance, PTL DEF Spec

-----------------------------------------------------------------------------
(* Hidden submissions: a user's hidden rows, and three for each of his     *)
(* requests that have passed the count, never exceed three per request.    *)

CountedIn(rs, u) == {r \in Requests : Counted(rs[r]) /\ rs[r].user = u}

HiddenRoom(n, m) == n + 3 * m <= 3 * Slots

HiddenInv ==
  \A u \in Users :
    HiddenRoom(Cardinality(HiddenOf(u)), Cardinality(CountedIn(req, u)))

LEMMA CountedType ==
  ASSUME NEW rs, NEW u
  PROVE  /\ IsFiniteSet(CountedIn(rs, u))
         /\ Cardinality(CountedIn(rs, u)) \in Nat
         /\ Cardinality(CountedIn(rs, u)) <= Slots
<1>1. CountedIn(rs, u) \in SUBSET Requests BY DEF CountedIn
<1> QED BY <1>1, ConstantsAssumption, FS_Subset, FS_CardinalityType DEF Slots

LEMMA HiddenOfType ==
  ASSUME TypeInv, NEW u
  PROVE  IsFiniteSet(HiddenOf(u)) /\ Cardinality(HiddenOf(u)) \in Nat
<1>1. HiddenOf(u) \in SUBSET bids /\ IsFiniteSet(bids)
  BY DEF HiddenOf, TypeInv, TypeOK
<1> QED BY <1>1, FS_Subset, FS_CardinalityType

LEMMA InitHidden == Init => HiddenInv
<1> SUFFICES ASSUME Init, NEW u \in Users
             PROVE  HiddenRoom(Cardinality(HiddenOf(u)), Cardinality(CountedIn(req, u)))
  BY DEF HiddenInv
<1>1. HiddenOf(u) = {} BY DEF Init, HiddenOf
<1>2. /\ Cardinality(CountedIn(req, u)) \in Nat
      /\ Cardinality(CountedIn(req, u)) <= Slots /\ Slots \in Nat
  BY CountedType, MostType
<1> QED BY <1>1, <1>2, FS_EmptySet DEF HiddenRoom

(* No more hidden rows and no more requests that count on having none.     *)
LEMMA RoomLeft ==
  ASSUME NEW H, IsFiniteSet(H), NEW G \in SUBSET H, NEW rs, NEW u,
         NEW D \in SUBSET CountedIn(rs, u),
         HiddenRoom(Cardinality(H), Cardinality(CountedIn(rs, u)))
  PROVE  HiddenRoom(Cardinality(G), Cardinality(D))
<1>1. /\ Cardinality(G) <= Cardinality(H)
      /\ Cardinality(G) \in Nat /\ Cardinality(H) \in Nat
  BY FS_Subset, FS_CardinalityType
<1>2. /\ Cardinality(D) <= Cardinality(CountedIn(rs, u))
      /\ Cardinality(D) \in Nat /\ Cardinality(CountedIn(rs, u)) \in Nat
  BY CountedType, FS_Subset, FS_CardinalityType
<1> QED BY <1>1, <1>2, MostType DEF HiddenRoom

LEMMA QuietHidden ==
  ASSUME TypeInv, HiddenInv, Quiet
  PROVE  HiddenInv'
<1>1. \A u : HiddenOf(u)' = HiddenOf(u) BY DEF Quiet, HiddenOf
<1> SUFFICES ASSUME NEW u \in Users
             PROVE  HiddenRoom(Cardinality(HiddenOf(u)), Cardinality(CountedIn(req', u)))
  BY <1>1 DEF HiddenInv
<1> DEFINE H == HiddenOf(u)
           C == CountedIn(req, u)
           D == CountedIn(req', u)
<1>2. IsFiniteSet(H) /\ HiddenRoom(Cardinality(H), Cardinality(C))
  BY HiddenOfType DEF HiddenInv
<1>3. CASE H = {}
  <2>1. Cardinality(H) = 0 BY <1>3, FS_EmptySet
  <2>2. Cardinality(D) \in Nat /\ Cardinality(D) <= Slots /\ Slots \in Nat
    BY CountedType, MostType
  <2>3. HiddenRoom(Cardinality(H), Cardinality(D))
    <3> HIDE DEF H, D
    <3> QED BY <2>1, <2>2 DEF HiddenRoom
  <2> QED BY <2>3
<1>4. CASE H # {}
  <2>1. D \in SUBSET C
    BY <1>4 DEF Quiet, Moves, CountedIn
  <2>2. H \in SUBSET H OBVIOUS
  <2> HIDE DEF H, D
  <2> QED BY <2>1, <2>2, <1>2, RoomLeft DEF H, D
<1> QED BY <1>3, <1>4

(* The transactions that add no hidden row. *)
LEMMA CommitNoHidden ==
  ASSUME TypeInv, HiddenInv, NEW r \in Requests, Goto(r, Idle),
         \A b \in bids' : b.hidden => b \in bids
  PROVE  HiddenInv'
<1>f. req'[r] = Idle /\ \A s \in Requests \ {r} : req'[s] = req[s] BY CommitFrame
<1> SUFFICES ASSUME NEW u \in Users
             PROVE  HiddenRoom(Cardinality(HiddenOf(u)'), Cardinality(CountedIn(req', u)))
  BY DEF HiddenInv
<1>1. IsFiniteSet(HiddenOf(u))
      /\ HiddenRoom(Cardinality(HiddenOf(u)), Cardinality(CountedIn(req, u)))
  BY HiddenOfType DEF HiddenInv
<1>2. HiddenOf(u)' \in SUBSET HiddenOf(u) BY DEF HiddenOf
<1>3. CountedIn(req', u) \in SUBSET CountedIn(req, u)
  BY <1>f DEF CountedIn, Counted, Idle
<1> QED BY <1>1, <1>2, <1>3, RoomLeft

LEMMA CommitAddsHidden ==
  ASSUME TypeInv, HiddenInv, NEW r \in Requests, CommitHidden(r)
  PROVE  HiddenInv'
<1> DEFINE q == req[r]
           N == HiddenRows(q)
<1>1. /\ q.op = "hidden" /\ q.pc = "tx" /\ Goto(r, Idle) /\ bids' = bids \cup N
  BY DEF CommitHidden
<1>2. Cardinality(q.amounts) <= 3 BY <1>1 DEF TypeInv, CarriesOK
<1>3. /\ IsFiniteSet(N) /\ \A b \in N : b.hidden /\ b.user = q.user
      /\ Cardinality(N) <= Cardinality(q.amounts) /\ Cardinality(q.amounts) \in Nat
  BY <1>1, HiddenRowsType
<1>4. Cardinality(N) \in Nat /\ Cardinality(N) <= 3
  BY <1>2, <1>3, FS_CardinalityType
<1>f. req'[r] = Idle /\ \A s \in Requests \ {r} : req'[s] = req[s]
  BY <1>1, CommitFrame
<1> SUFFICES ASSUME NEW u \in Users
             PROVE  HiddenRoom(Cardinality(HiddenOf(u)'), Cardinality(CountedIn(req', u)))
  BY DEF HiddenInv
<1> DEFINE H == HiddenOf(u)
           C == CountedIn(req, u)
           D == CountedIn(req', u)
<1>5. /\ IsFiniteSet(H) /\ Cardinality(H) \in Nat
      /\ HiddenRoom(Cardinality(H), Cardinality(C))
  BY HiddenOfType DEF HiddenInv
<1>6. D = C \ {r} BY <1>f DEF CountedIn, Counted, Idle
<1>7. CASE u # q.user
  <2>1. HiddenOf(u)' = H BY <1>1, <1>3, <1>7 DEF HiddenOf
  <2>2. D \in SUBSET C BY <1>6
  <2>3. H \in SUBSET H OBVIOUS
  <2>4. HiddenRoom(Cardinality(H), Cardinality(D))
    <3> HIDE DEF H, D
    <3> QED BY <2>2, <2>3, <1>5, RoomLeft
  <2> QED BY <2>1, <2>4
<1>8. CASE u = q.user
  <2>1. HiddenOf(u)' = H \cup N BY <1>1, <1>3, <1>8 DEF HiddenOf
  <2>2. r \in C BY <1>1, <1>8 DEF CountedIn, Counted
  <2>3. IsFiniteSet(C) /\ Cardinality(C) \in Nat BY CountedType
  <2> HIDE DEF N, H, C, D
  <2>4. Cardinality(D) = Cardinality(C) - 1 BY <1>6, <2>2, <2>3, FS_RemoveElement
  <2>5. /\ Cardinality(H \cup N) = Cardinality(H) + Cardinality(N) - Cardinality(H \cap N)
        /\ IsFiniteSet(H \cap N) /\ IsFiniteSet(H \cup N)
    BY <1>3, <1>5, FS_Union, FS_Intersection
  <2>6. Cardinality(H \cap N) \in Nat /\ Cardinality(H \cup N) \in Nat
    BY <2>5, FS_CardinalityType
  <2>7. Cardinality(H \cup N) <= Cardinality(H) + 3 BY <1>4, <1>5, <2>5, <2>6
  <2>8. HiddenRoom(Cardinality(H \cup N), Cardinality(D))
    BY <2>3, <2>4, <2>6, <2>7, <1>5, MostType DEF HiddenRoom
  <2> QED BY <2>1, <2>8 DEF D
<1> QED BY <1>7, <1>8

LEMMA HiddenStep == Inv /\ HiddenInv /\ [Next]_vars => HiddenInv'
<1> SUFFICES ASSUME Inv, HiddenInv, [Next]_vars PROVE HiddenInv' OBVIOUS
<1>1. TypeInv BY DEF Inv
<1>2. ASSUME NEW r \in Requests, CommitBid(r) PROVE HiddenInv'
  <2>1. Goto(r, Idle) /\ \A b \in bids' : b.hidden => b \in bids
    BY <1>2 DEF CommitBid
  <2> QED BY <2>1, <1>1, CommitNoHidden
<1>3. ASSUME NEW r \in Requests, CommitDeposit(r) \/ CommitClose(r) PROVE HiddenInv'
  <2>1. Goto(r, Idle) /\ bids' \in {{}, bids}
    BY <1>3 DEF CommitDeposit, CommitClose
  <2> QED BY <2>1, <1>1, CommitNoHidden
<1> QED BY <1>1, <1>2, <1>3, StepKinds, QuietHidden, CommitAddsHidden

(* However requests overlap, a user has at most three hidden bids for each *)
(* request that can have passed the once-only check together.              *)
THEOREM HiddenIsBounded == Spec => []HiddenBounded
<1>1. Inv /\ HiddenInv => HiddenBounded
  <2> SUFFICES ASSUME Inv, HiddenInv, NEW u \in Users
               PROVE  Cardinality(HiddenOf(u)) <= 3 * Slots
    BY DEF HiddenBounded, Slots
  <2>1. /\ Cardinality(HiddenOf(u)) \in Nat
        /\ Cardinality(CountedIn(req, u)) \in Nat /\ Slots \in Nat
    BY HiddenOfType, CountedType, MostType DEF Inv
  <2> QED BY <2>1 DEF HiddenInv, HiddenRoom
<1> QED BY <1>1, InitHidden, HiddenStep, InitInv, Invariance, PTL DEF Spec

-----------------------------------------------------------------------------
(* Wallets agree with their transactions.  The lemmas are about a list of  *)
(* rows, because one transaction appends up to two.                        *)

AmountIn(rows) == [i \in 1..Len(rows) |-> rows[i].amount]
OfUser(rows, u, types) ==
  {i \in 1..Len(rows) : rows[i].user = u /\ rows[i].type \in types}
SumIn(rows, u, types) == TotalOf(AmountIn(rows), OfUser(rows, u, types))

(* What the rows say a user's balance is. *)
Books(rows, u) ==
  InitialBalance[u] + SumIn(rows, u, {"DEPOSIT", "BID_REFUND"})
                    - SumIn(rows, u, {"BID_PAYMENT"})

Worth(row) == IF row.type = "BID_PAYMENT" THEN -row.amount ELSE row.amount

LEMMA RowsCount ==
  ASSUME NEW rows \in Seq(Row), NEW u, NEW types
  PROVE  /\ Counts(AmountIn(rows), OfUser(rows, u, types))
         /\ SumIn(rows, u, types) \in Nat
<1>1. Len(rows) \in Nat /\ \A i \in 1..Len(rows) : rows[i] \in Row
  BY LenProperties, ElementOfSeq
<1>2. IsFiniteSet(1..Len(rows)) BY <1>1, FS_Interval
<1>3. IsFiniteSet(OfUser(rows, u, types)) BY <1>2, FS_Subset DEF OfUser
<1>4. \A i \in OfUser(rows, u, types) : AmountIn(rows)[i] \in Nat
  BY <1>1 DEF OfUser, AmountIn, Row
<1>5. Counts(AmountIn(rows), OfUser(rows, u, types)) BY <1>3, <1>4 DEF Counts
<1> QED BY <1>5, TotalType DEF SumIn

(* A new row counts for its user and type. *)
LEMMA SumAppend ==
  ASSUME NEW rows \in Seq(Row), NEW m \in Seq(Row), Len(m) = 1, NEW u, NEW types
  PROVE  /\ rows \o m \in Seq(Row)
         /\ SumIn(rows \o m, u, types) =
              SumIn(rows, u, types) +
                IF m[1].user = u /\ m[1].type \in types THEN m[1].amount ELSE 0
<1> DEFINE all == rows \o m
           new == Len(rows) + 1
           old == OfUser(rows, u, types)
<1>1. /\ all \in Seq(Row) /\ Len(rows) \in Nat /\ Len(all) = new
      /\ \A i \in 1..Len(rows) : all[i] = rows[i]
      /\ all[new] = m[1]
  <2>1. 1 \in 1..Len(m) BY SMT
  <2>a. all \in Seq(Row) /\ Len(rows) \in Nat BY Appended
  <2>b. Len(all) = Len(rows) + Len(m) BY Appended
  <2>c. \A i \in 1..Len(rows) : all[i] = rows[i] BY Appended
  <2>d. \A i \in 1..Len(m) : all[Len(rows) + i] = m[i] BY Appended
  <2>3. all[Len(rows) + 1] = m[1]
    <3> HIDE DEF all
    <3> QED BY <2>1, <2>d
  <2>4. Len(all) = new BY <2>b
  <2> QED BY <2>a, <2>c, <2>3, <2>4
<1>2. /\ 1..Len(all) = (1..Len(rows)) \cup {new} /\ new \notin 1..Len(rows)
  <2> HIDE DEF all
  <2> QED BY <1>1
<1>3. m[1] \in Row
  <2>1. 1 \in 1..Len(m) OBVIOUS
  <2> QED BY <2>1, ElementOfSeq
<1>4. /\ AmountIn(all)[new] = m[1].amount
      /\ \A i \in 1..Len(rows) : AmountIn(all)[i] = AmountIn(rows)[i]
  <2> HIDE DEF all, new
  <2> QED BY <1>1, <1>2 DEF AmountIn
<1>5. m[1].amount \in Nat BY <1>3 DEF Row
<1>6. TotalOf(AmountIn(all), old) = SumIn(rows, u, types)
  <2>1. \A i \in old : AmountIn(all)[i] = AmountIn(rows)[i]
    BY <1>4 DEF OfUser
  <2> HIDE DEF all, old
  <2>2. TotalOf(AmountIn(all), old) = TotalOf(AmountIn(rows), old)
    BY <2>1, TotalSame
  <2> QED BY <2>2 DEF SumIn, old
<1>7. Counts(AmountIn(rows), old) /\ SumIn(rows, u, types) \in Nat BY RowsCount
<1>8. Counts(AmountIn(all), old)
  <2>1. \A i \in old : AmountIn(all)[i] = AmountIn(rows)[i]
    BY <1>4 DEF OfUser
  <2> HIDE DEF all, old
  <2> QED BY <2>1, <1>7 DEF Counts
<1>9. CASE m[1].user = u /\ m[1].type \in types
  <2>1. OfUser(all, u, types) = old \cup {new} /\ new \notin old
    BY <1>1, <1>2, <1>9 DEF OfUser
  <2> HIDE DEF all, new, old
  <2>2. TotalOf(AmountIn(all), old \cup {new})
          = TotalOf(AmountIn(all), old) + AmountIn(all)[new]
    BY <2>1, <1>4, <1>5, <1>8, TotalAdd
  <2>3. SumIn(all, u, types) = SumIn(rows, u, types) + m[1].amount
    BY <2>1, <2>2, <1>4, <1>6 DEF SumIn
  <2>4. all \in Seq(Row) BY <1>1
  <2> QED BY <2>3, <2>4, <1>9 DEF all
<1>10. CASE ~(m[1].user = u /\ m[1].type \in types)
  <2>1. OfUser(all, u, types) = old BY <1>1, <1>2, <1>10 DEF OfUser
  <2> HIDE DEF all, old
  <2>2. SumIn(all, u, types) = SumIn(rows, u, types) BY <2>1, <1>6 DEF SumIn
  <2>3. all \in Seq(Row) BY <1>1
  <2> QED BY <2>2, <2>3, <1>7, <1>10 DEF all
<1> QED BY <1>9, <1>10

LEMMA BooksAppend ==
  ASSUME NEW rows \in Seq(Row), NEW m \in Seq(Row), Len(m) = 1, NEW u \in Users
  PROVE  Books(rows \o m, u) =
           Books(rows, u) + IF m[1].user = u THEN Worth(m[1]) ELSE 0
<1> DEFINE in == {"DEPOSIT", "BID_REFUND"}
           out == {"BID_PAYMENT"}
<1>1. SumIn(rows, u, in) \in Nat /\ SumIn(rows, u, out) \in Nat BY RowsCount
<1>2. m[1] \in Row
  <2>1. 1 \in 1..Len(m) OBVIOUS
  <2> QED BY <2>1, ElementOfSeq
<1>3. /\ m[1].amount \in Nat /\ m[1].type \in {"DEPOSIT", "BID_PAYMENT", "BID_REFUND"}
  BY <1>2 DEF Row
<1>4. InitialBalance[u] \in Nat BY ConstantsAssumption
<1>5. SumIn(rows \o m, u, in) = SumIn(rows, u, in) +
        IF m[1].user = u /\ m[1].type \in in THEN m[1].amount ELSE 0
  BY SumAppend
<1>6. SumIn(rows \o m, u, out) = SumIn(rows, u, out) +
        IF m[1].user = u /\ m[1].type \in out THEN m[1].amount ELSE 0
  BY SumAppend
<1>7. m[1].type \in out <=> m[1].type = "BID_PAYMENT" OBVIOUS
<1>8. m[1].type \in in <=> m[1].type # "BID_PAYMENT" BY <1>3
<1>9. /\ Books(rows \o m, u) = InitialBalance[u] + SumIn(rows \o m, u, in)
                                 - SumIn(rows \o m, u, out)
      /\ Books(rows, u) = InitialBalance[u] + SumIn(rows, u, in) - SumIn(rows, u, out)
  BY DEF Books
<1> HIDE DEF in, out
<1>10. CASE m[1].user # u BY <1>10, <1>5, <1>6, <1>9, <1>1, <1>4
<1>11. CASE m[1].user = u /\ m[1].type = "BID_PAYMENT"
  <2>1. SumIn(rows \o m, u, in) = SumIn(rows, u, in) BY <1>11, <1>5, <1>8, <1>1
  <2>2. SumIn(rows \o m, u, out) = SumIn(rows, u, out) + m[1].amount
    BY <1>11, <1>6, <1>7
  <2>3. Worth(m[1]) = -m[1].amount BY <1>11 DEF Worth
  <2> QED BY <1>11, <2>1, <2>2, <2>3, <1>9, <1>1, <1>3, <1>4
<1>12. CASE m[1].user = u /\ m[1].type # "BID_PAYMENT"
  <2>1. SumIn(rows \o m, u, in) = SumIn(rows, u, in) + m[1].amount
    BY <1>12, <1>5, <1>8
  <2>2. SumIn(rows \o m, u, out) = SumIn(rows, u, out) BY <1>12, <1>6, <1>7, <1>1
  <2>3. Worth(m[1]) = m[1].amount BY <1>12 DEF Worth
  <2> QED BY <1>12, <2>1, <2>2, <2>3, <1>9, <1>1, <1>3, <1>4
<1> QED BY <1>10, <1>11, <1>12

(* Deleting bids changes no amount, owner or type. *)
LEMMA BooksSetNull ==
  ASSUME NEW rows \in Seq(Row), NEW u
  PROVE  Books(SetNull(rows), u) = Books(rows, u)
<1> DEFINE nulled == SetNull(rows)
<1>1. Len(rows) \in Nat /\ \A i \in 1..Len(rows) : rows[i] \in Row
  BY LenProperties, ElementOfSeq
<1>2. nulled = [i \in 1..Len(rows) |-> [rows[i] EXCEPT !.bid = Null]] BY DEF SetNull
<1>3. Len(nulled) = Len(rows) BY <1>1, <1>2
<1>4. \A i \in 1..Len(rows) : /\ nulled[i].user = rows[i].user
                              /\ nulled[i].type = rows[i].type
                              /\ nulled[i].amount = rows[i].amount
  BY <1>1, <1>2 DEF Row
<1> HIDE DEF nulled
<1>5. AmountIn(nulled) = AmountIn(rows) BY <1>3, <1>4 DEF AmountIn
<1>6. \A types : OfUser(nulled, u, types) = OfUser(rows, u, types)
  BY <1>3, <1>4 DEF OfUser
<1>7. \A types : SumIn(nulled, u, types) = SumIn(rows, u, types)
  BY <1>5, <1>6 DEF SumIn
<1>8. Books(nulled, u) = Books(rows, u) BY <1>7 DEF Books
<1> QED BY <1>8 DEF nulled

LEMMA BooksOfLedger ==
  /\ BalanceMatchesLedger <=> \A u \in Users : balance[u] = Books(ledger, u)
  /\ BalanceMatchesLedger' <=> \A u \in Users : balance'[u] = Books(ledger', u)
<1>1. BalanceMatchesLedger <=> \A u \in Users : balance[u] = Books(ledger, u)
  BY DEF BalanceMatchesLedger, Books, SumIn, OfUser, AmountIn, Total, RowsOf
<1>2. BalanceMatchesLedger' <=> \A u \in Users : balance'[u] = Books(ledger', u)
  BY DEF BalanceMatchesLedger, Books, SumIn, OfUser, AmountIn, Total, RowsOf
<1> QED BY <1>1, <1>2

LEMMA BooksType ==
  ASSUME NEW rows \in Seq(Row), NEW u \in Users
  PROVE  Books(rows, u) \in Int
<1>1. /\ SumIn(rows, u, {"DEPOSIT", "BID_REFUND"}) \in Nat
      /\ SumIn(rows, u, {"BID_PAYMENT"}) \in Nat
  BY RowsCount
<1> QED BY <1>1, ConstantsAssumption DEF Books

LEMMA InitBooks == Init => BalanceMatchesLedger
<1> SUFFICES ASSUME Init PROVE BalanceMatchesLedger OBVIOUS
<1>1. ledger = <<>> /\ balance = InitialBalance BY DEF Init
<1>2. \A u, types : OfUser(<<>>, u, types) = {} BY DEF OfUser
<1>3. \A u, types : SumIn(<<>>, u, types) = 0 BY <1>2, TotalEmpty DEF SumIn
<1>4. \A u \in Users : InitialBalance[u] \in Nat BY ConstantsAssumption
<1>5. \A u \in Users : Books(<<>>, u) = InitialBalance[u]
  BY <1>3, <1>4 DEF Books
<1> QED BY <1>1, <1>5, BooksOfLedger

Booked(rows, bal) ==
  /\ rows \in Seq(Row) /\ bal \in [Users -> Int]
  /\ \A u \in Users : bal[u] = Books(rows, u)

(* The data of a row, and what it is worth to its user. *)
Entry(type, v, amount, bid, after, worth) ==
  /\ type \in {"DEPOSIT", "BID_PAYMENT", "BID_REFUND"} /\ v \in Users
  /\ amount \in Nat /\ bid \in Nat /\ after \in Int /\ worth \in Int
  /\ worth = IF type = "BID_PAYMENT" THEN -amount ELSE amount

(* One appended row and one credit of the same worth. *)
LEMMA RowAndCredit ==
  ASSUME NEW rows, NEW bal, Booked(rows, bal), NEW type, NEW v, NEW amount,
         NEW bid, NEW after, NEW worth, Entry(type, v, amount, bid, after, worth)
  PROVE  Booked(rows \o Row1(type, v, amount, bid, after), Credit(bal, v, worth))
<1> USE DEF Booked, Entry
<1> DEFINE m == Row1(type, v, amount, bid, after)
<1>1. /\ m \in Seq(Row) /\ Len(m) = 1
      /\ m[1] = [type |-> type, user |-> v, amount |-> amount, bid |-> bid,
                 balanceAfter |-> after]
  BY Row1Type
<1>2. m[1].user = v /\ Worth(m[1]) = worth BY <1>1 DEF Worth
<1> HIDE DEF m
<1>3. rows \o m \in Seq(Row) BY <1>1, Appended
<1>4. /\ Credit(bal, v, worth) \in [Users -> Int]
      /\ \A u \in Users : u # v => Credit(bal, v, worth)[u] = bal[u]
      /\ Credit(bal, v, worth)[v] = bal[v] + worth
  BY CreditType
<1>5. ASSUME NEW u \in Users PROVE Credit(bal, v, worth)[u] = Books(rows \o m, u)
  <2>1. Books(rows \o m, u) = Books(rows, u) + IF m[1].user = u THEN Worth(m[1]) ELSE 0
    BY <1>1, BooksAppend
  <2>2. Books(rows, u) \in Int BY BooksType
  <2>3. bal[u] = Books(rows, u) OBVIOUS
  <2>4. CASE u = v BY <2>4, <2>1, <2>3, <1>2, <1>4
  <2>5. CASE u # v BY <2>5, <2>1, <2>2, <2>3, <1>2, <1>4
  <2> QED BY <2>4, <2>5
<1> QED BY <1>3, <1>4, <1>5 DEF m

LEMMA BidBooks ==
  ASSUME TypeInv, BalanceMatchesLedger, NEW r \in Requests, CommitBid(r)
  PROVE  BalanceMatchesLedger'
<1> DEFINE q == req[r]
           first == ledger \o RefundRow(q)
<1>1. PICK a \in q.amounts :
        /\ balance' = Credit(AfterRefund(q), q.user, -a)
        /\ ledger' = first \o Row1("BID_PAYMENT", q.user, a, Null, q.funds - a)
  BY DEF CommitBid
<1>2. /\ q \in Request /\ q.op = "bid" /\ CarriesOK(q)
      /\ balance \in [Users -> Int] /\ ledger \in Seq(Row)
  BY DEF CommitBid, TypeInv, TypeOK
<1>3. /\ q.user \in Users /\ a \in Nat /\ q.funds \in Int
  BY <1>1, <1>2, ConstantsAssumption DEF CarriesOK, Request
<1>4. Booked(ledger, balance) BY <1>2, BooksOfLedger DEF Booked
<1>5. Booked(first, AfterRefund(q))
  <2>1. CASE q.last = NoBid
    <3>1. RefundRow(q) = <<>> /\ AfterRefund(q) = balance
      BY <2>1 DEF RefundRow, AfterRefund
    <3>2. first = ledger BY <3>1, <1>2
    <3> QED BY <3>1, <3>2, <1>2, <1>4
  <2>2. CASE q.last # NoBid
    <3> DEFINE v == q.last.user
               x == q.last.amount
    <3>1. q.last \in Bid BY <2>2, <1>2 DEF Request
    <3>2. v \in Users /\ x \in Nat /\ x \in Int /\ q.last.id \in Nat
      BY <3>1, BidFields
    <3>3. q.funds + x \in Int BY <3>2, <1>3
    <3>4. /\ RefundRow(q) = Row1("BID_REFUND", v, x, q.last.id, q.funds + x)
          /\ AfterRefund(q) = Credit(balance, v, x)
      BY <2>2 DEF RefundRow, AfterRefund
    <3> DEFINE after == q.funds + x
               id == q.last.id
    <3> HIDE DEF v, x, after, id
    <3>5. Entry("BID_REFUND", v, x, id, after, x)
      BY <3>2, <3>3 DEF Entry, after, id
    <3>6. Booked(ledger \o Row1("BID_REFUND", v, x, id, after), Credit(balance, v, x))
      BY <1>4, <3>5, RowAndCredit
    <3> QED BY <3>4, <3>6 DEF after, id
  <2> QED BY <2>1, <2>2
<1> DEFINE bal == AfterRefund(q)
           w == q.user
           paid == -a
           after == q.funds - a
<1>6. paid \in Int /\ after \in Int /\ Null \in Nat BY <1>3 DEF Null
<1>7. w \in Users BY <1>3
<1>8. /\ balance' = Credit(bal, w, paid)
      /\ ledger' = first \o Row1("BID_PAYMENT", w, a, Null, after)
  BY <1>1
<1>9. paid = -a OBVIOUS
<1>10. Booked(first, bal) BY <1>5
<1> HIDE DEF first, bal, w, paid, after, q
<1>11. Entry("BID_PAYMENT", w, a, Null, after, paid)
  BY <1>3, <1>6, <1>7, <1>9 DEF Entry
<1>12. Booked(first \o Row1("BID_PAYMENT", w, a, Null, after), Credit(bal, w, paid))
  BY <1>10, <1>11, RowAndCredit
<1> QED BY <1>8, <1>12, BooksOfLedger DEF Booked

LEMMA HiddenBooks ==
  ASSUME TypeInv, BalanceMatchesLedger, NEW r \in Requests, CommitHidden(r)
  PROVE  BalanceMatchesLedger'
<1> DEFINE q == req[r]
           v == q.user
           paid == Charge(q.amounts)
           worth == -paid
           after == q.funds - paid
<1>1. /\ q.op = "hidden"
      /\ balance' = Credit(balance, v, worth)
      /\ ledger' = ledger \o Row1("BID_PAYMENT", v, paid, Null, after)
  BY DEF CommitHidden
<1>2. /\ q \in Request /\ q.amounts \in SUBSET Amounts /\ q.amounts # {}
      /\ Cardinality(q.amounts) <= 3 /\ v \in Users
      /\ balance \in [Users -> Int] /\ ledger \in Seq(Row)
  BY <1>1 DEF TypeInv, TypeOK, CarriesOK
<1>3. paid \in Nat
  <2>1. IsFiniteSet(q.amounts) /\ q.amounts \subseteq Nat /\ q.amounts \subseteq Int
    BY <1>2, FiniteAmounts
  <2> QED BY <2>1, <1>2, MaxOfFinite DEF Charge
<1>4. q.funds \in Int BY <1>2 DEF Request
<1>5. worth \in Int /\ after \in Int /\ Null \in Nat /\ worth = -paid
  <2> HIDE DEF paid
  <2> QED BY <1>3, <1>4 DEF Null
<1>6. Booked(ledger, balance) BY <1>2, BooksOfLedger DEF Booked
<1> HIDE DEF q, v, paid, worth, after
<1>7. Entry("BID_PAYMENT", v, paid, Null, after, worth)
  BY <1>2, <1>3, <1>5 DEF Entry
<1>8. Booked(ledger \o Row1("BID_PAYMENT", v, paid, Null, after),
             Credit(balance, v, worth))
  BY <1>6, <1>7, RowAndCredit
<1> QED BY <1>1, <1>8, BooksOfLedger DEF Booked

LEMMA DepositBooks ==
  ASSUME TypeInv, BalanceMatchesLedger, NEW r \in Requests, CommitDeposit(r)
  PROVE  BalanceMatchesLedger'
<1> DEFINE v == req[r].user
<1>1. PICK d \in req[r].amounts :
        /\ balance' = Credit(balance, v, d)
        /\ ledger' = ledger \o Row1("DEPOSIT", v, d, Null, balance[v] + d)
  BY DEF CommitDeposit
<1>2. /\ v \in Users /\ d \in Nat /\ balance \in [Users -> Int] /\ ledger \in Seq(Row)
  BY <1>1, ConstantsAssumption DEF CommitDeposit, TypeInv, TypeOK, CarriesOK
<1> DEFINE after == balance[v] + d
<1>3. d \in Int /\ after \in Int /\ Null \in Nat BY <1>2 DEF Null
<1>4. Booked(ledger, balance) BY <1>2, BooksOfLedger DEF Booked
<1>5. ledger' = ledger \o Row1("DEPOSIT", v, d, Null, after) BY <1>1
<1> HIDE DEF v, after
<1>6. Entry("DEPOSIT", v, d, Null, after, d) BY <1>2, <1>3 DEF Entry
<1>7. Booked(ledger \o Row1("DEPOSIT", v, d, Null, after), Credit(balance, v, d))
  BY <1>4, <1>6, RowAndCredit
<1> QED BY <1>1, <1>5, <1>7, BooksOfLedger DEF Booked

LEMMA CloseBooks ==
  ASSUME Inv, BalanceMatchesLedger, NEW r \in Requests, CommitClose(r)
  PROVE  BalanceMatchesLedger'
<1>1. req[r].last = NoBid BY CloseCarriesNothing
<1>2. balance' = balance /\ ledger' = SetNull(ledger \o <<>>)
  BY <1>1 DEF CommitClose, RefundRow
<1>3. ledger \in Seq(Row) BY DEF Inv, TypeInv, TypeOK
<1>4. ledger \o <<>> = ledger BY <1>3
<1>5. \A u \in Users : Books(ledger', u) = Books(ledger, u)
  BY <1>2, <1>3, <1>4, BooksSetNull
<1> QED BY <1>2, <1>5, BooksOfLedger

(* Every committed change of a wallet is in the transaction table with the *)
(* right sign, in every interleaving, for any number of users and requests *)
(* in flight: no update is lost.  (closeAuction's absolute write of a      *)
(* balance could lose one; it never commits, see CloseCarriesNothing.)     *)
THEOREM BooksCorrect == Spec => []BalanceMatchesLedger
<1>1. Inv /\ BalanceMatchesLedger /\ [Next]_vars => BalanceMatchesLedger'
  <2> SUFFICES ASSUME Inv, BalanceMatchesLedger, [Next]_vars
               PROVE  BalanceMatchesLedger'
    OBVIOUS
  <2>1. TypeInv BY DEF Inv
  <2>2. CASE Quiet
    <3>1. balance' = balance /\ ledger' = ledger BY <2>2 DEF Quiet
    <3> QED BY <3>1, BooksOfLedger
  <2> QED BY <2>1, <2>2, StepKinds, BidBooks, HiddenBooks, DepositBooks, CloseBooks
<1> QED BY <1>1, InitBooks, Invariance, PTL DEF Spec
=============================================================================

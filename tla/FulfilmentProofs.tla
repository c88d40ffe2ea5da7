-------------------------- MODULE FulfilmentProofs --------------------------
(***************************************************************************)
(* However calls of endAuction and requests overlap: the rows keep their   *)
(* types, a buyer has no more orders than calls overlap, an order and its  *)
(* shipping stay coupled while it is his only one, and the winner's order  *)
(* is created unless the call that wrote him broke off.                    *)
(***************************************************************************)
EXTENDS Fulfilment, FiniteSetTheorems, TLAPS

Order == [user: Users \cup {NoUser},
          status: {"none", "PAID", "SHIPPING", "COMPLETED"}]
Shipping == [user: Users \cup {NoUser},
             status: {"none", "PENDING", "SHIPPED", "IN_TRANSIT", "DELIVERED"}]
Call == [pc: {"idle", "update", "auction", "existing", "tx"},
         winner: Users \cup {NoUser}]
Request == [pc: {"idle", "ship", "deliver"}, id: {0} \cup Ids]
AuctionRow == [status: {"OPEN", "CLOSED", "COMPLETED"}, winner: Users \cup {NoUser}]

(* Calls hand over real winners, requests work on orders that exist. *)
CallInv == \A e \in Enders : Handing(e) => ender[e].winner \in Users
ReqInv == \A r \in Requests : req[r].pc # "idle" => req[r].id \in Rows(orders)

(* The calls that have found no order of u and are going to create one. *)
Creating(u) == {e \in Enders : ender[e].pc = "tx" /\ ender[e].winner = u}

(* Whoever is let through was alone with u's orders: there were none. *)
Bounded ==
  \A u \in Users :
    Cardinality(OrdersOf(u)) + Cardinality(Creating(u)) <= Cardinality(Enders)

Inv == TypeOK /\ CallInv /\ ReqInv /\ Coupled /\ Bounded /\ WinnerHasOrder

LEMMA Typed ==
  ASSUME TypeOK
  PROVE  /\ orders \in [Ids -> Order] /\ shipping \in [Ids -> Shipping]
         /\ ender \in [Enders -> Call] /\ req \in [Requests -> Request]
         /\ auction \in AuctionRow /\ lost \in BOOLEAN /\ over \in BOOLEAN
         /\ leader \in Users \cup {NoUser}
BY DEF TypeOK, Order, Shipping, Call, Request, AuctionRow

LEMMA Retyped ==
  ASSUME orders' \in [Ids -> Order], shipping' \in [Ids -> Shipping],
         ender' \in [Enders -> Call], req' \in [Requests -> Request],
         auction' \in AuctionRow, lost' \in BOOLEAN, over' \in BOOLEAN,
         leader' \in Users \cup {NoUser}
  PROVE  TypeOK'
BY DEF TypeOK, Order, Shipping, Call, Request, AuctionRow

LEMMA Finite ==
  /\ \A u : IsFiniteSet(OrdersOf(u)) /\ Cardinality(OrdersOf(u)) \in Nat
  /\ \A u : IsFiniteSet(Creating(u)) /\ Cardinality(Creating(u)) \in Nat
  /\ \A u : Cardinality(Creating(u)) <= Cardinality(Enders)
  /\ Cardinality(Enders) \in Nat
<1>1. IsFiniteSet(Ids) BY ConstantsAssumption, FS_Interval DEF Ids
<1>2. \A u : OrdersOf(u) \subseteq Ids /\ Creating(u) \subseteq Enders
  BY DEF OrdersOf, Rows, Creating
<1> QED BY <1>1, <1>2, ConstantsAssumption, FS_Subset, FS_CardinalityType

LEMMA InitInv == Init => Inv
<1> SUFFICES ASSUME Init PROVE Inv OBVIOUS
<1>1. TypeOK BY DEF Init, TypeOK, NoRow, EnderIdle, ReqIdle
<1>2. Rows(orders) = {} BY DEF Init, Rows, NoRow
<1>3. \A e \in Enders : ~Handing(e) /\ ender[e].pc = "idle"
  BY DEF Init, Handing, EnderIdle
<1>4. ReqInv BY DEF Init, ReqInv, ReqIdle
<1>5. Coupled BY DEF Init, Coupled, NoRow
<1>6. Bounded
  <2>1. \A u : OrdersOf(u) = {} /\ Creating(u) = {}
    BY <1>2, <1>3 DEF OrdersOf, Creating
  <2> QED BY <2>1, FS_EmptySet, Finite DEF Bounded
<1>7. CallInv /\ WinnerHasOrder BY <1>3 DEF Init, CallInv, WinnerHasOrder
<1> QED BY <1>1, <1>4, <1>5, <1>6, <1>7 DEF Inv

-----------------------------------------------------------------------------
(* Steps that leave orders and shippings alone. *)

LEMMA SameRows ==
  ASSUME UNCHANGED orders
  PROVE  Rows(orders)' = Rows(orders) /\ \A u : OrdersOf(u)' = OrdersOf(u)
BY DEF Rows, OrdersOf

LEMMA QuietStep ==
  ASSUME Inv, UNCHANGED <<orders, shipping, ender, auction, lost>>, TypeOK',
         \A r \in Requests : req'[r].pc # "idle" => req'[r].id \in Rows(orders)
  PROVE  Inv'
<1>1. Rows(orders)' = Rows(orders) /\ \A u : OrdersOf(u)' = OrdersOf(u)
  BY SameRows
<1>2. ReqInv' BY <1>1 DEF ReqInv
<1>3. /\ \A u : Creating(u)' = Creating(u)
      /\ \A e \in Enders : Handing(e)' <=> Handing(e)
  BY DEF Creating, Handing
<1>4. Bounded' BY <1>1, <1>3 DEF Inv, Bounded
<1>5. CallInv' /\ WinnerHasOrder' BY <1>1, <1>3 DEF Inv, CallInv, WinnerHasOrder
<1>6. Coupled' BY <1>1 DEF Inv, Coupled, OnlyOrder, OrdersOf
<1> QED BY <1>2, <1>4, <1>5, <1>6 DEF Inv

(* Bids, time and a request that reads or fails. *)
LEMMA ReadersStep ==
  ASSUME Inv,
         \/ \E u \in Users : PlaceBid(u)
         \/ EndTimePasses \/ UNCHANGED vars
         \/ \E r \in Requests : \/ FailReq(r)
              \/ \E i \in Ids : ReadForShip(r, i) \/ ReadForDelivery(r, i)
  PROVE  Inv'
<1>0. TypeOK /\ ReqInv BY DEF Inv
<1>1. CASE (\E u \in Users : PlaceBid(u)) \/ EndTimePasses \/ UNCHANGED vars
  <2>1. TypeOK' /\ UNCHANGED <<orders, shipping, ender, auction, lost, req>>
    BY <1>0, <1>1 DEF TypeOK, PlaceBid, EndTimePasses, vars
  <2> QED BY <1>0, <2>1, QuietStep DEF ReqInv
<1>2. ASSUME NEW r \in Requests, NEW pc \in {"idle", "ship", "deliver"},
             NEW i \in {0} \cup Ids, SetReq(r, pc, i),
             pc # "idle" => i \in Rows(orders),
             UNCHANGED <<over, leader, auction, orders, shipping, ender, lost>>
      PROVE  Inv'
  <2>1. req' = [req EXCEPT ![r] = [pc |-> pc, id |-> i]] BY <1>2 DEF SetReq
  <2>2. req \in [Requests -> Request] BY <1>0, Typed
  <2>3. req' \in [Requests -> Request] /\ req'[r] = [pc |-> pc, id |-> i]
    BY <2>1, <2>2 DEF Request
  <2>4. \A q \in Requests \ {r} : req'[q] = req[q] BY <2>1, <2>2
  <2>5. TypeOK' BY <1>0, <1>2, <2>3, Typed, Retyped
  <2>6. \A q \in Requests : req'[q].pc # "idle" => req'[q].id \in Rows(orders)
    BY <1>0, <1>2, <2>3, <2>4 DEF ReqInv
  <2> QED BY <1>2, <2>5, <2>6, QuietStep
<1>3. ASSUME NEW r \in Requests, FailReq(r) PROVE Inv'
  <2>1. /\ SetReq(r, "idle", 0)
        /\ UNCHANGED <<over, leader, auction, orders, shipping, ender, lost>>
    BY <1>3 DEF FailReq
  <2> QED BY <1>2, <2>1
<1>4. ASSUME NEW r \in Requests, NEW i \in Ids, ReadForShip(r, i) PROVE Inv'
  <2>1. /\ SetReq(r, "ship", i) /\ i \in Rows(orders)
        /\ UNCHANGED <<over, leader, auction, orders, shipping, ender, lost>>
    BY <1>4 DEF ReadForShip, Rows
  <2> QED BY <1>2, <2>1
<1>5. ASSUME NEW r \in Requests, NEW i \in Ids, ReadForDelivery(r, i) PROVE Inv'
  <2>1. /\ SetReq(r, "deliver", i) /\ shipping[i].status = "IN_TRANSIT"
        /\ UNCHANGED <<over, leader, auction, orders, shipping, ender, lost>>
    BY <1>5 DEF ReadForDelivery
  <2>2. i \in Rows(orders) BY <2>1 DEF Inv, Coupled, Rows
  <2> QED BY <1>2, <2>1, <2>2
<1> QED BY <1>1, <1>3, <1>4, <1>5

-----------------------------------------------------------------------------
(* A call moves on and leaves orders and shippings alone. *)

LEMMA CallStep ==
  ASSUME Inv, NEW e \in Enders, NEW pc \in {"idle", "update", "auction", "existing", "tx"},
         NEW u \in Users \cup {NoUser}, SetEnder(e, pc, u),
         pc \in {"auction", "existing", "tx"} => u \in Users,
         pc = "tx" => OrdersOf(u) = {},
         UNCHANGED <<over, leader, orders, shipping, req>>, lost' \in BOOLEAN,
         auction' \in AuctionRow,
         WinnerHasOrder'
  PROVE  Inv'
<1>0. /\ ender' = [ender EXCEPT ![e] = [pc |-> pc, winner |-> u]]
      /\ ender \in [Enders -> Call] /\ TypeOK
  BY Typed DEF SetEnder, Inv
<1>1. ender' \in [Enders -> Call] BY <1>0 DEF Call
<1>2. TypeOK' BY <1>0, <1>1, Typed, Retyped
<1>3. ender'[e] = [pc |-> pc, winner |-> u] /\ \A f \in Enders \ {e} : ender'[f] = ender[f]
  BY <1>0
<1>4. Rows(orders)' = Rows(orders) /\ \A v : OrdersOf(v)' = OrdersOf(v) BY SameRows
<1>5. CallInv'
  <2>1. \A f \in Enders \ {e} : Handing(f)' <=> Handing(f) BY <1>3 DEF Handing
  <2>2. Handing(e)' => u \in Users BY <1>3 DEF Handing
  <2> QED BY <1>3, <2>1, <2>2 DEF Inv, CallInv
<1>6. ReqInv' BY <1>4 DEF Inv, ReqInv
<1>7. Coupled' BY <1>4 DEF Inv, Coupled, OnlyOrder, OrdersOf
<1>8. Bounded'
  <2> SUFFICES ASSUME NEW v \in Users
               PROVE  Cardinality(OrdersOf(v)) + Cardinality(Creating(v)')
                        <= Cardinality(Enders)
    BY <1>4 DEF Bounded
  <2>1. CASE pc = "tx" /\ v = u
    <3>1. Cardinality(OrdersOf(v)) = 0 BY <2>1, FS_EmptySet
    <3>2. Creating(v)' \subseteq Enders BY DEF Creating
    <3>3. Cardinality(Creating(v)') \in Nat
          /\ Cardinality(Creating(v)') <= Cardinality(Enders)
      BY <3>2, ConstantsAssumption, FS_Subset, FS_CardinalityType
    <3> QED BY <3>1, <3>3
  <2>2. CASE ~(pc = "tx" /\ v = u)
    <3>1. Creating(v)' \subseteq Creating(v) BY <1>3, <2>2 DEF Creating
    <3>2. Cardinality(Creating(v)') \in Nat
          /\ Cardinality(Creating(v)') <= Cardinality(Creating(v))
      BY <3>1, Finite, FS_Subset, FS_CardinalityType
    <3> QED BY <3>2, Finite DEF Inv, Bounded
  <2> QED BY <2>1, <2>2
<1> QED BY <1>2, <1>5, <1>6, <1>7, <1>8 DEF Inv

(* The winner that the row names keeps his order or his call. *)
LEMMA KeepsWinner ==
  ASSUME Inv, NEW e \in Enders, NEW pc, NEW u, SetEnder(e, pc, u), UNCHANGED orders,
         \/ auction'.status # "COMPLETED"
         \/ auction'.winner = u /\ pc \in {"auction", "existing", "tx"}
         \/ auction' = auction /\ (lost => lost')
             /\ (Handing(e) /\ ender[e].winner = auction.winner =>
                    \/ OrdersOf(auction.winner) # {} \/ lost'
                    \/ u = auction.winner /\ pc \in {"auction", "existing", "tx"})
  PROVE  WinnerHasOrder'
<1>0. TypeOK /\ WinnerHasOrder BY DEF Inv
<1>1. ender'[e] = [pc |-> pc, winner |-> u] /\ \A f \in Enders \ {e} : ender'[f] = ender[f]
  BY <1>0, Typed DEF SetEnder
<1>2. \A v : OrdersOf(v)' = OrdersOf(v) BY SameRows
<1>3. \A f \in Enders \ {e} : Handing(f)' <=> Handing(f) BY <1>1 DEF Handing
<1>4. Handing(e)' <=> pc \in {"auction", "existing", "tx"} BY <1>1 DEF Handing
<1>5. CASE auction'.status # "COMPLETED" BY <1>5 DEF WinnerHasOrder
<1>6. CASE auction'.winner = u /\ pc \in {"auction", "existing", "tx"}
  BY <1>1, <1>4, <1>6 DEF WinnerHasOrder
<1>7. CASE auction' = auction /\ (lost => lost')
             /\ (Handing(e) /\ ender[e].winner = auction.winner =>
                    \/ OrdersOf(auction.winner) # {} \/ lost'
                    \/ u = auction.winner /\ pc \in {"auction", "existing", "tx"})
  <2>1. CASE \E f \in Enders \ {e} : Handing(f) /\ ender[f].winner = auction.winner
    BY <1>1, <1>3, <1>7, <2>1 DEF WinnerHasOrder
  <2>2. CASE Handing(e) /\ ender[e].winner = auction.winner
    BY <1>1, <1>2, <1>4, <1>7, <2>2 DEF WinnerHasOrder
  <2> QED BY <1>0, <1>2, <1>7, <2>1, <2>2 DEF WinnerHasOrder
<1> QED BY <1>5, <1>6, <1>7

LEMMA CallsStep ==
  ASSUME Inv, NEW e \in Enders,
         \/ ReadBids(e) \/ UpdateAuction(e) \/ ReadAuction(e)
         \/ FindExisting(e) \/ FailEnder(e)
  PROVE  Inv'
<1> DEFINE w == ender[e].winner
<1>0. /\ w \in Users \cup {NoUser} /\ NoUser \in Users \cup {NoUser}
      /\ leader \in Users \cup {NoUser} /\ lost \in BOOLEAN /\ auction \in AuctionRow
      /\ Handing(e) => w \in Users
  BY Typed DEF Inv, CallInv, Call
<1>1. CASE ReadBids(e)
  <2>1. /\ SetEnder(e, "update", leader) /\ ~Handing(e)
        /\ UNCHANGED <<over, leader, auction, orders, shipping, req, lost>>
    BY <1>1 DEF ReadBids, Handing, EnderIdle
  <2>2. WinnerHasOrder' BY <2>1, KeepsWinner
  <2> QED BY <1>0, <2>1, <2>2, CallStep
<1>2. CASE UpdateAuction(e)
  <2>0. UNCHANGED <<over, leader, orders, shipping, req>> BY <1>2 DEF UpdateAuction
  <2>1. CASE w = NoUser
    <3>1. /\ SetEnder(e, "idle", NoUser) /\ lost' = lost
          /\ auction' = [auction EXCEPT !.status = "CLOSED"]
      BY <1>2, <2>1 DEF UpdateAuction
    <3>2. auction' \in AuctionRow /\ auction'.status # "COMPLETED"
      BY <1>0, <3>1 DEF AuctionRow
    <3>3. WinnerHasOrder' BY <2>0, <3>1, <3>2, KeepsWinner
    <3> QED BY <1>0, <2>0, <3>1, <3>2, <3>3, CallStep
  <2>2. CASE w # NoUser
    <3>1. /\ SetEnder(e, "auction", w) /\ lost' = FALSE /\ w \in Users
          /\ auction' = [status |-> "COMPLETED", winner |-> w]
      BY <1>0, <1>2, <2>2 DEF UpdateAuction
    <3>2. auction' \in AuctionRow /\ auction'.winner = w BY <3>1 DEF AuctionRow
    <3> HIDE DEF w
    <3>3. WinnerHasOrder' BY <2>0, <3>1, <3>2, KeepsWinner
    <3> QED BY <1>0, <2>0, <3>1, <3>2, <3>3, CallStep
  <2> QED BY <2>1, <2>2
<1>3. CASE ReadAuction(e)
  <2>1. /\ SetEnder(e, "existing", w) /\ Handing(e)
        /\ UNCHANGED <<over, leader, auction, orders, shipping, req, lost>>
    BY <1>3 DEF ReadAuction, Handing
  <2>2. WinnerHasOrder' BY <2>1, KeepsWinner
  <2> QED BY <1>0, <2>1, <2>2, CallStep
<1>4. CASE FindExisting(e)
  <2>1. /\ Handing(e)
        /\ UNCHANGED <<over, leader, auction, orders, shipping, req, lost>>
    BY <1>4 DEF FindExisting, Handing
  <2>2. CASE OrdersOf(w) = {}
    <3>1. SetEnder(e, "tx", w) BY <1>4, <2>2 DEF FindExisting, Existing
    <3>2. WinnerHasOrder' BY <2>1, <3>1, KeepsWinner
    <3> QED BY <1>0, <2>1, <2>2, <3>1, <3>2, CallStep
  <2>3. CASE OrdersOf(w) # {}
    <3>1. SetEnder(e, "idle", NoUser) BY <1>4, <2>3 DEF FindExisting, Existing
    <3>2. WinnerHasOrder' BY <2>1, <2>3, <3>1, KeepsWinner
    <3> QED BY <1>0, <2>1, <3>1, <3>2, CallStep
  <2> QED BY <2>2, <2>3
<1>5. CASE FailEnder(e)
  <2>1. /\ SetEnder(e, "idle", NoUser)
        /\ UNCHANGED <<over, leader, auction, orders, shipping, req>>
        /\ lost' = (lost \/ (Handing(e) /\ w = auction.winner))
    BY <1>5 DEF FailEnder
  <2>2. WinnerHasOrder' BY <2>1, KeepsWinner
  <2>3. lost' \in BOOLEAN BY <1>0, <2>1
  <2> QED BY <1>0, <2>1, <2>2, <2>3, CallStep
<1> QED BY <1>1, <1>2, <1>3, <1>4, <1>5

(* A new order: one call less that is going to create one. *)
LEMMA CreateStep ==
  ASSUME Inv, NEW e \in Enders, CreateOrder(e)
  PROVE  Inv'
<1>a. ender[e].winner \in Users BY DEF Inv, CallInv, CreateOrder, Handing
<1>b. PICK u \in Users : u = ender[e].winner BY <1>a
<1>0. TypeOK /\ e \in Creating(u) BY <1>b DEF Inv, CreateOrder, Creating
<1>1. /\ SetEnder(e, "idle", NoUser)
      /\ UNCHANGED <<over, leader, auction, req, lost>>
  BY DEF CreateOrder
<1>2. PICK i \in Ids \ Rows(orders) :
        /\ orders' = [orders EXCEPT ![i] = [user |-> u, status |-> "PAID"]]
        /\ shipping' = [shipping EXCEPT ![i] = [user |-> u, status |-> "PENDING"]]
  BY <1>b DEF CreateOrder
<1>3. /\ orders \in [Ids -> Order] /\ shipping \in [Ids -> Shipping]
      /\ ender \in [Enders -> Call]
  BY <1>0, Typed
<1>4. /\ orders'[i] = [user |-> u, status |-> "PAID"]
      /\ shipping'[i] = [user |-> u, status |-> "PENDING"]
      /\ \A j \in Ids \ {i} : orders'[j] = orders[j] /\ shipping'[j] = shipping[j]
  BY <1>2, <1>3
<1>5. orders' \in [Ids -> Order] /\ shipping' \in [Ids -> Shipping]
  BY <1>0, <1>2, <1>3 DEF Order, Shipping
<1>6. /\ ender' = [ender EXCEPT ![e] = [pc |-> "idle", winner |-> NoUser]]
      /\ ender' \in [Enders -> Call]
  BY <1>1, <1>3 DEF SetEnder, Call
<1>7. ender'[e].pc = "idle" /\ \A f \in Enders \ {e} : ender'[f] = ender[f]
  BY <1>3, <1>6
<1>8. TypeOK' BY <1>0, <1>1, <1>5, <1>6, Typed, Retyped
<1>9. Rows(orders)' = Rows(orders) \cup {i} BY <1>4 DEF Rows
<1>10. /\ OrdersOf(u)' = OrdersOf(u) \cup {i} /\ i \notin OrdersOf(u)
       /\ \A v : v # u => OrdersOf(v)' = OrdersOf(v)
  <2>1. i \notin Rows(orders) /\ Rows(orders) \subseteq Ids /\ orders'[i].user = u
    BY <1>2, <1>4 DEF Rows
  <2>2. \A j \in Rows(orders) : orders'[j] = orders[j] BY <1>4, <2>1
  <2> QED BY <1>9, <2>1, <2>2 DEF OrdersOf
<1>11. /\ Creating(u)' = Creating(u) \ {e}
       /\ \A v : Creating(v)' \subseteq Creating(v)
  BY <1>7 DEF Creating
<1>12. Bounded'
  <2> SUFFICES ASSUME NEW v \in Users
               PROVE  Cardinality(OrdersOf(v)') + Cardinality(Creating(v)')
                        <= Cardinality(Enders)
    BY DEF Bounded
  <2>0. /\ Cardinality(OrdersOf(v)) + Cardinality(Creating(v)) <= Cardinality(Enders)
        /\ Cardinality(OrdersOf(v)) \in Nat /\ Cardinality(Creating(v)) \in Nat
        /\ Cardinality(Enders) \in Nat
    BY Finite DEF Inv, Bounded
  <2>1. CASE v = u
    <3>1. Cardinality(OrdersOf(u)') = Cardinality(OrdersOf(u)) + 1
      BY <1>10, Finite, FS_AddElement
    <3>2. Cardinality(Creating(u)') = Cardinality(Creating(u)) - 1
      BY <1>0, <1>11, Finite, FS_RemoveElement
    <3> QED BY <2>0, <2>1, <3>1, <3>2
  <2>2. CASE v # u
    <3>1. Cardinality(Creating(v)') <= Cardinality(Creating(v))
          /\ Cardinality(Creating(v)') \in Nat
      BY <1>11, Finite, FS_Subset, FS_CardinalityType
    <3>2. OrdersOf(v)' = OrdersOf(v) BY <1>10, <2>2
    <3> QED BY <2>0, <3>1, <3>2
  <2> QED BY <2>1, <2>2
<1>13. CallInv'
  <2>1. ~Handing(e)' /\ \A f \in Enders \ {e} : Handing(f)' <=> Handing(f)
    BY <1>7 DEF Handing
  <2> QED BY <1>7, <2>1 DEF Inv, CallInv
<1>14. ReqInv' BY <1>1, <1>9 DEF Inv, ReqInv
<1>15. Coupled'
  <2> SUFFICES ASSUME NEW j \in Ids
               PROVE  /\ orders'[j].user = shipping'[j].user
                      /\ orders'[j].status = "none" <=> shipping'[j].status = "none"
                      /\ OnlyOrder(j)' => <<orders'[j].status, shipping'[j].status>> \in
                           {<<"none", "none">>, <<"PAID", "PENDING">>,
                            <<"SHIPPING", "SHIPPED">>, <<"SHIPPING", "IN_TRANSIT">>,
                            <<"COMPLETED", "DELIVERED">>}
    BY DEF Coupled
  <2>1. CASE j = i BY <1>4, <2>1
  <2>2. CASE j # i
    <3>1. orders'[j] = orders[j] /\ shipping'[j] = shipping[j] BY <1>4, <2>2
    <3>2. OnlyOrder(j)' => OnlyOrder(j)
      <4>1. \A v : OrdersOf(v) \subseteq OrdersOf(v)' BY <1>10
      <4>2. OnlyOrder(j)' <=> \A k \in Rows(orders)' :
                                orders'[k].user = orders'[j].user => k = j
        BY DEF OnlyOrder, OrdersOf
      <4>3. OnlyOrder(j) <=> \A k \in Rows(orders) :
                               orders[k].user = orders[j].user => k = j
        BY DEF OnlyOrder, OrdersOf
      <4>4. \A k \in Rows(orders) : orders'[k] = orders[k]
        BY <1>2, <1>4 DEF Rows
      <4> QED BY <1>9, <3>1, <4>2, <4>3, <4>4
    <3> QED BY <3>1, <3>2 DEF Inv, Coupled
  <2> QED BY <2>1, <2>2
<1>16. WinnerHasOrder'
  <2>1. CASE auction.winner = u
    <3>1. OrdersOf(auction.winner)' # {} BY <1>1, <1>10, <2>1
    <3> QED BY <3>1 DEF WinnerHasOrder
  <2>2. CASE auction.winner # u
    <3>1. OrdersOf(auction.winner)' = OrdersOf(auction.winner) BY <1>1, <1>10, <2>2
    <3>2. \A f \in Enders : Handing(f) /\ ender[f].winner = auction.winner =>
                             Handing(f)' /\ ender'[f].winner = auction.winner
      BY <1>7, <1>b, <2>2 DEF Handing
    <3> QED BY <1>1, <3>1, <3>2 DEF Inv, WinnerHasOrder
  <2> QED BY <2>1, <2>2
<1> QED BY <1>8, <1>12, <1>13, <1>14, <1>15, <1>16 DEF Inv

-----------------------------------------------------------------------------
(* Shipment and delivery write rows that exist. *)

(* The orders S are written, all with their user, and one of the shippings. *)
Ships(S, i, o, s) ==
  /\ i \in S /\ S \subseteq Rows(orders) /\ i \in Ids
  /\ o \in {"PAID", "SHIPPING", "COMPLETED"} /\ s \in {"SHIPPED", "IN_TRANSIT", "DELIVERED"}
  /\ OnlyOrder(i) => <<o, s>> \in {<<"SHIPPING", "SHIPPED">>,
                         <<"SHIPPING", "IN_TRANSIT">>, <<"COMPLETED", "DELIVERED">>}
  /\ \A j \in S : orders[j].user = orders[i].user
  /\ orders' = [j \in Ids |-> IF j \in S THEN [orders[j] EXCEPT !.status = o]
                              ELSE orders[j]]
  /\ shipping' = [shipping EXCEPT ![i].status = s]
  /\ UNCHANGED <<over, leader, auction, ender, lost>>
  /\ \A r \in Requests : req'[r] = req[r] \/ req'[r] = ReqIdle
  /\ req' \in [Requests -> Request]

LEMMA ShipsStep ==
  ASSUME Inv, NEW S, NEW i, NEW o, NEW s, Ships(S, i, o, s)
  PROVE  Inv'
<1>0. TypeOK BY DEF Inv
<1>1. /\ orders \in [Ids -> Order] /\ shipping \in [Ids -> Shipping] /\ i \in Ids
      /\ o \in {"PAID", "SHIPPING", "COMPLETED"} /\ s \in {"SHIPPED", "IN_TRANSIT", "DELIVERED"}
      /\ i \in S /\ S \subseteq Rows(orders) /\ req' \in [Requests -> Request]
      /\ UNCHANGED <<over, leader, auction, ender, lost>>
  BY <1>0, Typed DEF Ships
<1>2. /\ orders' \in [Ids -> Order]
      /\ \A j \in Ids : /\ orders'[j].user = orders[j].user
                         /\ orders'[j].status = (IF j \in S THEN o ELSE orders[j].status)
  <2>1. orders' = [j \in Ids |-> IF j \in S THEN [orders[j] EXCEPT !.status = o]
                                 ELSE orders[j]]
    BY DEF Ships
  <2> QED BY <1>1, <2>1 DEF Order
<1>3. /\ shipping' \in [Ids -> Shipping]
      /\ \A j \in Ids : /\ shipping'[j].user = shipping[j].user
                         /\ shipping'[j].status = (IF j = i THEN s ELSE shipping[j].status)
  <2>1. shipping' = [shipping EXCEPT ![i].status = s] BY DEF Ships
  <2> QED BY <1>1, <2>1 DEF Shipping
<1>4. TypeOK' BY <1>0, <1>1, <1>2, <1>3, Typed, Retyped
<1>5. \A j \in Ids : orders'[j].status = "none" <=> orders[j].status = "none"
  BY <1>1, <1>2 DEF Rows
<1>6. Rows(orders)' = Rows(orders) BY <1>5 DEF Rows
<1>7. \A u : OrdersOf(u)' = OrdersOf(u) BY <1>2, <1>6 DEF OrdersOf, Rows
<1>8. CallInv' /\ WinnerHasOrder' /\ Bounded'
  <2>1. /\ \A e \in Enders : Handing(e)' <=> Handing(e)
        /\ \A u : Creating(u)' = Creating(u)
    BY <1>1 DEF Handing, Creating
  <2> QED BY <1>1, <1>7, <2>1 DEF Inv, CallInv, WinnerHasOrder, Bounded
<1>9. ReqInv' BY <1>6 DEF Inv, ReqInv, ReqIdle, Ships
<1>10. Coupled'
  <2> DEFINE pairs == {<<"none", "none">>, <<"PAID", "PENDING">>,
                       <<"SHIPPING", "SHIPPED">>, <<"SHIPPING", "IN_TRANSIT">>,
                       <<"COMPLETED", "DELIVERED">>}
  <2> SUFFICES ASSUME NEW j \in Ids
               PROVE  /\ orders'[j].user = shipping'[j].user
                      /\ orders'[j].status = "none" <=> shipping'[j].status = "none"
                      /\ OnlyOrder(j)' => <<orders'[j].status, shipping'[j].status>> \in pairs
    BY DEF Coupled
  <2>1. orders'[j].user = shipping'[j].user BY <1>2, <1>3 DEF Inv, Coupled
  <2>2. orders'[j].status = "none" <=> shipping'[j].status = "none"
    BY <1>1, <1>3, <1>5 DEF Inv, Coupled, Rows
  <2>3. OnlyOrder(j)' <=> OnlyOrder(j)
    BY <1>2, <1>6 DEF OnlyOrder, OrdersOf, Rows
  <2>4. CASE j = i
    <3>1. orders'[j].status = o /\ shipping'[j].status = s BY <1>1, <1>2, <1>3, <2>4
    <3> QED BY <2>1, <2>2, <2>3, <2>4, <3>1 DEF Ships
  <2>5. CASE j # i /\ j \in S
    <3>1. i \in OrdersOf(orders[j].user) BY <1>1, <2>5 DEF Ships, OrdersOf
    <3>2. ~OnlyOrder(j) BY <2>5, <3>1 DEF OnlyOrder
    <3> QED BY <2>1, <2>2, <2>3, <3>2
  <2>6. CASE j # i /\ j \notin S
    <3>1. orders'[j].status = orders[j].status /\ shipping'[j].status = shipping[j].status
      BY <1>2, <1>3, <2>6
    <3> QED BY <2>1, <2>2, <2>3, <3>1 DEF Inv, Coupled
  <2> QED BY <2>4, <2>5, <2>6
<1> QED BY <1>4, <1>8, <1>9, <1>10 DEF Inv

LEMMA ReqDone ==
  ASSUME Inv, NEW r \in Requests, SetReq(r, "idle", 0)
  PROVE  /\ req' \in [Requests -> Request]
         /\ \A q \in Requests : req'[q] = req[q] \/ req'[q] = ReqIdle
<1>1. req \in [Requests -> Request] BY Typed DEF Inv
<1> QED BY <1>1 DEF SetReq, ReqIdle, Request

LEMMA ShippingStep ==
  ASSUME Inv,
         \/ \E r \in Requests : CommitShip(r) \/ CommitDelivery(r)
         \/ \E i \in Ids : Courier(i)
  PROVE  Inv'
<1>0. TypeOK /\ orders \in [Ids -> Order] /\ Rows(orders) \subseteq Ids
  BY Typed DEF Inv, Rows
<1>1. ASSUME NEW r \in Requests, CommitShip(r) PROVE Inv'
  <2> DEFINE i == req[r].id
  <2>1. i \in Rows(orders) /\ i \in Ids BY <1>1 DEF CommitShip, Inv, ReqInv, Rows
  <2>2. /\ orders' = [orders EXCEPT ![i].status = "SHIPPING"]
        /\ shipping' = [shipping EXCEPT ![i].status = "SHIPPED"]
        /\ SetReq(r, "idle", 0) /\ UNCHANGED <<over, leader, auction, ender, lost>>
    BY <1>1 DEF CommitShip
  <2> HIDE DEF i
  <2>3. orders' = [j \in Ids |-> IF j \in {i} THEN [orders[j] EXCEPT !.status = "SHIPPING"]
                                 ELSE orders[j]]
    BY <1>0, <2>1, <2>2
  <2>4. Ships({i}, i, "SHIPPING", "SHIPPED") BY <2>1, <2>2, <2>3, ReqDone DEF Ships
  <2> QED BY <2>4, ShipsStep
<1>2. ASSUME NEW r \in Requests, CommitDelivery(r) PROVE Inv'
  <2> DEFINE i == req[r].id
             S == OrdersOf(shipping[i].user)
  <2>1. i \in Rows(orders) /\ i \in Ids BY <1>2 DEF CommitDelivery, Inv, ReqInv, Rows
  <2>2. /\ orders' = Completed(shipping[i].user)
        /\ shipping' = [shipping EXCEPT ![i].status = "DELIVERED"]
        /\ SetReq(r, "idle", 0) /\ UNCHANGED <<over, leader, auction, ender, lost>>
    BY <1>2 DEF CommitDelivery
  <2> HIDE DEF i
  <2>3. /\ i \in S /\ S \subseteq Rows(orders)
        /\ \A j \in S : orders[j].user = orders[i].user
    BY <2>1 DEF OrdersOf, Inv, Coupled
  <2>4. Ships(S, i, "COMPLETED", "DELIVERED")
    BY <2>1, <2>2, <2>3, ReqDone DEF Ships, Completed
  <2> QED BY <2>4, ShipsStep
<1>3. ASSUME NEW i \in Ids, Courier(i) PROVE Inv'
  <2>1. /\ shipping[i].status = "SHIPPED"
        /\ shipping' = [shipping EXCEPT ![i].status = "IN_TRANSIT"]
        /\ UNCHANGED <<over, leader, auction, orders, ender, req, lost>>
    BY <1>3 DEF Courier
  <2>2. i \in Rows(orders) /\ orders[i].status # "none"
    BY <2>1 DEF Inv, Coupled, Rows
  <2>3. OnlyOrder(i) => orders[i].status = "SHIPPING" BY <2>1 DEF Inv, Coupled
  <2> DEFINE o == orders[i].status
  <2>4. o \in {"PAID", "SHIPPING", "COMPLETED"} BY <1>0, <2>2 DEF Order
  <2>5. orders' = [j \in Ids |-> IF j \in {i} THEN [orders[j] EXCEPT !.status = o]
                                 ELSE orders[j]]
    BY <1>0, <2>1 DEF Order
  <2>6. req \in [Requests -> Request] BY <1>0, Typed
  <2> HIDE DEF o
  <2>7. OnlyOrder(i) => o = "SHIPPING" BY <2>3 DEF o
  <2>8. Ships({i}, i, o, "IN_TRANSIT") BY <2>1, <2>2, <2>4, <2>5, <2>6, <2>7 DEF Ships
  <2> QED BY <2>8, ShipsStep
<1> QED BY <1>1, <1>2, <1>3

-----------------------------------------------------------------------------
LEMMA NextStep == Inv /\ [Next]_vars => Inv'
<1> SUFFICES ASSUME Inv, [Next]_vars PROVE Inv' OBVIOUS
<1>1. CASE \E u \in Users : PlaceBid(u) BY <1>1, ReadersStep
<1>2. CASE EndTimePasses BY <1>2, ReadersStep
<1>3. CASE \E e \in Enders : \/ ReadBids(e) \/ UpdateAuction(e) \/ ReadAuction(e)
                             \/ FindExisting(e) \/ FailEnder(e)
  BY <1>3, CallsStep
<1>4. CASE \E e \in Enders : CreateOrder(e) BY <1>4, CreateStep
<1>5. CASE \E r \in Requests : \/ \E i \in Ids : ReadForShip(r, i) \/ ReadForDelivery(r, i)
                               \/ FailReq(r)
  BY <1>5, ReadersStep
<1>6. CASE \E r \in Requests : CommitShip(r) \/ CommitDelivery(r) BY <1>6, ShippingStep
<1>7. CASE \E i \in Ids : Courier(i) BY <1>7, ShippingStep
<1>8. CASE UNCHANGED vars BY <1>8, ReadersStep
<1> QED BY <1>1, <1>2, <1>3, <1>4, <1>5, <1>6, <1>7, <1>8 DEF Next

LEMMA AlwaysInv == Spec => []Inv
<1> QED BY InitInv, NextStep, PTL DEF Spec

(* The auction row, the order and shipping rows, the calls of endAuction    *)
(* and the requests keep their types.                                       *)
THEOREM TypeCorrect == Spec => []TypeOK
<1>1. Inv => TypeOK BY DEF Inv
<1> QED BY <1>1, AlwaysInv, PTL

(* However many pages and cron jobs end the auction, and end it again, the  *)
(* winner has no more orders than calls overlapped                          *)
(* (createOrderFromAuction looks for one before it creates one).            *)
THEOREM OrdersAreBounded == Spec => []OrdersBounded
<1>1. Inv => OrdersBounded
  <2> SUFFICES ASSUME Inv, NEW u \in Users
               PROVE  Cardinality(OrdersOf(u)) <= Cardinality(Enders)
    BY DEF OrdersBounded
  <2>1. Cardinality(OrdersOf(u)) + Cardinality(Creating(u)) <= Cardinality(Enders)
    BY DEF Inv, Bounded
  <2> QED BY <2>1, Finite
<1> QED BY <1>1, AlwaysInv, PTL

(* An order and its shipping keep one owner and, while it is his only order *)
(* for the auction, corresponding states, although confirmOrderShipped,     *)
(* confirmShipped and confirmDelivery write both from rows read earlier.    *)
THEOREM StaysCoupled == Spec => []Coupled
<1>1. Inv => Coupled BY DEF Inv
<1> QED BY <1>1, AlwaysInv, PTL

(* The winner the auction row names has an order, or the listener that has  *)
(* to create it is still under way, unless it broke off.                    *)
THEOREM WinnerIsServed == Spec => []WinnerHasOrder
<1>1. Inv => WinnerHasOrder BY DEF Inv
<1> QED BY <1>1, AlwaysInv, PTL
=============================================================================

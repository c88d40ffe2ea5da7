---------------------------- MODULE Fulfilment ----------------------------
(***************************************************************************)
(* From the end of one auction to the delivery: AuctionService.endAuction  *)
(* and the AUCTION_ENDED listener that creates the order and its shipping  *)
(* (OrdersService.createOrderFromAuction), the two endpoints by which the  *)
(* seller confirms the shipment and the one by which the buyer confirms    *)
(* the delivery.                                                           *)
(*                                                                         *)
(* An `ender' is one call of endAuction and the listener it starts: after  *)
(* the auction row is written the event is handed over in the same process.*)
(* Every query is an action; a transaction is one action.                  *)
(***************************************************************************)
EXTENDS Integers, FiniteSets

CONSTANTS
  Users,      \* bidders
  Enders,     \* calls of endAuction: the cron job's and those of open pages
  Requests,   \* requests of the seller and of buyers
  Ops,        \* "early": pages may end the auction before its end time;
              \* "courier": somebody outside sets shippings to IN_TRANSIT
  NoUser,
  MaxOrders   \* bound on the number of orders

ASSUME ConstantsAssumption ==
  /\ NoUser \notin Users
  /\ Ops \subseteq {"early", "courier"}
  /\ IsFiniteSet(Enders)
  /\ MaxOrders \in Nat

VARIABLES
  over,     \* the end time has passed
  leader,   \* the bidder whom endAuction would choose, NoUser without bids
  auction,  \* status and winner of the auction row
  orders,   \* rows of `orders': id -> user and status
  shipping, \* rows of `shippings' by their unique order_id
  ender,    \* the calls of endAuction in flight
  req,      \* the requests of sellers and buyers in flight
  lost      \* history: a call that had written the winner whom the row names
            \* broke off before his order was created

vars == <<over, leader, auction, orders, shipping, ender, req, lost>>

Ids == 1..MaxOrders
NoRow == [user |-> NoUser, status |-> "none"]

EnderIdle == [pc |-> "idle", winner |-> NoUser]
ReqIdle == [pc |-> "idle", id |-> 0]

TypeOK ==
  /\ over \in BOOLEAN
  /\ leader \in Users \cup {NoUser}
  /\ auction \in [status: {"OPEN", "CLOSED", "COMPLETED"},
                  winner: Users \cup {NoUser}]
  /\ orders \in [Ids -> [user: Users \cup {NoUser},
                         status: {"none", "PAID", "SHIPPING", "COMPLETED"}]]
  /\ shipping \in [Ids -> [user: Users \cup {NoUser},
                           status: {"none", "PENDING", "SHIPPED", "IN_TRANSIT",
                                    "DELIVERED"}]]
  /\ ender \in [Enders -> [pc: {"idle", "update", "auction", "existing", "tx"},
                           winner: Users \cup {NoUser}]]
  /\ req \in [Requests -> [pc: {"idle", "ship", "deliver"}, id: {0} \cup Ids]]
  /\ lost \in BOOLEAN

Init ==
  /\ over = FALSE
  /\ leader = NoUser
  /\ auction = [status |-> "OPEN", winner |-> NoUser]
  /\ orders = [i \in Ids |-> NoRow]
  /\ shipping = [i \in Ids |-> NoRow]
  /\ ender = [e \in Enders |-> EnderIdle]
  /\ req = [r \in Requests |-> ReqIdle]
  /\ lost = FALSE

Rows(table) == {i \in Ids : table[i].status # "none"}
OrdersOf(u) == {i \in Rows(orders) : orders[i].user = u}

-----------------------------------------------------------------------------
(* Bids and time *)

(* A bid that takes the lead; accepted until the end time, whatever the    *)
(* status of the auction is.                                               *)
PlaceBid(u) ==
  /\ ~over
  /\ leader' = u
  /\ UNCHANGED <<over, auction, orders, shipping, ender, req, lost>>

EndTimePasses ==
  /\ ~over /\ over' = TRUE
  /\ UNCHANGED <<leader, auction, orders, shipping, ender, req, lost>>

-----------------------------------------------------------------------------
(* endAuction and the AUCTION_ENDED listener *)

SetEnder(e, pc, u) == ender' = [ender EXCEPT ![e] = [pc |-> pc, winner |-> u]]

ReadBids(e) ==
  /\ ender[e] = EnderIdle
  /\ over \/ "early" \in Ops
  /\ SetEnder(e, "update", leader)
  /\ UNCHANGED <<over, leader, auction, orders, shipping, req, lost>>

UpdateAuction(e) ==
  LET u == ender[e].winner IN
  /\ ender[e].pc = "update"
  /\ IF u = NoUser
     THEN /\ auction' = [auction EXCEPT !.status = "CLOSED"]
          /\ SetEnder(e, "idle", NoUser)
          /\ UNCHANGED lost
     ELSE /\ auction' = [status |-> "COMPLETED", winner |-> u]
          /\ SetEnder(e, "auction", u)
          /\ lost' = FALSE
  /\ UNCHANGED <<over, leader, orders, shipping, req>>

(* The listener's first query; the event's winner must still be the winner.*)
ReadAuction(e) ==
  /\ ender[e].pc = "auction"
  /\ auction = [status |-> "COMPLETED", winner |-> ender[e].winner]
  /\ SetEnder(e, "existing", ender[e].winner)
  /\ UNCHANGED <<over, leader, auction, orders, shipping, req, lost>>

(* Mutant: only an order that is not shipped yet counts. *)
Existing_Paid(u) == {i \in OrdersOf(u) : orders[i].status = "PAID"}

(* Mutant: any order for the auction counts, whoever's it is. *)
Existing_Any(u) == Rows(orders)

Existing(u) == OrdersOf(u)

(* With an existing order the listener stops here. *)
FindExisting(e) ==
  LET u == ender[e].winner IN
  /\ ender[e].pc = "existing"
  /\ IF Existing(u) = {} THEN SetEnder(e, "tx", u) ELSE SetEnder(e, "idle", NoUser)
  /\ UNCHANGED <<over, leader, auction, orders, shipping, req, lost>>

(* Order and shipping are created in one transaction. *)
CreateOrder(e) ==
  LET u == ender[e].winner IN
  /\ ender[e].pc = "tx"
  /\ \E i \in Ids \ Rows(orders) :
       /\ \A j \in Ids : j < i => j \in Rows(orders)
       /\ orders' = [orders EXCEPT ![i] = [user |-> u, status |-> "PAID"]]
       /\ shipping' = [shipping EXCEPT ![i] = [user |-> u, status |-> "PENDING"]]
  /\ SetEnder(e, "idle", NoUser)
  /\ UNCHANGED <<over, leader, auction, req, lost>>

(* The call has written its winner, whose order it has still to create.    *)
Handing(e) == ender[e].pc \in {"auction", "existing", "tx"}

(* A check or a query fails, or the server stops: the event is not sent    *)
(* again unless a page ends the auction once more.                         *)
FailEnder(e) ==
  /\ ender[e] # EnderIdle
  /\ SetEnder(e, "idle", NoUser)
  /\ lost' = (lost \/ (Handing(e) /\ ender[e].winner = auction.winner))
  /\ UNCHANGED <<over, leader, auction, orders, shipping, req>>

-----------------------------------------------------------------------------
(* Shipment and delivery *)

SetReq(r, pc, i) == req' = [req EXCEPT ![r] = [pc |-> pc, id |-> i]]

(* confirmOrderShipped and confirmShipped: the same checks and writes, one *)
(* endpoint starts from the order, the other from the shipping.            *)
ReadForShip(r, i) ==
  /\ req[r] = ReqIdle
  /\ orders[i].status = "PAID" /\ shipping[i].status = "PENDING"
  /\ SetReq(r, "ship", i)
  /\ UNCHANGED <<over, leader, auction, orders, shipping, ender, lost>>

CommitShip(r) ==
  LET i == req[r].id IN
  /\ req[r].pc = "ship"
  /\ orders' = [orders EXCEPT ![i].status = "SHIPPING"]
  /\ shipping' = [shipping EXCEPT ![i].status = "SHIPPED"]
  /\ SetReq(r, "idle", 0)
  /\ UNCHANGED <<over, leader, auction, ender, lost>>

(* confirmDelivery *)
ReadForDelivery(r, i) ==
  /\ req[r] = ReqIdle
  /\ shipping[i].status = "IN_TRANSIT"
  /\ SetReq(r, "deliver", i)
  /\ UNCHANGED <<over, leader, auction, orders, shipping, ender, lost>>

(* Mutants: the orders are left alone; they get the shipping's status. *)
Completed_None(u) == orders
Completed_Delivered(u) ==
  [i \in Ids |-> IF i \in OrdersOf(u) THEN [orders[i] EXCEPT !.status = "DELIVERED"]
                 ELSE orders[i]]

(* All orders of the buyer for this auction. *)
Completed(u) ==
  [i \in Ids |-> IF i \in OrdersOf(u) THEN [orders[i] EXCEPT !.status = "COMPLETED"]
                 ELSE orders[i]]

CommitDelivery(r) ==
  LET i == req[r].id IN
  /\ req[r].pc = "deliver"
  /\ shipping' = [shipping EXCEPT ![i].status = "DELIVERED"]
  /\ orders' = Completed(shipping[i].user)
  /\ SetReq(r, "idle", 0)
  /\ UNCHANGED <<over, leader, auction, ender, lost>>

FailReq(r) ==
  /\ req[r] # ReqIdle
  /\ SetReq(r, "idle", 0)
  /\ UNCHANGED <<over, leader, auction, orders, shipping, ender, lost>>

(* Not in the repository, in which nothing writes IN_TRANSIT: somebody with *)
(* access to the database.  Without him no delivery can be confirmed; no    *)
(* property relies on his doing anything.                                   *)
Courier(i) ==
  /\ "courier" \in Ops
  /\ shipping[i].status = "SHIPPED"
  /\ shipping' = [shipping EXCEPT ![i].status = "IN_TRANSIT"]
  /\ UNCHANGED <<over, leader, auction, orders, ender, req, lost>>

-----------------------------------------------------------------------------
Next ==
  \/ \E u \in Users : PlaceBid(u)
  \/ EndTimePasses
  \/ \E e \in Enders : \/ ReadBids(e) \/ UpdateAuction(e) \/ ReadAuction(e)
                       \/ FindExisting(e) \/ CreateOrder(e) \/ FailEnder(e)
  \/ \E r \in Requests : \/ \E i \in Ids : ReadForShip(r, i) \/ ReadForDelivery(r, i)
                         \/ CommitShip(r) \/ CommitDelivery(r) \/ FailReq(r)
  \/ \E i \in Ids : Courier(i)

Spec == Init /\ [][Next]_vars

-----------------------------------------------------------------------------
(* Properties.                                                             *)

(* However often open pages ask for the end of the auction, before and      *)
(* after its end time, a winner gets one order for it                       *)
(* (orders.service.ts:64, "Check if order already exists").                 *)
OneOrderPerWinner == \A u \in Users : Cardinality(OrdersOf(u)) <= 1

(* What the code does keep of it: the check lets only calls through that    *)
(* are under way at the same time, so that a winner has no more orders than *)
(* calls ever overlapped, however many there were one after the other and   *)
(* whatever became of the first order.                                      *)
OrdersBounded == \A u \in Users : Cardinality(OrdersOf(u)) <= Cardinality(Enders)

(* An order and its shipping belong to the same user.  Unless the buyer has *)
(* a second order for the auction, which a delivery completes as well, they *)
(* are in corresponding states, although three endpoints write the two      *)
(* tables from rows they read earlier.                                      *)
OnlyOrder(i) == OrdersOf(orders[i].user) \subseteq {i}

Coupled ==
  \A i \in Ids :
    /\ orders[i].user = shipping[i].user
    /\ orders[i].status = "none" <=> shipping[i].status = "none"
    /\ OnlyOrder(i) => <<orders[i].status, shipping[i].status>> \in
         {<<"none", "none">>, <<"PAID", "PENDING">>, <<"SHIPPING", "SHIPPED">>,
          <<"SHIPPING", "IN_TRANSIT">>, <<"COMPLETED", "DELIVERED">>}

(* The winner that the auction names has an order, or a call is under way   *)
(* that has it still to create, or that call broke off: however calls       *)
(* overlap and overwrite each other's winner, whatever became of earlier    *)
(* orders and although the listener checks the row again after it was       *)
(* written.                                                                 *)
WinnerHasOrder ==
  auction.status = "COMPLETED" =>
    \/ OrdersOf(auction.winner) # {} \/ lost
    \/ \E e \in Enders : Handing(e) /\ ender[e].winner = auction.winner
=============================================================================

------------------------- MODULE AuctionLifecycle -------------------------
(***************************************************************************)
(* The status of auctions and the stock of products: the operations of     *)
(* AuctionService on an auction as a whole and the cron jobs of            *)
(* AuctionScheduler.                                                       *)
(*                                                                         *)
(* A request reads its rows, awaits, and writes: two actions, with the     *)
(* values read kept in task[t].  A cron job reads the rows that match its  *)
(* query and then writes each of them; it works on a set `todo'.  No write *)
(* repeats the test of its read.                                           *)
(***************************************************************************)
EXTENDS Integers, FiniteSets, Sequences, Counting

CONSTANTS
  Auctions,      \* ids of rows of `auctions', present or to come
  Products,
  Requests,      \* requests of sellers, admins and clients in flight
  Bodies,        \* the quantities sellers list, for each product in order
  Times,         \* the start and end times they ask for
  InitialStock,
  Ops,           \* the operations that a request may be for
  MaxStock,      \* bound of a stock column, either way
  MaxTasks,      \* bound of the tasks in flight at once
  Horizon        \* bound of the clock

NoUnits == [p \in Products |-> 0]
NoBody == [p \in Products |-> <<>>]

ASSUME ConstantsAssumption ==
  /\ IsFiniteSet(Auctions) /\ IsFiniteSet(Products)
  /\ Bodies \subseteq [Products -> Seq(Nat \ {0})] /\ NoBody \in Bodies
  /\ Times \subseteq Nat \ {0}
  /\ InitialStock \in [Products -> Nat]
  /\ Ops \in [Requests -> SUBSET {"update", "edit", "confirm", "cancel",
                                   "reopen", "close", "end"}]
  /\ MaxStock \in Nat /\ MaxTasks \in Nat /\ Horizon \in Nat

(* One slot for each cron job: a run takes less than the minute between    *)
(* two runs of the same job.                                               *)
Crons == {"updateReadyAuctionsToOpen", "handleExpiredPendingAuctions",
          "handleExpiredOpenAuctions", "refundProductsForClosedAuctions"}

ASSUME RequestsAssumption == Requests \cap Crons = {}

Tasks == Requests \cup Crons

VARIABLES
  now,      \* the clock, in cron periods
  auction,  \* the rows of `auctions'
  lines,    \* the rows of `auction_products': quantities, 0 for no row
  stock,    \* products.stock_quantity
  task      \* the requests and cron runs in flight

vars == <<now, auction, lines, stock, task>>

None == "none"  \* the auction does not exist (yet)

Status == {None, "PENDING", "READY", "OPEN", "CLOSED", "CANCELED",
           "COMPLETED", "REFUND"}

(* An auction has one line for each product: the last quantity in the body.*)
LineOf(quantities) ==
  IF quantities = <<>> THEN 0 ELSE quantities[Len(quantities)]
LinesOf(body) == [p \in Products |-> LineOf(body[p])]
Baskets == {LinesOf(body) : body \in Bodies}

Repeats(body) == \E p \in Products : Len(body[p]) > 1

Unread == "unread"
NotGiven == 0  \* an optional time that the body does not have

Task ==
  [op: {"idle", "create", "update", "edit", "close", "status", "end", "refund"},
   pc: {"idle", "check", "tx"},
   todo: SUBSET Auctions,
   to: [Auctions -> Status \cup {Unread}],  \* the status to write
   old: [Auctions -> Baskets],              \* the lines that were read
   sold: SUBSET Auctions,                   \* those sold when they were read
   body: Bodies,                            \* the products that are wanted
   startsAt: Times \cup {NotGiven}, endsAt: Times \cup {NotGiven}]

Idle ==
  [op |-> "idle", pc |-> "idle", todo |-> {},
   to |-> [a \in Auctions |-> Unread], old |-> [a \in Auctions |-> NoUnits],
   sold |-> {}, body |-> NoBody, startsAt |-> NotGiven, endsAt |-> NotGiven]

TypeOK ==
  /\ now \in 0..Horizon
  /\ auction \in [Auctions -> [status: Status, startsAt: Nat, endsAt: Nat,
                               hasBids: BOOLEAN]]
  /\ lines \in [Auctions -> Baskets]
  /\ stock \in [Products -> Int]
  /\ task \in [Tasks -> Task]

Init ==
  /\ now = 0
  /\ auction = [a \in Auctions |-> [status |-> None, startsAt |-> 0,
                                    endsAt |-> 0, hasBids |-> FALSE]]
  /\ lines = [a \in Auctions |-> NoUnits]
  /\ stock = InitialStock
  /\ task = [t \in Tasks |-> Idle]

-----------------------------------------------------------------------------
(* Tasks *)

Goto(t, q) == task' = [task EXCEPT ![t] = q]

Busy(a) == \E t \in Tasks : a \in task[t].todo

Is(a, statuses) == auction[a].status \in statuses

Sold(a) == Is(a, {"COMPLETED"}) /\ auction[a].hasBids

(* Read: an idle task starts to work on the auctions of q. *)
Start(t, q) ==
  /\ task[t] = Idle
  /\ Cardinality({u \in Tasks : task[u] # Idle}) < MaxTasks
  /\ Goto(t, [q EXCEPT !.sold = {a \in q.todo : Sold(a)}])
  /\ UNCHANGED <<now, auction, lines, stock>>

(* Read: t will write status s to the auctions S. *)
WillSet(t, S, s) ==
  Start(t, [Idle EXCEPT !.op = "status", !.pc = "tx", !.todo = S,
                        !.to = [a \in Auctions |-> IF a \in S THEN s ELSE Unread]])

(* Write: one of the updates that t issues; t is done after the last one. *)
SetStatus(t, a) ==
  LET q == task[t]
      left == q.todo \ {a} IN
  /\ q.op \in {"status", "end"} /\ a \in q.todo /\ q.to[a] # Unread
  /\ auction' = [auction EXCEPT ![a].status = q.to[a]]
  /\ Goto(t, IF left = {} THEN Idle
             ELSE [q EXCEPT !.todo = left, !.to[a] = Unread, !.sold = @ \ {a}])
  /\ UNCHANGED <<now, lines, stock>>

(* Units of product p in the baskets f[a], a \in DOMAIN f. *)
Total(f, p) == TotalOf([a \in DOMAIN f |-> f[a][p]], DOMAIN f)

(* What the stock gains when a line of `old' units becomes the quantities: *)
(* each of them is compared with the same old line.                        *)
Gain(old, quantities) ==
  IF quantities = <<>> THEN old
  ELSE Len(quantities) * old - TotalOf(quantities, DOMAIN quantities)

Taken(old, body) == [p \in Products |-> stock[p] + Gain(old[p], body[p])]

(* The database refuses a number that does not fit the column. *)
Fits(units) == \A p \in Products : -MaxStock <= units[p] /\ units[p] <= MaxStock

-----------------------------------------------------------------------------
(* Sellers *)

(* There is stock for each quantity that exceeds the old line. *)
Enough(body, old) ==
  \A p \in Products : \A i \in DOMAIN body[p] :
    body[p][i] > old[p] => stock[p] >= body[p][i] - old[p]

(* createAuction: the snapshot of its transaction is checked ...           *)
ReadForCreate(r, a, body, from, until) ==
  /\ Is(a, {None}) /\ ~Busy(a)
  /\ now <= from /\ from < until
  /\ ~Repeats(body) /\ Enough(body, NoUnits)
  /\ Start(r, [Idle EXCEPT !.op = "create", !.pc = "tx", !.todo = {a},
                           !.body = body, !.startsAt = from, !.endsAt = until])

(* ... and later decremented.                                              *)
CommitCreate(r, a) ==
  LET q == task[r] IN
  /\ q.op = "create" /\ a \in q.todo
  /\ stock' = Taken(NoUnits, q.body) /\ Fits(stock')
  /\ auction' = [auction EXCEPT ![a] =
       [status |-> "PENDING", startsAt |-> q.startsAt, endsAt |-> q.endsAt,
        hasBids |-> FALSE]]
  /\ lines' = [lines EXCEPT ![a] = LinesOf(q.body)]
  /\ Goto(r, Idle)
  /\ UNCHANGED now

(* updateAuction: neither the end time is validated nor that a product is  *)
(* listed once.                                                            *)
ReadForUpdate(r, a, body, until) ==
  /\ Is(a, {"PENDING"})
  /\ Enough(body, lines[a])
  /\ Start(r, [Idle EXCEPT !.op = "update", !.pc = "tx", !.todo = {a},
                           !.old[a] = lines[a], !.body = body, !.endsAt = until])

(* Rows that were read are updated or deleted, the others created: both    *)
(* fail if that has changed, and the second creation of a row fails.       *)
RowsAsRead(q, a) ==
  \A p \in Products :
    /\ q.old[a][p] > 0 \/ q.body[p] # <<>> => (lines[a][p] > 0 <=> q.old[a][p] > 0)
    /\ Len(q.body[p]) > 1 => q.old[a][p] > 0

(* Mutant: products that the seller removed are not returned. *)
NewStock_NoReturn(q, a) ==
  [p \in Products |-> IF q.body[p] = <<>> THEN stock[p]
                      ELSE stock[p] + Gain(q.old[a][p], q.body[p])]

(* Stock is moved by the differences to the lines that were read. *)
NewStock(q, a) == Taken(q.old[a], q.body)

CommitUpdate(r, a) ==
  LET q == task[r] IN
  /\ q.op = "update" /\ a \in q.todo
  /\ RowsAsRead(q, a)
  /\ stock' = NewStock(q, a) /\ Fits(stock')
  /\ lines' = [lines EXCEPT ![a] = LinesOf(q.body)]
  /\ auction' = [auction EXCEPT ![a].endsAt = q.endsAt]
  /\ Goto(r, Idle)
  /\ UNCHANGED now

(* editAuction reads the auction and its lines before the transaction. *)
ReadForEdit(r, a, body, from, until) ==
  /\ Is(a, {"CANCELED", "PENDING"})
  /\ from # NotGiven => now <= from
  /\ from # NotGiven /\ until # NotGiven => from < until
  /\ Start(r, [Idle EXCEPT !.op = "edit", !.pc = "check", !.todo = {a},
                           !.old[a] = lines[a], !.body = body,
                           !.startsAt = from, !.endsAt = until])

(* Its transaction returns the old units, then checks the wanted ones.  A  *)
(* product that was in the auction has a locked row; another one is read.  *)
CheckEdit(r, a) ==
  LET q == task[r] IN
  /\ q.op = "edit" /\ q.pc = "check" /\ a \in q.todo
  /\ ~Repeats(q.body)
  /\ \A p \in Products : q.old[a][p] = 0 => stock[p] >= LineOf(q.body[p]) \/ q.body[p] = <<>>
  /\ Goto(r, [q EXCEPT !.pc = "tx"])
  /\ UNCHANGED <<now, auction, lines, stock>>

IfGiven(time, old) == IF time = NotGiven THEN old ELSE time

CommitEdit(r, a) ==
  LET q == task[r] IN
  /\ q.op = "edit" /\ q.pc = "tx" /\ a \in q.todo
  /\ \A p \in Products :
       q.old[a][p] > 0 => stock[p] + q.old[a][p] >= LineOf(q.body[p]) \/ q.body[p] = <<>>
  /\ stock' = NewStock(q, a) /\ Fits(stock')
  /\ lines' = [lines EXCEPT ![a] = LinesOf(q.body)]
  /\ auction' = [auction EXCEPT
       ![a].status = "PENDING",
       ![a].startsAt = IfGiven(q.startsAt, @), ![a].endsAt = IfGiven(q.endsAt, @)]
  /\ Goto(r, Idle)
  /\ UNCHANGED now

RestoreCancelledAuctionToPending(r, a) ==
  /\ Is(a, {"CANCELED"})
  /\ WillSet(r, {a}, "PENDING")

-----------------------------------------------------------------------------
(* Admins *)

ConfirmAuction(r, a) ==
  /\ Is(a, {"PENDING"})
  /\ now <= auction[a].endsAt
  /\ WillSet(r, {a}, IF now < auction[a].startsAt THEN "READY" ELSE "OPEN")

CancelAuction(r, a) ==
  /\ Is(a, {"PENDING"})
  /\ WillSet(r, {a}, "CANCELED")

ReopenAuction(r, a) ==
  /\ Is(a, {"CLOSED"})
  /\ now <= auction[a].endsAt
  /\ WillSet(r, {a}, "OPEN")

(* closeAuction; its transaction also deletes the bids. *)
ReadForClose(r, a) ==
  /\ Is(a, {"OPEN"}) /\ now < auction[a].endsAt
  /\ Start(r, [Idle EXCEPT !.op = "close", !.pc = "tx", !.todo = {a}])

CommitClose(r, a) ==
  /\ task[r].op = "close" /\ a \in task[r].todo
  /\ auction' = [auction EXCEPT ![a].status = "CLOSED", ![a].hasBids = FALSE]
  /\ Goto(r, Idle)
  /\ UNCHANGED <<now, lines, stock>>

-----------------------------------------------------------------------------
(* endAuction: the bids are read, then the status is written.              *)

(* t will end the auctions S, whatever their statuses are. *)
WillEnd(t, S) == Start(t, [Idle EXCEPT !.op = "end", !.pc = "tx", !.todo = S])

(* A client asks for it (handleEndAuction): the page does when its         *)
(* countdown is over, whatever the auction's status and time are.          *)
EndAuction(r, a) == ~Is(a, {None}) /\ WillEnd(r, {a})

ReadBids(t, a) ==
  LET q == task[t] IN
  /\ q.op = "end" /\ a \in q.todo /\ q.to[a] = Unread
  /\ Goto(t, [q EXCEPT !.to[a] = IF auction[a].hasBids THEN "COMPLETED" ELSE "CLOSED",
                       !.sold = IF Sold(a) THEN @ \cup {a} ELSE @ \ {a}])
  /\ UNCHANGED <<now, auction, lines, stock>>

-----------------------------------------------------------------------------
(* Cron jobs *)

(* Mutant: only auctions that have not ended are opened. *)
Starting_NotExpired(a) ==
  Is(a, {"READY"}) /\ auction[a].startsAt <= now /\ now < auction[a].endsAt

Starting(a) == Is(a, {"READY"}) /\ auction[a].startsAt <= now
Expired(a, statuses) == Is(a, statuses) /\ auction[a].endsAt <= now

RunJob(c, S, s) == S # {} /\ WillSet(c, S, s)

UpdateReadyAuctionsToOpen ==
  RunJob("updateReadyAuctionsToOpen", {a \in Auctions : Starting(a)}, "OPEN")

HandleExpiredPendingAuctions ==
  RunJob("handleExpiredPendingAuctions",
         {a \in Auctions : Expired(a, {"PENDING"})}, "CLOSED")

HandleExpiredOpenAuctions ==
  LET S == {a \in Auctions : Expired(a, {"OPEN"})} IN
  S # {} /\ WillEnd("handleExpiredOpenAuctions", S)

(* refundProductsForClosedAuctions: all auctions in one transaction. *)
ReadForRefund ==
  LET S == {a \in Auctions : Is(a, {"CLOSED"}) /\ auction[a].endsAt < now}
      c == "refundProductsForClosedAuctions" IN
  /\ S # {}
  /\ Start(c, [Idle EXCEPT !.op = "refund", !.pc = "tx", !.todo = S,
                           !.old = [a \in Auctions |-> IF a \in S THEN lines[a]
                                                       ELSE NoUnits]])

(* Mutants: the auctions stay CLOSED; the literal is no AuctionStatus. *)
Returned_Closed(S) == auction
Returned_Typo(S) ==
  [a \in Auctions |-> IF a \in S THEN [auction[a] EXCEPT !.status = "REFUNDED"]
                      ELSE auction[a]]

Returned(S) ==
  [a \in Auctions |-> IF a \in S THEN [auction[a] EXCEPT !.status = "REFUND"]
                      ELSE auction[a]]

CommitRefund(c) ==
  LET q == task[c] IN
  /\ q.op = "refund"
  /\ stock' = [p \in Products |->
                 stock[p] + Total([a \in q.todo |-> q.old[a]], p)]
  /\ Fits(stock')
  /\ auction' = Returned(q.todo)
  /\ Goto(c, Idle)
  /\ UNCHANGED <<now, lines>>

-----------------------------------------------------------------------------
(* Bids, failures, time *)

(* validateBid asks for the times only, not for the status. *)
PlaceBid(a) ==
  /\ ~Is(a, {None})
  /\ auction[a].startsAt <= now /\ now <= auction[a].endsAt
  /\ auction' = [auction EXCEPT ![a].hasBids = TRUE]
  /\ UNCHANGED <<now, lines, stock, task>>

(* A later check or a query fails, or the server restarts. *)
Fail(t) ==
  /\ task[t] # Idle
  /\ Goto(t, Idle)
  /\ UNCHANGED <<now, auction, lines, stock>>

Tick ==
  /\ now < Horizon
  /\ now' = now + 1
  /\ UNCHANGED <<auction, lines, stock, task>>

MaybeTimes == Times \cup {NotGiven}

Next ==
  \/ \E r \in Requests, a \in Auctions :
       \/ \E b \in Bodies, from, until \in Times : ReadForCreate(r, a, b, from, until)
       \/ "update" \in Ops[r] /\ \E b \in Bodies, until \in Times :
                                   ReadForUpdate(r, a, b, until)
       \/ "edit" \in Ops[r] /\ \E b \in Bodies, from, until \in MaybeTimes :
                                 ReadForEdit(r, a, b, from, until)
       \/ "cancel" \in Ops[r] /\ CancelAuction(r, a)
       \/ "cancel" \in Ops[r] /\ RestoreCancelledAuctionToPending(r, a)
       \/ "reopen" \in Ops[r] /\ ReopenAuction(r, a)
       \/ "end" \in Ops[r] /\ EndAuction(r, a)
       \/ "confirm" \in Ops[r] /\ ConfirmAuction(r, a)
       \/ "close" \in Ops[r] /\ ReadForClose(r, a)
       \/ CommitCreate(r, a) \/ CommitUpdate(r, a) \/ CheckEdit(r, a)
       \/ CommitEdit(r, a) \/ CommitClose(r, a)
  \/ \E t \in Tasks, a \in Auctions : ReadBids(t, a) \/ SetStatus(t, a)
  \/ UpdateReadyAuctionsToOpen \/ HandleExpiredPendingAuctions
  \/ HandleExpiredOpenAuctions \/ ReadForRefund
  \/ \E c \in Crons : CommitRefund(c)
  \/ \E t \in Tasks : Fail(t)
  \/ \E a \in Auctions : PlaceBid(a)
  \/ Tick

Spec == Init /\ [][Next]_vars

(* The clock runs, a request that hangs times out, the jobs are started    *)
(* every minute, and their queries do not fail for ever: a run that failed *)
(* is repeated by the next one.                                            *)
Fairness ==
  /\ WF_vars(Tick)
  /\ \A r \in Requests : WF_vars(Fail(r))
  /\ WF_vars(UpdateReadyAuctionsToOpen) /\ WF_vars(HandleExpiredOpenAuctions)
  /\ WF_vars(ReadForRefund) /\ SF_vars(CommitRefund("refundProductsForClosedAuctions"))
  /\ \A a \in Auctions :
       /\ SF_vars(SetStatus("updateReadyAuctionsToOpen", a))
       /\ SF_vars(ReadBids("handleExpiredOpenAuctions", a))
       /\ SF_vars(SetStatus("handleExpiredOpenAuctions", a))

FairSpec == Spec /\ Fairness

-----------------------------------------------------------------------------
(* Properties                                                              *)

(* The units that auction a has taken from the stock and not returned.     *)
Held(a) == IF Is(a, {None, "REFUND"}) THEN NoUnits ELSE lines[a]

AllUnits(p) == stock[p] + Total([a \in Auctions |-> Held(a)], p)

(* Every unit is either in stock or in one auction.                        *)
StockConserved == \A p \in Products : AllUnits(p) = InitialStock[p]

(* A product that is not in stock is not promised (createAuction and       *)
(* updateAuction refuse what the stock is insufficient for).               *)
NoOversell == \A p \in Products : stock[p] >= 0

(* The auctions that this step of t writes. *)
Written(t) == task[t].todo \ task'[t].todo

(* q returns units again, returns others than the auction has, or counts a *)
(* product twice: the three ways in which units are lost or made up.       *)
Miscounts(q, a) ==
  \/ Is(a, {"REFUND"})
  \/ q.op \in {"update", "edit", "refund"} /\ q.old[a] # lines[a]
  \/ q.op = "update" /\ Repeats(q.body)

(* q decided before the auction was sold. *)
Overrules(q, a) == Sold(a) /\ a \notin q.sold

(* However requests and jobs overlap, also on one auction: a write that    *)
(* finds the lines that it read, and an auction whose products were not    *)
(* returned, moves exactly the units between stock and auctions that the   *)
(* auctions gain or lose.                                                  *)
UnitsKept ==
  [][ (\A t \in Tasks : \A a \in Written(t) : ~Miscounts(task[t], a))
      => \A p \in Products : AllUnits(p)' = AllUnits(p) ]_vars

(* The contract of the service: units leave the stock only into a lot, come*)
(* back at most once, and what was sold stays sold.                        *)
Promise == INSTANCE Consignment WITH
  Lots <- Auctions,
  units <- [a \in Auctions |-> Held(a)],
  sold <- {a \in Auctions : Sold(a)}

(* It is kept in every step but those of a task that miscounts or that     *)
(* decided before the sale: a task that reads a sold auction, as a client  *)
(* who asks for its end again does, leaves it sold.                        *)
ImplementsConsignment ==
  /\ Promise!Init
  /\ [][ \/ \E t \in Tasks : \E a \in Written(t) :
              Miscounts(task[t], a) \/ Overrules(task[t], a)
         \/ Promise!Next ]_(Promise!cvars)

(* An auction that was confirmed or closed and whose end time is over is   *)
(* eventually sold or its products are returned: the jobs that hand it over*)
(* to one another leave no gap, also when tasks overlap on it, clients ask *)
(* for its end again and again, and runs fail.  (An edit or a cancellation *)
(* that overlaps the confirmation may still withdraw it.)                  *)
ExpiredSettled ==
  \A a \in Auctions :
    Expired(a, {"READY", "OPEN", "CLOSED"}) ~> Is(a, {"COMPLETED", "REFUND"})
=============================================================================

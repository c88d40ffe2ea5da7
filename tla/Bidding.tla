------------------------------ MODULE Bidding ------------------------------
(***************************************************************************)
(* Bidding and escrow on one auction: BidService.placeBid and              *)
(* placeHiddenBidsLast10Minutes, AuctionService.endAuction and             *)
(* closeAuction, WalletService.addFundsToWallet.                           *)
(*                                                                         *)
(* A request is a sequence of awaited queries.  Each query is one action;  *)
(* what it returned is kept in the request's record req[r] and is used     *)
(* later even if the row has changed since.  A Prisma $transaction is one  *)
(* action: it commits all of its writes, or none.  `pc' names the query    *)
(* the request issues next.                                                *)
(***************************************************************************)
EXTENDS Integers, FiniteSets, Sequences, FiniteSetsExt, SequencesExt, Counting

CONSTANTS
  Users,          \* rows of `users' that bid
  Requests,       \* requests the server works on at the same time
  Amounts,        \* bid amounts the clients send
  Deposits,       \* amounts the clients add to their wallet
  InitialBalance, \* wallet_balance of each user before the auction
  StartingPrice, MinimumBidIncrement,
  StartTime, EndTime,
  LastMinutes,    \* length of the hidden phase (ten minutes)
  Ops,            \* the operations that are used
  NoUser, NoBid,  \* SQL NULL
  MaxBids, MaxDeposits, Horizon   \* bounds: bid rows, deposits, clock

ASSUME ConstantsAssumption ==
  /\ Amounts \subseteq Nat \ {0} /\ IsFiniteSet(Amounts)
  /\ Deposits \subseteq Nat \ {0}
  /\ InitialBalance \in [Users -> Nat]
  /\ Requests # {} /\ IsFiniteSet(Requests)
  /\ StartingPrice \in Nat /\ MinimumBidIncrement \in Nat \ {0}
  /\ StartTime \in Nat /\ EndTime \in Nat /\ LastMinutes \in Nat
  /\ Ops \subseteq {"bid", "hidden", "close", "end", "deposit"}
  /\ NoUser \notin Users
  /\ MaxBids \in Nat /\ MaxDeposits \in Nat /\ Horizon \in Nat

(* A row of `bids'; its status is VALID from creation to deletion. *)
Bid == [id: Nat \ {0}, user: Users, amount: Amounts, hidden: BOOLEAN, at: Nat]

ASSUME NoBidAssumption == NoBid \notin Bid

VARIABLES
  now,      \* the clock, in seconds: created_at is TIMESTAMP(0), ties happen
  auction,  \* the row of `auctions'
  bids,     \* the rows of `bids' of the auction
  nextId,   \* the id of the next bid row
  balance,  \* users.wallet_balance
  ledger,   \* the rows of `wallet_transactions', oldest first
  req       \* the requests in flight

vars == <<now, auction, bids, nextId, balance, ledger, req>>

Null == 0   \* a NULL wallet_transactions.bid_id

Row == [type: {"DEPOSIT", "BID_PAYMENT", "BID_REFUND"}, user: Users,
        amount: Nat, bid: Nat, balanceAfter: Int]

Request ==
  [op: {"none", "bid", "hidden", "close", "end", "deposit"},
   pc: {"idle", "previous", "hiddenCount", "lastBid", "user", "tx"},
   user: Users \cup {NoUser}, \* the authenticated caller
   amounts: SUBSET (Amounts \cup Deposits), \* the amounts in the body
   price: Nat,                \* auction.currentPrice when it was read
   last: Bid \cup {NoBid},    \* the bid row the request read
   funds: Int]                \* user.walletBalance when it was read

Idle == [op |-> "none", pc |-> "idle", user |-> NoUser, amounts |-> {},
         price |-> 0, last |-> NoBid, funds |-> 0]

TypeOK ==
  /\ now \in 0..Horizon
  /\ auction \in [status: {"OPEN", "CLOSED", "COMPLETED"}, currentPrice: Nat,
                  bidCount: Nat, winner: Users \cup {NoUser}]
  /\ bids \subseteq Bid /\ IsFiniteSet(bids)
  /\ nextId \in Nat \ {0}
  /\ balance \in [Users -> Int]
  /\ ledger \in Seq(Row)
  /\ req \in [Requests -> Request]

(* The auction as it was created, confirmed by an admin and opened. *)
Init ==
  /\ now = 0
  /\ auction = [status |-> "OPEN", currentPrice |-> StartingPrice,
                bidCount |-> 0, winner |-> NoUser]
  /\ bids = {} /\ nextId = 1
  /\ balance = InitialBalance
  /\ ledger = <<>>
  /\ req = [r \in Requests |-> Idle]

-----------------------------------------------------------------------------
(* Queries *)

IsLast10Minutes == EndTime - now <= LastMinutes

Public == {b \in bids : ~b.hidden}

HiddenOf(u) == {b \in bids : b.hidden /\ b.user = u}

(* findFirst(orderBy: createdAt desc): any of the rows of the last second. *)
Newest(S) == {b \in S : \A c \in S : c.at <= b.at}
NewestOrNull(S) == IF S = {} THEN {NoBid} ELSE Newest(S)

(* The bid's walletTransaction: the row whose unique bid_id is this bid. *)
Refunded(b) == \E i \in 1..Len(ledger) : ledger[i].bid = b.id

(* The insert of a refund row is accepted: bid_id exists (foreign key) and *)
(* is in no other row (unique index).                                      *)
Refundable(b) == (\E c \in bids : c.id = b.id) /\ ~Refunded(b)

Credit(bal, u, amount) == [bal EXCEPT ![u] = @ + amount]

Step(r, pc) == [req[r] EXCEPT !.pc = pc]
Goto(r, q) == req' = [req EXCEPT ![r] = q]

Row1(type, u, amount, bid, after) ==
  <<[type |-> type, user |-> u, amount |-> amount, bid |-> bid,
     balanceAfter |-> after]>>

-----------------------------------------------------------------------------
(* validateBid *)

Started == StartTime <= now /\ now <= EndTime

(* placeBid outside of the last ten minutes: the auction row is read. *)
ValidateBid(r, u, a) ==
  /\ req[r] = Idle
  /\ Started /\ ~IsLast10Minutes
  /\ Goto(r, [Idle EXCEPT !.op = "bid", !.pc = "lastBid", !.user = u,
                          !.amounts = {a}, !.price = auction.currentPrice])
  /\ UNCHANGED <<now, auction, bids, nextId, balance, ledger>>

(* A hidden submission of one to three distinct amounts. *)
ValidateHidden(r, u, A) ==
  /\ req[r] = Idle
  /\ Started /\ IsLast10Minutes
  /\ A # {} /\ Cardinality(A) <= 3
  /\ Goto(r, [Idle EXCEPT !.op = "hidden", !.pc = "previous", !.user = u,
                          !.amounts = A, !.price = auction.currentPrice])
  /\ UNCHANGED <<now, auction, bids, nextId, balance, ledger>>

ReadPrevious(r) ==
  /\ req[r].pc = "previous"
  /\ \E b \in bids : b.user = req[r].user
  /\ Goto(r, Step(r, "hiddenCount"))
  /\ UNCHANGED <<now, auction, bids, nextId, balance, ledger>>

(* Mutant: off by one. *)
NoHiddenYet_OffByOne(u) == Cardinality(HiddenOf(u)) <= 1

NoHiddenYet(u) == HiddenOf(u) = {}

ReadHiddenCount(r) ==
  /\ req[r].pc = "hiddenCount"
  /\ NoHiddenYet(req[r].user)
  /\ Goto(r, Step(r, "lastBid"))
  /\ UNCHANGED <<now, auction, bids, nextId, balance, ledger>>

-----------------------------------------------------------------------------
(* placeBid *)

OnStep(a, price) == (a - price) % MinimumBidIncrement = 0

(* The newest bid, hidden ones included; the price is the one read before. *)
ReadLastBid(r) ==
  /\ req[r].pc = "lastBid" /\ req[r].op = "bid"
  /\ \E last \in NewestOrNull(bids) :
       /\ last # NoBid => last.user # req[r].user
       /\ \A a \in req[r].amounts :
            /\ a >= req[r].price + MinimumBidIncrement
            /\ OnStep(a, req[r].price)
       /\ Goto(r, [Step(r, "user") EXCEPT !.last = last])
  /\ UNCHANGED <<now, auction, bids, nextId, balance, ledger>>

(* Mutant: the balance is not checked. *)
CanAfford_Unchecked(q) == q = q

(* The balance check, shared by public and hidden bids: each amount alone. *)
CanAfford(q) == \A a \in q.amounts : balance[q.user] >= a

(* A banned user is refused here too: his request then ends in Fail.       *)
ReadUser(r) ==
  LET q == req[r] IN
  /\ q.pc = "user"
  /\ CanAfford(q)
  /\ Goto(r, [Step(r, "tx") EXCEPT !.funds = balance[q.user]])
  /\ UNCHANGED <<now, auction, bids, nextId, balance, ledger>>

(* Mutant: the refund is booked for the new bidder. *)
RefundRow_WrongUser(q) ==
  IF q.last = NoBid THEN <<>>
  ELSE Row1("BID_REFUND", q.user, q.last.amount, q.last.id, q.funds)

RefundRow(q) ==
  IF q.last = NoBid THEN <<>>
  ELSE Row1("BID_REFUND", q.last.user, q.last.amount, q.last.id,
            q.funds + q.last.amount)

(* Mutant: the refund is written from the balance that was read. *)
AfterRefund_Stale(q) ==
  IF q.last = NoBid THEN balance
  ELSE [balance EXCEPT ![q.last.user] = q.funds + q.last.amount]

AfterRefund(q) ==
  IF q.last = NoBid THEN balance
  ELSE Credit(balance, q.last.user, q.last.amount)

(* Mutant: no unique index on bid_id and no foreign key. *)
RefundAccepted_NoIndex(q) == q = q

RefundAccepted(q) == q.last # NoBid => Refundable(q.last)

CommitBid(r) ==
  LET q == req[r] IN
  /\ q.pc = "tx" /\ q.op = "bid"
  /\ RefundAccepted(q)
  /\ nextId <= MaxBids
  /\ \E a \in q.amounts :
       /\ balance' = Credit(AfterRefund(q), q.user, -a)
       /\ bids' = bids \cup {[id |-> nextId, user |-> q.user, amount |-> a,
                              hidden |-> FALSE, at |-> now]}
       /\ auction' = [auction EXCEPT !.currentPrice = a, !.bidCount = @ + 1]
       /\ ledger' = ledger \o RefundRow(q)
                           \o Row1("BID_PAYMENT", q.user, a, Null, q.funds - a)
  /\ nextId' = nextId + 1
  /\ Goto(r, Idle)
  /\ UNCHANGED now

-----------------------------------------------------------------------------
(* placeHiddenBidsLast10Minutes *)

ReadLastPublicBid(r) ==
  LET q == req[r] IN
  /\ q.pc = "lastBid" /\ q.op = "hidden"
  /\ \E last \in NewestOrNull(Public) :
       LET base == IF last = NoBid THEN q.price ELSE last.amount IN
       \A a \in q.amounts :
         a >= base + MinimumBidIncrement /\ OnStep(a, q.price)
  /\ Goto(r, Step(r, "user"))
  /\ UNCHANGED <<now, auction, bids, nextId, balance, ledger>>

(* Mutant: the smallest is deducted. *)
Charge_Smallest(amounts) == Min(amounts)

(* Only the largest amount of a hidden submission is deducted. *)
Charge(amounts) == Max(amounts)

(* Mutant: isHidden is forgotten. *)
HiddenRows_Public(q) ==
  {[id |-> nextId + Cardinality({b \in q.amounts : b < a}), user |-> q.user,
    amount |-> a, hidden |-> FALSE, at |-> now] : a \in q.amounts}

HiddenRows(q) ==
  {[id |-> nextId + Cardinality({b \in q.amounts : b < a}), user |-> q.user,
    amount |-> a, hidden |-> TRUE, at |-> now] : a \in q.amounts}

CommitHidden(r) ==
  LET q == req[r]
      paid == Charge(q.amounts) IN
  /\ q.pc = "tx" /\ q.op = "hidden"
  /\ nextId + Cardinality(q.amounts) <= MaxBids + 1
  /\ balance' = Credit(balance, q.user, -paid)
  /\ ledger' = ledger \o Row1("BID_PAYMENT", q.user, paid, Null, q.funds - paid)
  /\ bids' = bids \cup HiddenRows(q)
  /\ nextId' = nextId + Cardinality(q.amounts)
  /\ Goto(r, Idle)
  /\ UNCHANGED <<now, auction>>

-----------------------------------------------------------------------------
(* closeAuction, by an admin *)

(* The auction with its bids, their refund rows and their users is read.   *)
(* Only a newest public bid that already has a refund row will be paid.    *)
ReadForClose(r) ==
  /\ req[r] = Idle
  /\ auction.status = "OPEN" /\ now < EndTime
  /\ \E last \in NewestOrNull(Public) :
       LET paid == last # NoBid /\ Refunded(last) IN
       Goto(r, [Idle EXCEPT !.op = "close", !.pc = "tx",
                  !.last = IF paid THEN last ELSE NoBid,
                  !.funds = IF paid THEN balance[last.user] ELSE 0])
  /\ UNCHANGED <<now, auction, bids, nextId, balance, ledger>>

(* Mutant: the rows keep a reference that is no id. *)
SetNull_NoId(rows) == [i \in 1..Len(rows) |-> [rows[i] EXCEPT !.bid = NoBid]]

(* bid_id of the rows of deleted bids becomes NULL (ON DELETE SET NULL). *)
SetNull(rows) == [i \in 1..Len(rows) |-> [rows[i] EXCEPT !.bid = Null]]

CommitClose(r) ==
  LET q == req[r] IN
  /\ q.pc = "tx" /\ q.op = "close"
  /\ RefundAccepted(q)
  /\ auction' = [auction EXCEPT !.status = "CLOSED", !.bidCount = 0,
                                !.currentPrice = StartingPrice]
  /\ balance' = IF q.last = NoBid THEN balance
                ELSE [balance EXCEPT ![q.last.user] = q.funds + q.last.amount]
  /\ bids' = {}
  /\ ledger' = SetNull(ledger \o RefundRow(q))
  /\ Goto(r, Idle)
  /\ UNCHANGED <<now, nextId>>

-----------------------------------------------------------------------------
(* endAuction *)


(* orderBy amount desc, createdAt asc; equal rows come in any order. *)
NotAfter(b, c) == b.amount > c.amount \/ (b.amount = c.amount /\ b.at <= c.at)

SortedBids(S) ==
  LET orders[T \in SUBSET S] ==
        IF T = {} THEN {<<>>}
        ELSE UNION {{<<b>> \o s : s \in orders[T \ {b}]} :
                    b \in {c \in T : \A d \in T : NotAfter(c, d)}}
  IN orders[S]

(* Mutant: the amounts are compared by value, as the source reads. *)
Breaks_ByValue(b, winner) == b.user # winner.user /\ b.amount # winner.amount

(* The winner loop breaks here: `bidAmount !== bidAmount' compares two     *)
(* Decimal objects, which are never the same.                              *)
Breaks(b, winner) == b.user # winner.user

(* The loop over the sorted bids: a later bid of the winner replaces his. *)
WinnerBid(s) ==
  LET walk[i \in 1..Len(s)] ==
        IF i = 1 THEN [bid |-> s[1], broke |-> FALSE]
        ELSE LET w == walk[i-1] IN
             IF w.broke \/ Breaks(s[i], w.bid) THEN [w EXCEPT !.broke = TRUE]
             ELSE IF s[i].user = w.bid.user THEN [w EXCEPT !.bid = s[i]] ELSE w
  IN walk[Len(s)].bid

(* Any client may ask for it at any time (handleEndAuction), and the cron. *)
ReadForEnd(r) ==
  /\ req[r] = Idle
  /\ \E s \in SortedBids(bids) :
       \E last \in IF bids = {} THEN {NoBid} ELSE {b \in bids : b = WinnerBid(s)} :
         Goto(r, [Idle EXCEPT !.op = "end", !.pc = "tx", !.last = last])
  /\ UNCHANGED <<now, auction, bids, nextId, balance, ledger>>

CommitEnd(r) ==
  LET q == req[r] IN
  /\ q.pc = "tx" /\ q.op = "end"
  /\ auction' = IF q.last = NoBid THEN [auction EXCEPT !.status = "CLOSED"]
                ELSE [auction EXCEPT !.status = "COMPLETED",
                                     !.winner = q.last.user]
  /\ Goto(r, Idle)
  /\ UNCHANGED <<now, bids, nextId, balance, ledger>>

-----------------------------------------------------------------------------
(* addFundsToWallet, failures, time *)

DepositCount == Cardinality({i \in 1..Len(ledger) : ledger[i].type = "DEPOSIT"})

ReadForDeposit(r, u, d) ==
  /\ req[r] = Idle
  /\ Goto(r, [Idle EXCEPT !.op = "deposit", !.pc = "tx", !.user = u,
                          !.amounts = {d}])
  /\ UNCHANGED <<now, auction, bids, nextId, balance, ledger>>

CommitDeposit(r) ==
  LET q == req[r] IN
  /\ q.pc = "tx" /\ q.op = "deposit"
  /\ DepositCount < MaxDeposits
  /\ \E d \in q.amounts :
       /\ balance' = Credit(balance, q.user, d)
       /\ ledger' = ledger \o Row1("DEPOSIT", q.user, d, Null, balance[q.user] + d)
  /\ Goto(r, Idle)
  /\ UNCHANGED <<now, auction, bids, nextId>>

(* A check fails, the transaction is rolled back, or the server restarts. *)
Fail(r) ==
  /\ req[r] # Idle
  /\ Goto(r, Idle)
  /\ UNCHANGED <<now, auction, bids, nextId, balance, ledger>>

Tick ==
  /\ now < Horizon
  /\ now' = now + 1
  /\ UNCHANGED <<auction, bids, nextId, balance, ledger, req>>

Next ==
  \/ \E r \in Requests, u \in Users :
       \/ "bid" \in Ops /\ \E a \in Amounts : ValidateBid(r, u, a)
       \/ "hidden" \in Ops /\ \E A \in SUBSET Amounts : ValidateHidden(r, u, A)
       \/ "deposit" \in Ops /\ \E d \in Deposits : ReadForDeposit(r, u, d)
  \/ \E r \in Requests :
       \/ ReadPrevious(r) \/ ReadHiddenCount(r)
       \/ ReadLastBid(r) \/ ReadLastPublicBid(r) \/ ReadUser(r)
       \/ CommitBid(r) \/ CommitHidden(r)
       \/ "close" \in Ops /\ ReadForClose(r)
       \/ "end" \in Ops /\ ReadForEnd(r)
       \/ CommitClose(r) \/ CommitEnd(r)
       \/ CommitDeposit(r) \/ Fail(r)
  \/ Tick

Spec == Init /\ [][Next]_vars

-----------------------------------------------------------------------------
(* Properties.  Requests overlap freely, those of one user too; the two    *)
(* that are checked with a single request slot say so.                     *)

(* A refund row still tied to a bid is of that bid's owner and amount, and *)
(* only refund rows are tied to bids (placeBid takes them from a bid row   *)
(* read before the transaction, and closeAuction deletes bids meanwhile).  *)
RefundMatchesBid ==
  \A i \in 1..Len(ledger), b \in bids :
    ledger[i].bid = b.id =>
      /\ ledger[i].type = "BID_REFUND"
      /\ ledger[i].user = b.user /\ ledger[i].amount = b.amount

(* auctions.bid_count, an incremented column, is what countBidsByAuction   *)
(* counts, in spite of hidden bids, concurrent bids and manual closing.    *)
BidCountExact == auction.bidCount = Cardinality(Public)

RowsOf(u, types) ==
  {i \in 1..Len(ledger) : ledger[i].user = u /\ ledger[i].type \in types}
Total(u, types) ==
  TotalOf([i \in 1..Len(ledger) |-> ledger[i].amount], RowsOf(u, types))

(* Every change of a wallet is in its transactions, with the right sign:   *)
(* no update is lost between requests that read the balance before.        *)
BalanceMatchesLedger ==
  \A u \in Users :
    balance[u] = InitialBalance[u] + Total(u, {"DEPOSIT", "BID_REFUND"})
                                   - Total(u, {"BID_PAYMENT"})

(* closeAuction never moves money: a newest bid without refund row is not  *)
(* refunded, and one with such a row makes the transaction fail.           *)
ManualCloseNeverPays ==
  [][\A r \in Requests : CommitClose(r) => balance' = balance]_vars

Unrefunded == {b \in bids : ~Refunded(b)}

(* A bid that saw a previous bid releases exactly that bid: of the bids    *)
(* that race to replace the same one, one commits.                         *)
OneInOneOut ==
  [][\A r \in Requests :
       LET last == req[r].last IN
       CommitBid(r) /\ last # NoBid =>
         /\ last \in Unrefunded
         /\ Unrefunded' = (Unrefunded \ {last}) \cup (bids' \ bids)]_vars

(* A wallet is overdrawn only by calls that overlap: of the bids of a user *)
(* that are under way together each was affordable alone, so all but one   *)
(* of them bound the debt.  With one call at a time there is none.         *)
OverdraftBounded ==
  LET others == Cardinality(Requests) - 1
      most == Max({0} \cup Amounts) IN
  \A u \in Users : balance[u] >= -(others * most)

(* Hidden bids are submitted once (bid.service.ts:353): a user has more    *)
(* than one submission only from calls that passed the count together, at  *)
(* most one submission for each.                                           *)
HiddenBounded ==
  \A u \in Users : Cardinality(HiddenOf(u)) <= 3 * Cardinality(Requests)

(* The winner of an ended auction has paid at least the final price once,  *)
(* even when the bids were deleted since they were read.                   *)
WinnerHasPaid ==
  [][\A r \in Requests :
       CommitEnd(r) /\ req[r].last # NoBid =>
         \E i \in RowsOf(req[r].last.user, {"BID_PAYMENT"}) :
           ledger[i].amount >= req[r].last.amount]_vars

(* The loop of endAuction finds the cheapest bid of the winner that beats  *)
(* every rival: no rival is above it, and none of the winner's own cheaper *)
(* bids is above all rivals.                                               *)
WinnerCorrect ==
  bids # {} => \A s \in SortedBids(bids) :
    LET w == WinnerBid(s)
        Rivals == {b \in bids : b.user # w.user} IN
    /\ \A b \in Rivals : b.amount <= w.amount
    /\ \A b \in bids \ Rivals :
         b.amount < w.amount => \E c \in Rivals : c.amount >= b.amount

(* What u has paid into this auction and not got back. *)
Net(u) == Total(u, {"BID_PAYMENT"}) - Total(u, {"BID_REFUND"})

(* What the auction may hold of u: his bid when it is the last public one, *)
(* and the largest of his hidden bids.                                     *)
LastPublic == {b \in Public : \A c \in Public : c.id <= b.id}
Largest(S) == Max({0} \cup {b.amount : b \in S})
Due(u) == Largest({b \in LastPublic : b.user = u}) + Largest(HiddenOf(u))

(* The bid that was read as the last one is still it. *)
ReplacesLast(q) == IF q.last = NoBid THEN Public = {} ELSE q.last \in LastPublic

(* The money held of a user and the money due stay the same distance apart *)
(* except when closeAuction deletes the bids, when a public bid replaces   *)
(* one that is no longer the last, and when hidden bids are submitted      *)
(* again: no other step, in whatever order calls overlap, keeps money that *)
(* no bid stands for or frees money that one does.                         *)
MoneyFollowsBids ==
  [][<<bids, ledger>>' # <<bids, ledger>> =>
       \/ \A u \in Users : Net(u)' - Due(u)' = Net(u) - Due(u)
       \/ \E r \in Requests :
            \/ CommitClose(r)
            \/ CommitBid(r) /\ ~ReplacesLast(req[r])
            \/ CommitHidden(r) /\ HiddenOf(req[r].user) # {}]_vars



-----------------------------------------------------------------------------
(* What the repository says and the code does not do.                      *)

(* auction.service.ts:556: closing refunds the last public bid if any.     *)
CloseRefundsLastBid ==
  [][\A r \in Requests : CommitClose(r) /\ Public # {} =>
       \E b \in Newest(Public) :
         balance' = Credit(balance, b.user, b.amount)]_vars

=============================================================================

---------------------------- MODULE AuctionPage ----------------------------
(***************************************************************************)
(* The page of one auction (AuctionDetail) and the gateway that feeds it:  *)
(* the current price as a client sees it.                                  *)
(*                                                                         *)
(* The page learns the price in three ways: by loading the auction, from   *)
(* the history it gets when its socket joins the auction's room, and from  *)
(* the bids broadcast to the room.  The last two come in order over the    *)
(* socket, the first at any time.  A lost connection takes with it what is *)
(* under way; socket.io connects again and the page joins again.  Pages do *)
(* not influence one another: one is enough.                               *)
(*                                                                         *)
(* A bid is compared with the price its request has read when it began, so *)
(* one that comes late may be lower than the last and take the price down. *)
(* Which of the bids that race on one last bid commit is the matter of     *)
(* Bidding: here any may.  0 is the starting price or no price yet.        *)
(* Closing, which deletes the bids, is left out.                           *)
(***************************************************************************)
EXTENDS Naturals, Sequences

CONSTANTS
  Placers,      \* requests to place a bid
  MaxAmount     \* bound: amounts of public bids

ASSUME PageAssumption == MaxAmount \in Nat

VARIABLES
  accepted,    \* the highest committed public bid
  current,     \* current_price of the auction's row
  placing,     \* the requests, from the price read to the broadcast
  announced,   \* history: the highest bid that was broadcast
  page

pageVars == <<accepted, current, placing, announced, page>>

Amounts0 == 0 .. MaxAmount

(* amount: the price read, then the bid. *)
Placing == [step: {"new", "validated", "committed", "done"}, amount: Amounts0]

At(step, amount) == [step |-> step, amount |-> amount]

PageMessage == [event: {"bid_history", "bid_accepted"}, amount: Amounts0]

Page ==
  [socket: {"down", "asked", "outside", "member", "read", "uninformed", "live"},
   history: Amounts0,            \* what its join handler has read
   load: {"none", "asked", "read"},
   answer: Amounts0,             \* what its HTTP request has read
   inbox: Seq(PageMessage),
   price: Amounts0,              \* the price it shows
   back: BOOLEAN]                \* history: on this connection an older price
                                 \* replaced a newer one

PageTypeOK ==
  /\ accepted \in Amounts0
  /\ current \in 0 .. accepted
  /\ placing \in [Placers -> Placing]
  /\ announced \in 0 .. accepted
  /\ page \in Page

(* Opening the page loads the auction and connects. *)
PageInit ==
  /\ accepted = 0
  /\ current = 0
  /\ placing = [r \in Placers |-> At("new", 0)]
  /\ announced = 0
  /\ page = [socket |-> "down", history |-> 0, load |-> "asked", answer |-> 0,
             inbox |-> <<>>, price |-> 0, back |-> FALSE]

-----------------------------------------------------------------------------
(* Mutant: the room is joined after the history was read and sent. *)
Joined_AfterHistory == page.socket = "live"

(* The socket has joined the auction's room. *)
Joined == page.socket \in {"member", "read", "uninformed", "live"}

Turns(socket) ==
  /\ page' = [page EXCEPT !.socket = socket]
  /\ UNCHANGED <<accepted, current, placing, announced>>

Send(event, amount) ==
  page' = [page EXCEPT !.inbox = Append(@, [event |-> event, amount |-> amount])]

(* setAuction with a new currentPrice. *)
Shows(p, price) == [p EXCEPT !.price = price, !.back = @ \/ price < p.price]

-----------------------------------------------------------------------------
(* placeBid, and handlePlaceBid around it *)

(* validateBid reads the auction and with it the price. *)
ValidateBid(r) ==
  /\ placing[r].step = "new"
  /\ placing' = [placing EXCEPT ![r] = At("validated", current)]
  /\ UNCHANGED <<accepted, current, announced, page>>

(* The bid is above the price that was read; it becomes the price. *)
AcceptBid(r, amount) ==
  /\ placing[r].step = "validated" /\ amount > placing[r].amount
  /\ accepted' = IF amount > accepted THEN amount ELSE accepted
  /\ current' = amount
  /\ placing' = [placing EXCEPT ![r] = At("committed", amount)]
  /\ UNCHANGED <<announced, page>>

(* Then the count, the users of the room and the broadcast. *)
BroadcastBid(r) ==
  /\ placing[r].step = "committed"
  /\ placing' = [placing EXCEPT ![r] = At("done", 0)]
  /\ announced' = IF placing[r].amount > announced THEN placing[r].amount ELSE announced
  /\ IF Joined THEN Send("bid_accepted", placing[r].amount) ELSE UNCHANGED page
  /\ UNCHANGED <<accepted, current>>

(* The bid is refused or rolled back; or the count fails, or the bid came  *)
(* over HTTP, and nobody is told.                                          *)
FailBid(r) ==
  /\ placing[r].step \in {"validated", "committed"}
  /\ placing' = [placing EXCEPT ![r] = At("done", 0)]
  /\ UNCHANGED <<accepted, current, announced, page>>

-----------------------------------------------------------------------------
(* handleConnection, which the page answers with join_auction *)
Connect == page.socket = "down" /\ Turns("asked")

(* handleJoinAuction: first into the room, then the bids. *)
JoinAuction == page.socket = "asked" /\ Turns("member")

ReadHistory ==
  /\ page.socket = "member"
  /\ page' = [page EXCEPT !.socket = "read", !.history = accepted]
  /\ UNCHANGED <<accepted, current, placing, announced>>

SendHistory ==
  /\ page.socket = "read"
  /\ page' = [page EXCEPT !.socket = "live",
       !.inbox = Append(@, [event |-> "bid_history", amount |-> page.history])]
  /\ UNCHANGED <<accepted, current, placing, announced>>

(* A query fails; the socket stays, in the room or not. *)
FailJoin ==
  \/ page.socket = "asked" /\ Turns("outside")
  \/ page.socket = "member" /\ Turns("uninformed")

LoseConnection ==
  /\ page.socket # "down"
  /\ page' = [page EXCEPT !.socket = "down", !.inbox = <<>>, !.back = FALSE]
  /\ UNCHANGED <<accepted, current, placing, announced>>

-----------------------------------------------------------------------------
(* The page's handlers of bid_history and bid_accepted.  An empty history  *)
(* leaves the price.                                                       *)
Receive ==
  /\ page.inbox # <<>>
  /\ LET m == Head(page.inbox)
         rest == [page EXCEPT !.inbox = Tail(@)] IN
     page' = IF m.amount = 0 THEN rest ELSE Shows(rest, m.amount)
  /\ UNCHANGED <<accepted, current, placing, announced>>

(* getAuctionById, when the page opens and again when its clock runs out *)

LoadAuction ==
  /\ page.load = "none"
  /\ page' = [page EXCEPT !.load = "asked"]
  /\ UNCHANGED <<accepted, current, placing, announced>>

ReadAuctionRow ==
  /\ page.load = "asked"
  /\ page' = [page EXCEPT !.load = "read", !.answer = current]
  /\ UNCHANGED <<accepted, current, placing, announced>>

(* The answer replaces whatever the socket has brought meanwhile. *)
ShowAuction ==
  /\ page.load = "read"
  /\ page' = Shows([page EXCEPT !.load = "none"], page.answer)
  /\ UNCHANGED <<accepted, current, placing, announced>>

FailLoad ==
  /\ page.load # "none"
  /\ page' = [page EXCEPT !.load = "none"]
  /\ UNCHANGED <<accepted, current, placing, announced>>

PageNext ==
  \/ Connect \/ JoinAuction \/ ReadHistory \/ SendHistory \/ FailJoin
  \/ LoseConnection \/ Receive
  \/ LoadAuction \/ ReadAuctionRow \/ ShowAuction \/ FailLoad
  \/ \E r \in Placers :
       \/ ValidateBid(r) \/ BroadcastBid(r) \/ FailBid(r)
       \/ \E amount \in 1 .. MaxAmount : AcceptBid(r, amount)

PageSpec == PageInit /\ [][PageNext]_pageVars

-----------------------------------------------------------------------------
Quiet == page.socket = "live" /\ page.inbox = <<>> /\ page.load = "none"

(* A connected page with nothing under way shows the highest bid that was  *)
(* announced or a newer one, whatever was announced before it joined,      *)
(* while it joined and while it was away; unless on this connection an     *)
(* answer or a broadcast that was overtaken put an older price in place of *)
(* a newer one.                                                            *)
QuietPageIsCurrent == Quiet /\ ~page.back => page.price >= announced

=============================================================================

--------------------------- MODULE ServicesProofs ---------------------------
(***************************************************************************)
(* The auction page, the notices, and the five services side by side.      *)
(***************************************************************************)
EXTENDS MCServices, ModerationProofs, ChatProofs, Integers, SequenceTheorems

(***************************************************************************)
(* A page at rest shows the highest bid that was announced, for any number *)
(* of bids and of handlers that place them.                                *)
(***************************************************************************)

(* The page shows x or more, or is going to when it reads its messages. *)
Knows(x) ==
  \/ page.price >= x
  \/ \E i \in 1..Len(page.inbox) : page.inbox[i].amount >= x

(* A page that has been sent the history knows what was announced; one     *)
(* whose history was read and not sent knows it or is going to be told.    *)
Informed ==
  ~page.back =>
    /\ page.socket = "live" => Knows(announced)
    /\ page.socket = "read" => Knows(announced) \/ page.history >= announced

PageInv ==
  /\ PageTypeOK
  /\ \A r \in Placers : placing[r].amount <= accepted
  /\ Informed

-----------------------------------------------------------------------------
(* Operators. *)

LEMMA PageFields ==
  ASSUME PageTypeOK
  PROVE  /\ page \in Page /\ page.inbox \in Seq(PageMessage) /\ Len(page.inbox) \in Nat
         /\ page.price \in Nat /\ page.history \in Nat /\ page.answer \in Nat
         /\ page.history \in Amounts0 /\ page.answer \in Amounts0
         /\ page.back \in BOOLEAN
         /\ accepted \in Nat /\ accepted <= MaxAmount /\ announced \in Nat
         /\ announced <= accepted
         /\ current \in Nat /\ current <= accepted /\ current \in Amounts0
         /\ \A i \in 1..Len(page.inbox) : page.inbox[i].amount \in Nat
<1>1. page \in Page /\ page.inbox \in Seq(PageMessage) BY DEF PageTypeOK, Page
<1>2. Len(page.inbox) \in Nat /\ \A i \in 1..Len(page.inbox) : page.inbox[i] \in PageMessage
  BY <1>1, LenProperties, ElementOfSeq
<1> QED BY <1>1, <1>2, PageAssumption DEF PageTypeOK, Page, PageMessage, Amounts0

(* A new message makes its amount known and keeps what was. *)
LEMMA SendKnows ==
  ASSUME PageTypeOK, NEW m \in PageMessage, NEW x \in Nat,
         page'.inbox = Append(page.inbox, m), page'.price = page.price,
         Knows(x) \/ m.amount >= x
  PROVE  page'.inbox \in Seq(PageMessage) /\ Knows(x)'
<1>1. page.inbox \in Seq(PageMessage) BY PageFields
<1>2. /\ page'.inbox \in Seq(PageMessage)
      /\ Len(page'.inbox) = Len(page.inbox) + 1
      /\ \A i \in 1..Len(page.inbox) : page'.inbox[i] = page.inbox[i]
      /\ page'.inbox[Len(page.inbox) + 1] = m
  BY <1>1, AppendProperties
<1>3. Len(page.inbox) \in Nat BY PageFields
<1>4. CASE Knows(x) BY <1>2, <1>3, <1>4 DEF Knows
<1>5. CASE m.amount >= x BY <1>2, <1>3, <1>5 DEF Knows
<1> QED BY <1>2, <1>4, <1>5

(* Reading a message that does not put the price back loses nothing. *)
LEMMA ReceiveKnows ==
  ASSUME PageTypeOK, page.inbox # <<>>, NEW x \in Nat, Knows(x),
         page'.inbox = Tail(page.inbox),
         page'.price \in Nat, page'.price >= page.price,
         page'.price >= Head(page.inbox).amount
  PROVE  Knows(x)'
<1>1. page.inbox \in Seq(PageMessage) /\ Len(page.inbox) \in Nat BY PageFields
<1>2. /\ Head(page.inbox) = page.inbox[1]
      /\ Len(page'.inbox) = Len(page.inbox) - 1
      /\ \A i \in 1..Len(Tail(page.inbox)) : Tail(page.inbox)[i] = page.inbox[i+1]
  BY <1>1, HeadTailProperties
<1>3. CASE page.price >= x BY <1>3, PageFields DEF Knows
<1>4. CASE \E i \in 1..Len(page.inbox) : page.inbox[i].amount >= x
  <2>1. PICK i \in 1..Len(page.inbox) : page.inbox[i].amount >= x BY <1>4
  <2>2. CASE i = 1 BY <1>1, <1>2, <2>1, <2>2, PageFields DEF Knows
  <2>3. CASE i # 1
    <3>1. i - 1 \in 1..Len(page'.inbox) BY <1>1, <1>2, <2>3
    <3>2. page'.inbox[i - 1] = page.inbox[i] BY <1>1, <1>2, <3>1
    <3> QED BY <2>1, <3>1, <3>2 DEF Knows
  <2> QED BY <2>2, <2>3
<1> QED BY <1>3, <1>4 DEF Knows

-----------------------------------------------------------------------------
(* The steps. *)

LEMMA PageInitInv == PageInit => PageInv
<1> SUFFICES ASSUME PageInit PROVE PageInv OBVIOUS
<1>1. 0 \in Amounts0 BY PageAssumption DEF Amounts0
<1>2. page \in Page BY <1>1, EmptySeq DEF PageInit, Page
<1>3. At("new", 0) \in Placing /\ At("new", 0).amount = 0 BY <1>1 DEF At, Placing
<1>4. PageTypeOK BY <1>1, <1>2, <1>3 DEF PageInit, PageTypeOK
<1>5. Informed BY DEF PageInit, Informed
<1>6. \A r \in Placers : placing[r].amount <= accepted BY <1>3 DEF PageInit
<1> QED BY <1>4, <1>5, <1>6 DEF PageInv

(* A request to place a bid moves on; its amount is that of a bid or of    *)
(* the price.                                                              *)
LEMMA PlacingGoesOn ==
  ASSUME PageTypeOK, \A q \in Placers : placing[q].amount <= accepted,
         NEW r \in Placers, NEW p \in Placing, p.amount <= accepted',
         placing' = [placing EXCEPT ![r] = p],
         accepted' \in Amounts0, accepted <= accepted'
  PROVE  /\ placing' \in [Placers -> Placing]
         /\ \A q \in Placers : placing'[q].amount <= accepted'
<1>1. placing \in [Placers -> Placing] BY DEF PageTypeOK
<1>2. placing' \in [Placers -> Placing] BY <1>1
<1>3. ASSUME NEW q \in Placers PROVE placing'[q].amount <= accepted'
  <2>1. CASE q = r BY <1>1, <2>1
  <2>2. CASE q # r
    <3>1. placing'[q] = placing[q] BY <1>1, <2>2
    <3>2. placing[q].amount \in Nat /\ placing[q].amount <= accepted
      BY <1>1 DEF Placing, Amounts0
    <3> QED BY <3>1, <3>2, PageFields DEF Amounts0
  <2> QED BY <2>1, <2>2
<1> QED BY <1>2, <1>3

LEMMA ValidateBidInv == ASSUME PageInv, NEW r \in Placers, ValidateBid(r) PROVE PageInv'
<1>1. /\ placing' = [placing EXCEPT ![r] = At("validated", current)]
      /\ UNCHANGED <<accepted, current, announced, page>>
  BY DEF ValidateBid
<1>2. At("validated", current) \in Placing /\ At("validated", current).amount <= accepted'
  BY <1>1, PageFields DEF PageInv, At, Placing
<1>3. accepted' \in Amounts0 /\ accepted <= accepted' BY <1>1, PageFields DEF PageInv, PageTypeOK
<1>4. /\ placing' \in [Placers -> Placing]
      /\ \A q \in Placers : placing'[q].amount <= accepted'
  BY <1>1, <1>2, <1>3, PlacingGoesOn DEF PageInv
<1>5. PageTypeOK' BY <1>1, <1>4 DEF PageInv, PageTypeOK
<1>6. Informed' BY <1>1 DEF PageInv, Informed, Knows
<1> QED BY <1>4, <1>5, <1>6 DEF PageInv

LEMMA AcceptBidInv ==
  ASSUME PageInv, NEW r \in Placers, NEW amount \in 1 .. MaxAmount, AcceptBid(r, amount)
  PROVE  PageInv'
<1>1. /\ accepted' = IF amount > accepted THEN amount ELSE accepted
      /\ current' = amount
      /\ placing' = [placing EXCEPT ![r] = At("committed", amount)]
      /\ UNCHANGED <<announced, page>>
  BY DEF AcceptBid
<1>2. accepted' \in Amounts0 /\ accepted <= accepted' /\ amount <= accepted'
  BY <1>1, PageFields, PageAssumption DEF PageInv, Amounts0
<1>3. At("committed", amount) \in Placing /\ At("committed", amount).amount <= accepted'
  BY <1>2, PageAssumption DEF At, Placing, Amounts0
<1>4. /\ placing' \in [Placers -> Placing]
      /\ \A q \in Placers : placing'[q].amount <= accepted'
  BY <1>1, <1>2, <1>3, PlacingGoesOn DEF PageInv
<1>5. current' \in 0 .. accepted' /\ announced' \in 0 .. accepted'
  BY <1>1, <1>2, PageFields, PageAssumption DEF PageInv, Amounts0
<1>6. PageTypeOK' BY <1>1, <1>2, <1>4, <1>5 DEF PageInv, PageTypeOK
<1>7. Informed' BY <1>1 DEF PageInv, Informed, Knows
<1> QED BY <1>4, <1>6, <1>7 DEF PageInv

(* A request ends. *)
LEMMA PlacingEnds ==
  ASSUME PageInv, NEW r \in Placers, placing' = [placing EXCEPT ![r] = At("done", 0)],
         UNCHANGED <<accepted, current>>
  PROVE  /\ placing' \in [Placers -> Placing]
         /\ \A q \in Placers : placing'[q].amount <= accepted'
         /\ accepted' \in Amounts0 /\ current' \in 0 .. accepted'
<1>1. At("done", 0) \in Placing /\ At("done", 0).amount <= accepted'
  BY PageFields, PageAssumption DEF PageInv, At, Placing, Amounts0
<1>2. accepted' \in Amounts0 /\ accepted <= accepted' /\ current' \in 0 .. accepted'
  BY PageFields DEF PageInv, PageTypeOK
<1> QED BY <1>1, <1>2, PlacingGoesOn DEF PageInv

LEMMA FailBidInv == ASSUME PageInv, NEW r \in Placers, FailBid(r) PROVE PageInv'
<1>1. /\ placing' = [placing EXCEPT ![r] = At("done", 0)]
      /\ UNCHANGED <<accepted, current, announced, page>>
  BY DEF FailBid
<1>2. PageTypeOK' BY <1>1, PlacingEnds DEF PageInv, PageTypeOK
<1>3. Informed' BY <1>1 DEF PageInv, Informed, Knows
<1> QED BY <1>1, <1>2, <1>3, PlacingEnds DEF PageInv

(* What is broadcast reaches the page if it has joined. *)
LEMMA BroadcastBidInv == ASSUME PageInv, NEW r \in Placers, BroadcastBid(r) PROVE PageInv'
<1> DEFINE a == placing[r].amount
           m == [event |-> "bid_accepted", amount |-> a]
<1>1. /\ placing' = [placing EXCEPT ![r] = At("done", 0)]
      /\ announced' = IF a > announced THEN a ELSE announced
      /\ UNCHANGED <<accepted, current>>
      /\ IF Joined THEN page' = [page EXCEPT !.inbox = Append(@, m)] ELSE UNCHANGED page
  BY DEF BroadcastBid, Send
<1>2. a \in Amounts0 /\ a \in Nat /\ a <= accepted
  BY PageAssumption DEF PageInv, PageTypeOK, Placing, Amounts0
<1>3. m \in PageMessage BY <1>2 DEF PageMessage
<1>4. announced' \in 0 .. accepted' /\ announced' \in Nat
  BY <1>1, <1>2, PageFields DEF PageInv
<1>5. CASE Joined
  <2>1. page' = [page EXCEPT !.inbox = Append(@, m)] BY <1>1, <1>5
  <2>2. /\ page'.inbox = Append(page.inbox, m) /\ page'.price = page.price
        /\ page'.socket = page.socket /\ page'.history = page.history
        /\ page'.back = page.back
    BY <2>1, PageFields DEF PageInv, Page
  <2>3. page'.inbox \in Seq(PageMessage) BY <1>3, <2>2, PageFields, AppendProperties DEF PageInv
  <2>4. page' \in Page BY <2>1, <2>3, PageFields DEF PageInv, Page
  <2>5. PageTypeOK' BY <1>1, <1>4, <2>4, PlacingEnds DEF PageInv, PageTypeOK
  <2>6. \A x \in Nat : Knows(x) \/ a >= x => Knows(x)'
    BY <1>3, <2>2, SendKnows DEF PageInv
  <2>7. ASSUME NEW x \in Nat, x = announced' PROVE Informed'
    <3>1. Knows(announced) => Knows(x) \/ a >= x
      BY <1>1, <1>2, <2>7, PageFields DEF PageInv
    <3>2. page.socket = "read" /\ page.history >= announced => Knows(x) \/ a >= x \/ page.history >= x
      BY <1>1, <1>2, <2>7, PageFields DEF PageInv
    <3>3. ~page.back =>
            /\ page.socket = "live" => Knows(x)'
            /\ page.socket = "read" => Knows(x)' \/ page.history >= x
      BY <2>6, <3>1, <3>2 DEF PageInv, Informed
    <3> QED BY <2>2, <2>7, <3>3 DEF Informed, Knows
  <2>8. Informed' BY <1>4, <2>7
  <2> QED BY <1>1, <2>5, <2>8, PlacingEnds DEF PageInv
<1>6. CASE ~Joined
  <2>1. UNCHANGED page BY <1>1, <1>6
  <2>2. PageTypeOK' BY <1>1, <1>4, <2>1, PlacingEnds DEF PageInv, PageTypeOK
  <2>3. Informed' BY <1>6, <2>1 DEF Informed, Joined
  <2> QED BY <1>1, <2>2, <2>3, PlacingEnds DEF PageInv
<1> QED BY <1>5, <1>6

(* A step of the page alone: it is enough that the page stays informed. *)
LEMMA PageStep ==
  ASSUME PageInv, UNCHANGED <<accepted, current, placing, announced>>, page' \in Page, Informed'
  PROVE  PageInv'
BY DEF PageInv, PageTypeOK

LEMMA TurnsInv ==
  ASSUME PageInv, NEW s \in {"asked", "outside", "member", "uninformed"}, Turns(s)
  PROVE  PageInv'
<1>1. page' = [page EXCEPT !.socket = s] /\ UNCHANGED <<accepted, current, placing, announced>>
  BY DEF Turns
<1>2. page' \in Page /\ page'.socket = s BY <1>1, PageFields DEF PageInv, Page
<1>3. Informed' BY <1>2 DEF Informed
<1> QED BY <1>1, <1>2, <1>3, PageStep

(* The history holds every bid announced so far. *)
LEMMA ReadHistoryInv == ASSUME PageInv, ReadHistory PROVE PageInv'
<1>1. /\ page' = [page EXCEPT !.socket = "read", !.history = accepted]
      /\ UNCHANGED <<accepted, current, placing, announced>>
  BY DEF ReadHistory
<1>2. page' \in Page BY <1>1, PageFields DEF PageInv, Page, PageTypeOK
<1>3. page'.socket = "read" /\ page'.history = accepted BY <1>1, PageFields DEF PageInv, Page
<1>4. Informed' BY <1>1, <1>3, PageFields DEF PageInv, Informed
<1> QED BY <1>1, <1>2, <1>4, PageStep

LEMMA SendHistoryInv == ASSUME PageInv, SendHistory PROVE PageInv'
<1> DEFINE m == [event |-> "bid_history", amount |-> page.history]
<1>1. /\ page.socket = "read"
      /\ page' = [page EXCEPT !.socket = "live", !.inbox = Append(@, m)]
      /\ UNCHANGED <<accepted, current, placing, announced>>
  BY DEF SendHistory
<1>2. m \in PageMessage /\ m.amount = page.history BY PageFields DEF PageInv, PageMessage
<1>3. page'.inbox \in Seq(PageMessage) /\ page'.inbox = Append(page.inbox, m)
  BY <1>1, <1>2, PageFields, AppendProperties DEF PageInv, Page
<1>4. page' \in Page /\ page'.price = page.price /\ page'.back = page.back
      /\ page'.socket = "live"
  BY <1>1, <1>3, PageFields DEF PageInv, Page
<1>5. ASSUME ~page.back PROVE Knows(announced)'
  <2>1. Knows(announced) \/ m.amount >= announced BY <1>1, <1>2, <1>5 DEF PageInv, Informed
  <2>2. \A x \in Nat : Knows(x) \/ m.amount >= x => Knows(x)'
    BY <1>2, <1>3, <1>4, SendKnows DEF PageInv
  <2> QED BY <1>1, <2>1, <2>2, PageFields DEF PageInv, Knows
<1>6. Informed' BY <1>4, <1>5 DEF Informed
<1> QED BY <1>1, <1>4, <1>6, PageStep

LEMMA LoseConnectionInv == ASSUME PageInv, LoseConnection PROVE PageInv'
<1>1. /\ page' = [page EXCEPT !.socket = "down", !.inbox = <<>>, !.back = FALSE]
      /\ UNCHANGED <<accepted, current, placing, announced>>
  BY DEF LoseConnection
<1>2. page' \in Page /\ page'.socket = "down" BY <1>1, PageFields, EmptySeq DEF PageInv, Page
<1>3. Informed' BY <1>2 DEF Informed
<1> QED BY <1>1, <1>2, <1>3, PageStep

(* A message read takes the price up, or puts it back. *)
LEMMA ReceiveInv == ASSUME PageInv, Receive PROVE PageInv'
<1> DEFINE m == Head(page.inbox)
           rest == [page EXCEPT !.inbox = Tail(@)]
<1>1. /\ page.inbox # <<>>
      /\ page' = IF m.amount = 0 THEN rest ELSE Shows(rest, m.amount)
      /\ UNCHANGED <<accepted, current, placing, announced>>
  BY DEF Receive
<1>2. page.inbox \in Seq(PageMessage) /\ page \in Page BY PageFields DEF PageInv
<1>3. m \in PageMessage /\ Tail(page.inbox) \in Seq(PageMessage)
  BY <1>1, <1>2, HeadTailProperties
<1>4. m.amount \in Amounts0 /\ m.amount \in Nat BY <1>3, PageAssumption DEF PageMessage, Amounts0
<1>5. rest \in Page /\ rest.inbox = Tail(page.inbox) /\ rest.price = page.price
      /\ rest.back = page.back /\ rest.socket = page.socket /\ rest.history = page.history
  BY <1>2, <1>3 DEF Page
<1>6. /\ page' \in Page /\ page'.inbox = Tail(page.inbox)
      /\ page'.socket = page.socket /\ page'.history = page.history
      /\ ~page'.back => /\ ~page.back
                        /\ page'.price \in Nat
                        /\ page'.price >= page.price /\ page'.price >= m.amount
  <2>1. CASE m.amount = 0 BY <1>1, <1>5, <2>1, PageFields DEF PageInv
  <2>2. CASE m.amount # 0
    <3>1. page' = [rest EXCEPT !.price = m.amount, !.back = @ \/ m.amount < rest.price]
      BY <1>1, <2>2 DEF Shows
    <3>2. (rest.back \/ m.amount < rest.price) \in BOOLEAN BY <1>5, PageFields DEF PageInv
    <3>3. /\ page' \in Page /\ page'.inbox = rest.inbox
          /\ page'.socket = rest.socket /\ page'.history = rest.history
          /\ page'.price = m.amount /\ page'.back = (rest.back \/ m.amount < rest.price)
      BY <1>4, <1>5, <3>1, <3>2 DEF Page
    <3>4. ASSUME ~page'.back PROVE ~page.back /\ ~(m.amount < page.price)
      BY <1>5, <3>3, <3>4, Zenon
    <3>5. page.price \in Nat BY PageFields DEF PageInv
    <3>6. ~page'.back => ~page.back /\ page'.price \in Nat
                         /\ page'.price >= page.price /\ page'.price >= m.amount
      BY <1>4, <3>3, <3>4, <3>5
    <3> QED BY <1>5, <3>3, <3>6
  <2> QED BY <2>1, <2>2
<1>7. ASSUME ~page'.back, Knows(announced) PROVE Knows(announced)'
  <2>1. \A x \in Nat : Knows(x) => Knows(x)'
    BY <1>1, <1>6, <1>7, ReceiveKnows DEF PageInv
  <2> QED BY <1>1, <1>7, <2>1, PageFields DEF PageInv, Knows
<1>8. Informed' BY <1>1, <1>6, <1>7 DEF PageInv, Informed
<1> QED BY <1>1, <1>6, <1>8, PageStep

(* A request that is sent, served or fails leaves what the page shows. *)
LEMMA LoadInv == ASSUME PageInv, LoadAuction \/ ReadAuctionRow \/ FailLoad PROVE PageInv'
<1>1. /\ page' \in Page /\ page'.inbox = page.inbox /\ page'.price = page.price
      /\ page'.socket = page.socket /\ page'.history = page.history
      /\ page'.back = page.back
      /\ UNCHANGED <<accepted, current, placing, announced>>
  BY PageFields DEF PageInv, PageTypeOK, Page, LoadAuction, ReadAuctionRow, FailLoad
<1>2. Informed' BY <1>1 DEF PageInv, Informed, Knows
<1> QED BY <1>1, <1>2, PageStep

LEMMA ShowAuctionInv == ASSUME PageInv, ShowAuction PROVE PageInv'
<1>1. /\ page' = [page EXCEPT !.load = "none", !.price = page.answer,
                              !.back = @ \/ page.answer < page.price]
      /\ UNCHANGED <<accepted, current, placing, announced>>
  <2>1. page \in Page BY PageFields DEF PageInv
  <2> QED BY <2>1 DEF ShowAuction, Shows, Page
<1>2. /\ page' \in Page /\ page'.inbox = page.inbox
      /\ page'.socket = page.socket /\ page'.history = page.history
      /\ page'.price \in Nat
      /\ ~page'.back => ~page.back /\ page'.price >= page.price
  <2>1. (page.back \/ page.answer < page.price) \in BOOLEAN OBVIOUS
  <2>2. /\ page' \in Page /\ page'.inbox = page.inbox
        /\ page'.socket = page.socket /\ page'.history = page.history
        /\ page'.price = page.answer
        /\ page'.back = (page.back \/ page.answer < page.price)
    BY <1>1, <2>1, PageFields DEF PageInv, Page
  <2>3. ASSUME ~page'.back PROVE ~page.back /\ ~(page.answer < page.price)
    BY <2>2, <2>3, Zenon
  <2>4. page.price \in Nat /\ page.answer \in Nat BY PageFields DEF PageInv
  <2> QED BY <2>2, <2>3, <2>4
<1>3. ASSUME ~page'.back, Knows(announced) PROVE Knows(announced)'
  BY <1>1, <1>2, <1>3, PageFields DEF PageInv, Knows
<1>4. Informed' BY <1>1, <1>2, <1>3 DEF PageInv, Informed
<1> QED BY <1>1, <1>2, <1>4, PageStep

-----------------------------------------------------------------------------
(* The invariant. *)

LEMMA PageStepInv == PageInv /\ [PageNext]_pageVars => PageInv'
<1> SUFFICES ASSUME PageInv, [PageNext]_pageVars PROVE PageInv' OBVIOUS
<1>1. CASE Connect BY <1>1, TurnsInv DEF Connect
<1>2. CASE JoinAuction BY <1>2, TurnsInv DEF JoinAuction
<1>3. CASE ReadHistory BY <1>3, ReadHistoryInv
<1>4. CASE SendHistory BY <1>4, SendHistoryInv
<1>5. CASE FailJoin BY <1>5, TurnsInv DEF FailJoin
<1>6. CASE LoseConnection BY <1>6, LoseConnectionInv
<1>7. CASE Receive BY <1>7, ReceiveInv
<1>8. CASE LoadAuction \/ ReadAuctionRow \/ FailLoad BY <1>8, LoadInv
<1>9. CASE ShowAuction BY <1>9, ShowAuctionInv
<1>10. ASSUME NEW r \in Placers, NEW amount \in 1 .. MaxAmount, AcceptBid(r, amount)
       PROVE  PageInv'
  BY <1>10, AcceptBidInv
<1>11. ASSUME NEW r \in Placers, BroadcastBid(r) PROVE PageInv' BY <1>11, BroadcastBidInv
<1>12. ASSUME NEW r \in Placers, FailBid(r) PROVE PageInv' BY <1>12, FailBidInv
<1>13. CASE UNCHANGED pageVars
  BY <1>13 DEF pageVars, PageInv, PageTypeOK, Informed, Knows
<1>14. ASSUME NEW r \in Placers, ValidateBid(r) PROVE PageInv' BY <1>14, ValidateBidInv
<1> QED
  BY <1>1, <1>2, <1>3, <1>4, <1>5, <1>6, <1>7, <1>8, <1>9, <1>10, <1>11, <1>12, <1>13, <1>14
  DEF PageNext

LEMMA PageInvariance == PageSpec => []PageInv
BY PageInitInv, PageStepInv, PTL DEF PageSpec

(* What the page holds has the type of its fields, and no bid is announced *)
(* that was not committed.                                                 *)
THEOREM PageTypeCorrect == PageSpec => []PageTypeOK
<1>1. PageInv => PageTypeOK BY DEF PageInv
<1> QED BY <1>1, PageInvariance, PTL

(* handleJoinAuction enters the room before it reads the bids, so a page   *)
(* with nothing under way shows the highest bid announced or a newer one,  *)
(* whatever was lost before, unless an older answer or broadcast put its   *)
(* price back on this connection.                                          *)
THEOREM QuietPageCorrect == PageSpec => []QuietPageIsCurrent
<1>1. PageInv => QuietPageIsCurrent
  <2> SUFFICES ASSUME PageInv, Quiet, ~page.back PROVE page.price >= announced
    BY DEF QuietPageIsCurrent
  <2>1. Knows(announced) BY DEF PageInv, Informed, Quiet
  <2>2. Len(page.inbox) = 0 BY DEF Quiet
  <2> QED BY <2>1, <2>2 DEF Knows
<1> QED BY <1>1, PageInvariance, PTL


-----------------------------------------------------------------------------
(***************************************************************************)
(* One event, one notice for each user, and nobody is forgotten, for any   *)
(* number of people and of handlers at work.                               *)
(***************************************************************************)

(* The steps that address a group of users, by event. *)
GroupsOf ==
  [BID_CREATED |-> {"OUTBID"},
   ENDED |-> {"WINNER", "LOSER", "WATCHER", "WATCHER_AS_FOLLOWER", "SELLER"},
   CLOSED |-> {"SELLER", "ALL"}, PENDING |-> {"SELLER"}, CANCELED |-> {"SELLER"},
   READY |-> {"SELLER", "FOLLOWER"}, CONFIRMED_OPEN |-> {"SELLER", "FOLLOWER"},
   OPEN |-> {"SELLER", "FOLLOWER", "WATCHER"}]

(* How far the handler h is in its script. *)
Walked(h) == Len(Script[h.event]) - Len(h.todo)
Behind(h) == {Script[h.event][i] : i \in 1..Walked(h)}

Told(h) == h.sent \cup h.group

(* What is left to do is the end of the script. *)
OnScript(h) ==
  /\ Len(h.todo) <= Len(Script[h.event])
  /\ \A i \in 1..Len(h.todo) : h.todo[i] = Script[h.event][Walked(h) + i]

(* A user was told something because he is in a group that was addressed, *)
(* by what the handler has read; the queries that follow do not change it.  *)
Justified(h) ==
  \A n \in Told(h) : \E step \in Behind(h) \cap GroupsOf[h.event] : n \in Group(h, step)

(* A handler that has not failed has told every group behind it. *)
Complete(h) ==
  ~h.failed =>
    \A step \in Behind(h) \cap GroupsOf[h.event] : Group(h, step) \subseteq Told(h)

(* Who was concerned and stayed is still in the table, and in what the     *)
(* handler has read of it.                                                 *)
Covered(h) ==
  \A q \in Tables :
    /\ h.stayed[q] \subseteq table[q]
    /\ q \notin Concerned[h.event] => h.stayed[q] = {}
    /\ q \in Behind(h) /\ ~h.failed => h.stayed[q] \subseteq h.read[q]

(* Only PENDING is emitted before the auction is there to be found. *)
Runs(h) ==
  IF h.event = "none" THEN h = Waiting
  ELSE /\ h.event # "PENDING" => exists
       /\ OnScript(h) /\ Justified(h)
       /\ h.event # "PENDING" => Complete(h)
       /\ h.event # "PENDING" => Covered(h)
       /\ h.event = "PENDING" => h.stayed = NoRead

NoticesInv == NoticesTypeOK /\ \A l \in Listeners : Runs(listener[l])

-----------------------------------------------------------------------------
(* The scripts. *)

LEMMA EventsAre ==
  /\ Events = {"BID_CREATED", "ENDED", "CLOSED", "PENDING", "CANCELED", "READY",
                "CONFIRMED_OPEN", "OPEN"}
  /\ "none" \notin Events
BY DEF Events, Script

Names == {"auction", "bids", "watchlist", "follows", "OUTBID", "WINNER", "LOSER", "WATCHER",
          "WATCHER_AS_FOLLOWER", "SELLER", "ALL", "FOLLOWER"}

(* Each script: its steps, its groups, no query that a group before it     *)
(* needs, and a query of every table with rows that the event concerns.    *)
Proper(e) ==
  /\ Script[e] \in Seq(Names) /\ Len(Script[e]) \in Nat \ {0}
  /\ \A i \in 1..Len(Script[e]) :
       Script[e][i] \in Tables \cup {"auction"} \/ Script[e][i] \in GroupsOf[e]
  /\ \A step \in GroupsOf[e] : step \notin Tables \cup {"auction"}
  /\ \A i, j \in 1..Len(Script[e]) :
       i < j /\ Script[e][i] \in GroupsOf[e] /\ Script[e][j] \in Tables =>
         Script[e][i] = "SELLER" \/ (Script[e][i] = "FOLLOWER" /\ Script[e][j] = "watchlist")
  /\ \A q \in Concerned[e] \cup GroupsOf[e] : \E i \in 1..Len(Script[e]) : Script[e][i] = q

LEMMA ScriptsProper == \A e \in Events : Proper(e)
<1>1. Proper("BID_CREATED")
  <2>1. Script["BID_CREATED"] \in Seq(Names) BY DEF Script, Names
  <2>2. /\ Len(Script["BID_CREATED"]) = 3
        /\ Script["BID_CREATED"][1] = "auction"
        /\ Script["BID_CREATED"][2] = "bids"
        /\ Script["BID_CREATED"][3] = "OUTBID"
    BY DEF Script
  <2>3. \A i \in 1..3 : i = 1 \/ i = 2 \/ i = 3 OBVIOUS
  <2> QED BY <2>1, <2>2, <2>3 DEF Proper, GroupsOf, Concerned, Tables
<1>2. Proper("ENDED")
  <2>1. Script["ENDED"] \in Seq(Names) BY DEF Script, Names
  <2>2. /\ Len(Script["ENDED"]) = 9
        /\ Script["ENDED"][1] = "auction"
        /\ Script["ENDED"][2] = "bids"
        /\ Script["ENDED"][3] = "watchlist"
        /\ Script["ENDED"][4] = "follows"
        /\ Script["ENDED"][5] = "WINNER"
        /\ Script["ENDED"][6] = "LOSER"
        /\ Script["ENDED"][7] = "WATCHER"
        /\ Script["ENDED"][8] = "WATCHER_AS_FOLLOWER"
        /\ Script["ENDED"][9] = "SELLER"
    BY DEF Script
  <2>3. \A i \in 1..9 : i = 1 \/ i = 2 \/ i = 3 \/ i = 4 \/ i = 5 \/ i = 6 \/ i = 7 \/ i = 8 \/ i = 9 OBVIOUS
  <2> QED BY <2>1, <2>2, <2>3 DEF Proper, GroupsOf, Concerned, Tables
<1>3. Proper("CLOSED")
  <2>1. Script["CLOSED"] \in Seq(Names) BY DEF Script, Names
  <2>2. /\ Len(Script["CLOSED"]) = 6
        /\ Script["CLOSED"][1] = "auction"
        /\ Script["CLOSED"][2] = "bids"
        /\ Script["CLOSED"][3] = "follows"
        /\ Script["CLOSED"][4] = "watchlist"
        /\ Script["CLOSED"][5] = "SELLER"
        /\ Script["CLOSED"][6] = "ALL"
    BY DEF Script
  <2>3. \A i \in 1..6 : i = 1 \/ i = 2 \/ i = 3 \/ i = 4 \/ i = 5 \/ i = 6 OBVIOUS
  <2> QED BY <2>1, <2>2, <2>3 DEF Proper, GroupsOf, Concerned, Tables
<1>4. Proper("PENDING")
  <2>1. Script["PENDING"] \in Seq(Names) BY DEF Script, Names
  <2>2. /\ Len(Script["PENDING"]) = 2
        /\ Script["PENDING"][1] = "auction"
        /\ Script["PENDING"][2] = "SELLER"
    BY DEF Script
  <2>3. \A i \in 1..2 : i = 1 \/ i = 2 OBVIOUS
  <2> QED BY <2>1, <2>2, <2>3 DEF Proper, GroupsOf, Concerned, Tables
<1>5. Proper("CANCELED")
  <2>1. Script["CANCELED"] \in Seq(Names) BY DEF Script, Names
  <2>2. /\ Len(Script["CANCELED"]) = 2
        /\ Script["CANCELED"][1] = "auction"
        /\ Script["CANCELED"][2] = "SELLER"
    BY DEF Script
  <2>3. \A i \in 1..2 : i = 1 \/ i = 2 OBVIOUS
  <2> QED BY <2>1, <2>2, <2>3 DEF Proper, GroupsOf, Concerned, Tables
<1>6. Proper("READY")
  <2>1. Script["READY"] \in Seq(Names) BY DEF Script, Names
  <2>2. /\ Len(Script["READY"]) = 4
        /\ Script["READY"][1] = "auction"
        /\ Script["READY"][2] = "follows"
        /\ Script["READY"][3] = "SELLER"
        /\ Script["READY"][4] = "FOLLOWER"
    BY DEF Script
  <2>3. \A i \in 1..4 : i = 1 \/ i = 2 \/ i = 3 \/ i = 4 OBVIOUS
  <2> QED BY <2>1, <2>2, <2>3 DEF Proper, GroupsOf, Concerned, Tables
<1>7. Proper("CONFIRMED_OPEN")
  <2>1. Script["CONFIRMED_OPEN"] \in Seq(Names) BY DEF Script, Names
  <2>2. /\ Len(Script["CONFIRMED_OPEN"]) = 4
        /\ Script["CONFIRMED_OPEN"][1] = "auction"
        /\ Script["CONFIRMED_OPEN"][2] = "SELLER"
        /\ Script["CONFIRMED_OPEN"][3] = "follows"
        /\ Script["CONFIRMED_OPEN"][4] = "FOLLOWER"
    BY DEF Script
  <2>3. \A i \in 1..4 : i = 1 \/ i = 2 \/ i = 3 \/ i = 4 OBVIOUS
  <2> QED BY <2>1, <2>2, <2>3 DEF Proper, GroupsOf, Concerned, Tables
<1>8. Proper("OPEN")
  <2>1. Script["OPEN"] \in Seq(Names) BY DEF Script, Names
  <2>2. /\ Len(Script["OPEN"]) = 6
        /\ Script["OPEN"][1] = "auction"
        /\ Script["OPEN"][2] = "SELLER"
        /\ Script["OPEN"][3] = "follows"
        /\ Script["OPEN"][4] = "FOLLOWER"
        /\ Script["OPEN"][5] = "watchlist"
        /\ Script["OPEN"][6] = "WATCHER"
    BY DEF Script
  <2>3. \A i \in 1..6 : i = 1 \/ i = 2 \/ i = 3 \/ i = 4 \/ i = 5 \/ i = 6 OBVIOUS
  <2> QED BY <2>1, <2>2, <2>3 DEF Proper, GroupsOf, Concerned, Tables
<1> QED BY <1>1, <1>2, <1>3, <1>4, <1>5, <1>6, <1>7, <1>8, EventsAre

LEMMA ScriptType == ASSUME NEW e \in Events PROVE Script[e] \in Seq(Steps)
<1>1. Script[e] \in Seq(Names) BY ScriptsProper DEF Proper
<1>2. \A i \in 1..Len(Script[e]) : Script[e][i] \in Steps BY <1>1 DEF Steps
<1> QED BY <1>1, <1>2, SeqDef, LenProperties

-----------------------------------------------------------------------------
(* Groups. *)

LEMMA ListenerFields ==
  ASSUME NEW h \in Listener
  PROVE  /\ h.event \in Events \cup {"none"} /\ h.who \subseteq Users
         /\ h.todo \in Seq(Steps) /\ Len(h.todo) \in Nat
         /\ h.group \subseteq Notice /\ h.sent \subseteq Notice
         /\ h.failed \in BOOLEAN
         /\ \A q \in Tables : h.read[q] \subseteq Users /\ h.stayed[q] \subseteq Users
BY LenProperties DEF Listener

(* Whoever is in a group is in it once, by what the handler has read. *)
LEMMA GroupType ==
  ASSUME NEW h \in Listener, NEW e \in Events, NEW step \in GroupsOf[e]
  PROVE  Group(h, step) \subseteq Notice
<1>1. step \in {"OUTBID", "WINNER", "LOSER", "WATCHER", "WATCHER_AS_FOLLOWER", "FOLLOWER",
                "ALL", "SELLER"}
  BY EventsAre DEF GroupsOf
<1>2. /\ h.who \subseteq Users /\ h.read["bids"] \subseteq Users
      /\ h.read["follows"] \subseteq Users /\ h.read["watchlist"] \subseteq Users
  BY ListenerFields DEF Tables
<1> QED BY <1>1, <1>2 DEF Group, To, WatchersOnly, Merged, Notice, Users, Roles

LEMMA GroupSame ==
  ASSUME NEW e \in Events, NEW step \in GroupsOf[e], NEW h, NEW g,
         g.event = h.event, g.who = h.who, g.read = h.read
  PROVE  Group(g, step) = Group(h, step)
<1>1. step \in {"OUTBID", "WINNER", "LOSER", "WATCHER", "WATCHER_AS_FOLLOWER", "FOLLOWER",
                "ALL", "SELLER"}
  BY EventsAre DEF GroupsOf
<1> QED BY <1>1 DEF Group, To, WatchersOnly, Merged

(* SELLER depends on no query, FOLLOWER on that of the followers. *)
LEMMA GroupAfterQuery ==
  ASSUME NEW h, NEW g, NEW step, NEW q \in Tables,
         step = "SELLER" \/ (step = "FOLLOWER" /\ q = "watchlist"),
         \A p \in Tables : p # q => g.read[p] = h.read[p]
  PROVE  Group(g, step) = Group(h, step)
BY DEF Group, To, Tables

-----------------------------------------------------------------------------
(* The position in the script. *)

(* The next step is done. *)
LEMMA StepOn ==
  ASSUME NEW h \in Listener, h.event \in Events, OnScript(h), h.todo # <<>>,
         NEW g, g.event = h.event, g.todo = Tail(h.todo)
  PROVE  /\ OnScript(g) /\ g.todo \in Seq(Steps)
         /\ Head(h.todo) = Script[h.event][Walked(h) + 1]
         /\ Walked(h) \in Nat /\ Walked(h) + 1 \in 1..Len(Script[h.event])
         /\ Behind(g) = Behind(h) \cup {Head(h.todo)}
<1> DEFINE s == Script[h.event]
<1>1. Len(s) \in Nat /\ h.todo \in Seq(Steps) /\ Len(h.todo) \in Nat
  BY ScriptsProper, ListenerFields DEF Proper
<1>2. Len(h.todo) > 0 BY <1>1, EmptySeq
<1>3. /\ g.todo \in Seq(Steps) /\ Len(g.todo) = Len(h.todo) - 1
      /\ \A i \in 1..Len(g.todo) : g.todo[i] = h.todo[i + 1]
  BY <1>1, HeadTailProperties
<1>4. Walked(h) = Len(s) - Len(h.todo) /\ Walked(g) = Len(s) - Len(g.todo) BY DEF Walked
<1>5. Len(h.todo) <= Len(s) BY DEF OnScript
<1>6. ASSUME NEW n \in Nat, NEW m \in Nat, m > 0, m <= n
      PROVE  n - m \in Nat /\ n - (m - 1) = n - m + 1 /\ n - m + 1 \in 1..n
  BY <1>6
<1>7. Walked(h) \in Nat /\ Walked(g) = Walked(h) + 1 /\ Walked(h) + 1 \in 1..Len(s)
  <2>1. Walked(g) = Len(s) - (Len(h.todo) - 1) BY <1>3, <1>4
  <2> HIDE DEF s
  <2> QED BY <2>1, <1>1, <1>2, <1>4, <1>5, <1>6
<1>8. \A i \in 1..Len(h.todo) : h.todo[i] = s[Walked(h) + i] BY DEF OnScript
<1>9. Head(h.todo) = s[Walked(h) + 1]
  <2>1. Head(h.todo) = h.todo[1] BY <1>1
  <2>2. 1 \in 1..Len(h.todo) BY <1>1, <1>2
  <2> QED BY <2>1, <2>2, <1>8
<1>10. OnScript(g)
  <2>1. ASSUME NEW i \in 1..Len(g.todo) PROVE g.todo[i] = s[Walked(g) + i]
    <3>1. g.todo[i] = h.todo[i + 1] /\ i \in Nat BY <1>3
    <3>2. i + 1 \in 1..Len(h.todo) BY <1>1, <1>3
    <3>3. h.todo[i + 1] = s[Walked(h) + (i + 1)] BY <3>2, <1>8
    <3>4. Walked(h) + (i + 1) = Walked(g) + i BY <3>1, <1>7
    <3> QED BY <3>1, <3>3, <3>4
  <2>2. Len(g.todo) <= Len(s) BY <1>1, <1>3, <1>5
  <2> QED BY <2>1, <2>2 DEF OnScript
<1>11. Behind(g) = Behind(h) \cup {s[Walked(h) + 1]}
  <2>1. 1..Walked(g) = (1..Walked(h)) \cup {Walked(h) + 1} BY <1>7
  <2> QED BY <2>1 DEF Behind
<1> QED BY <1>3, <1>7, <1>9, <1>10, <1>11

(* The rest of the script is dropped. *)
LEMMA Dropped ==
  ASSUME NEW h \in Listener, h.event \in Events,
         NEW g, g.event = h.event, g.todo = <<>>
  PROVE  OnScript(g) /\ Behind(h) \subseteq Behind(g)
<1>1. /\ Len(Script[h.event]) \in Nat /\ Len(h.todo) \in Nat /\ Len(g.todo) = 0
  BY ScriptsProper, ListenerFields, EmptySeq DEF Proper
<1>2. Walked(h) <= Walked(g) /\ Walked(h) \in Int /\ Walked(g) \in Int BY <1>1 DEF Walked
<1>3. OnScript(g) BY <1>1 DEF OnScript
<1> QED BY <1>2, <1>3 DEF Behind

(* The end of the script: everything is behind. *)
LEMMA AtTheEnd ==
  ASSUME NEW h, h.event \in Events, h.todo = <<>>
  PROVE  GroupsOf[h.event] \subseteq Behind(h) /\ Concerned[h.event] \subseteq Behind(h)
<1>1. Walked(h) = Len(Script[h.event]) BY ScriptsProper DEF Walked, Proper
<1> QED BY <1>1, ScriptsProper DEF Proper, Behind

-----------------------------------------------------------------------------
(* The steps of a handler. *)

(* It is enough that the handler's new state runs on, the tables being     *)
(* what they were.                                                         *)
LEMMA HandlerStep ==
  ASSUME NoticesInv, NEW l \in Listeners, NEW g \in Listener, Does(l, g), Runs(g)
  PROVE  NoticesInv'
<1>1. /\ listener' = [listener EXCEPT ![l] = g]
      /\ UNCHANGED <<exists, table, ending>>
  BY DEF Does
<1>2. NoticesTypeOK' BY <1>1 DEF NoticesInv, NoticesTypeOK
<1>3. ASSUME NEW m \in Listeners PROVE Runs(listener[m])'
  <2>1. listener'[m] = IF m = l THEN g ELSE listener[m]
    BY <1>1 DEF NoticesInv, NoticesTypeOK
  <2>2. PICK k : k = listener'[m] OBVIOUS
  <2>3. Runs(k) BY <2>1, <2>2 DEF NoticesInv
  <2>4. Runs(k)'
    BY <1>1, <2>3 DEF Runs, OnScript, Justified, Complete, Covered, Behind, Walked, Told, Group,
       To, WatchersOnly, Merged
  <2> QED BY <2>2, <2>4
<1> QED BY <1>2, <1>3 DEF NoticesInv

(* A handler with something to do. *)
Working(h) ==
  /\ h \in Listener /\ h.event \in Events /\ OnScript(h) /\ Justified(h) /\ Runs(h)

LEMMA IsWorking ==
  ASSUME NoticesInv, NEW l \in Listeners, listener[l].todo # <<>> \/ listener[l].group # {}
  PROVE  Working(listener[l])
<1>1. listener[l] \in Listener /\ Runs(listener[l]) BY DEF NoticesInv, NoticesTypeOK
<1>2. listener[l].event # "none" BY <1>1 DEF Runs, Waiting
<1>3. listener[l].event \in Events BY <1>1, <1>2, ListenerFields
<1> QED BY <1>1, <1>2, <1>3 DEF Runs, Working

LEMMA FindAuctionInv == ASSUME NoticesInv, NEW l \in Listeners, FindAuction(l) PROVE NoticesInv'
<1>1. PICK h : h = listener[l] OBVIOUS
<1>2. PICK g : g = [h EXCEPT !.todo = IF exists THEN Tail(@) ELSE <<>>] OBVIOUS
<1>3. /\ h.todo # <<>> /\ Head(h.todo) = "auction" /\ Does(l, g)
  BY <1>1, <1>2 DEF FindAuction, Ready, NextStep
<1>4. Working(h) BY <1>1, <1>3, IsWorking
<1>5. /\ g.event = h.event /\ g.who = h.who /\ g.read = h.read /\ g.group = h.group
      /\ g.sent = h.sent /\ g.failed = h.failed /\ g.stayed = h.stayed
      /\ g.todo = IF exists THEN Tail(h.todo) ELSE <<>>
  BY <1>2, <1>4 DEF Working, Listener
<1>6. Told(g) = Told(h) BY <1>5 DEF Told
<1>7. \A step \in GroupsOf[h.event] : Group(g, step) = Group(h, step)
  BY <1>4, <1>5, GroupSame DEF Working
<1>8. "auction" \notin GroupsOf[h.event] BY <1>4, ScriptsProper DEF Working, Proper
<1>9. "auction" \notin Tables BY DEF Tables
<1>10. CASE exists
  <2>1. /\ OnScript(g) /\ g.todo \in Seq(Steps) /\ Behind(g) = Behind(h) \cup {"auction"}
    BY <1>3, <1>4, <1>5, <1>10, StepOn DEF Working
  <2>2. g \in Listener BY <1>2, <1>4, <1>5, <2>1 DEF Working, Listener
  <2>3. Justified(g) BY <1>4, <1>5, <1>6, <1>7, <2>1 DEF Working, Justified
  <2>4. Complete(h) => Complete(g) BY <1>5, <1>6, <1>7, <1>8, <2>1 DEF Complete
  <2>5. Covered(h) => Covered(g) BY <1>5, <1>9, <2>1 DEF Covered
  <2>6. Runs(g) BY <1>4, <1>5, <1>10, <2>1, <2>3, <2>4, <2>5, EventsAre DEF Working, Runs
  <2> QED BY <1>3, <2>2, <2>6, HandlerStep
<1>11. CASE ~exists
  <2>1. OnScript(g) /\ Behind(h) \subseteq Behind(g)
    BY <1>4, <1>5, <1>11, Dropped DEF Working
  <2>2. g \in Listener BY <1>2, <1>4, <1>5, <1>11, EmptySeq DEF Working, Listener
  <2>3. Justified(g) BY <1>4, <1>5, <1>6, <1>7, <2>1 DEF Working, Justified
  <2>4. h.event = "PENDING" BY <1>4, <1>11, EventsAre DEF Working, Runs
  <2>5. Runs(g) BY <1>4, <1>5, <2>1, <2>3, <2>4 DEF Working, Runs
  <2> QED BY <1>3, <2>2, <2>5, HandlerStep
<1> QED BY <1>10, <1>11

(* No group behind the handler depends on the query it makes. *)
LEMMA QueryInv == ASSUME NoticesInv, NEW l \in Listeners, Query(l) PROVE NoticesInv'
<1>1. PICK h : h = listener[l] OBVIOUS
<1>2. PICK q : q = Head(h.todo) OBVIOUS
<1>3. PICK g : g = [h EXCEPT !.todo = Tail(@), !.read[q] = table[q]] OBVIOUS
<1>4. h.todo # <<>> /\ q \in Tables /\ Does(l, g)
  BY <1>1, <1>2, <1>3 DEF Query, Ready, NextStep
<1>5. Working(h) BY <1>1, <1>4, IsWorking
<1>6. /\ g.event = h.event /\ g.who = h.who /\ g.group = h.group
      /\ g.sent = h.sent /\ g.failed = h.failed /\ g.stayed = h.stayed
      /\ g.todo = Tail(h.todo) /\ g.read = [h.read EXCEPT ![q] = table[q]]
  BY <1>3, <1>5 DEF Working, Listener
<1>7. h.read \in [Tables -> SUBSET Users] /\ table \in [Tables -> SUBSET Users]
  BY <1>5 DEF Working, Listener, NoticesInv, NoticesTypeOK
<1>8. /\ g.read \in [Tables -> SUBSET Users] /\ g.read[q] = table[q]
      /\ \A p \in Tables : p # q => g.read[p] = h.read[p]
  BY <1>4, <1>6, <1>7
<1>9. /\ OnScript(g) /\ g.todo \in Seq(Steps)
      /\ q = Script[h.event][Walked(h) + 1]
      /\ Walked(h) \in Nat /\ Walked(h) + 1 \in 1..Len(Script[h.event])
      /\ Behind(g) = Behind(h) \cup {q}
  BY <1>2, <1>4, <1>5, <1>6, StepOn DEF Working
<1>10. g \in Listener BY <1>3, <1>5, <1>6, <1>8, <1>9 DEF Working, Listener
<1>11. Proper(h.event) BY <1>5, ScriptsProper DEF Working
<1>12. q \notin GroupsOf[h.event] BY <1>4, <1>11 DEF Proper
<1>13. ASSUME NEW step \in Behind(h) \cap GroupsOf[h.event] PROVE Group(g, step) = Group(h, step)
  <2>1. PICK i \in 1..Walked(h) : step = Script[h.event][i] BY DEF Behind
  <2>2. i \in 1..Len(Script[h.event]) /\ i < Walked(h) + 1 BY <1>9, <1>11 DEF Proper
  <2>3. step = "SELLER" \/ (step = "FOLLOWER" /\ q = "watchlist")
    BY <1>4, <1>9, <1>11, <2>1, <2>2 DEF Proper
  <2> QED BY <1>4, <1>8, <2>3, GroupAfterQuery
<1>14. Told(g) = Told(h) BY <1>6 DEF Told
<1>15. Justified(g) BY <1>5, <1>6, <1>9, <1>13, <1>14 DEF Working, Justified
<1>16. Complete(h) => Complete(g) BY <1>6, <1>9, <1>12, <1>13, <1>14 DEF Complete
<1>17. ASSUME Covered(h) PROVE Covered(g)
  <2> SUFFICES ASSUME NEW p \in Tables
               PROVE  /\ g.stayed[p] \subseteq table[p]
                      /\ p \notin Concerned[g.event] => g.stayed[p] = {}
                      /\ p \in Behind(g) /\ ~g.failed => g.stayed[p] \subseteq g.read[p]
    BY DEF Covered
  <2>1. CASE p = q BY <1>6, <1>8, <1>17, <2>1 DEF Covered
  <2>2. CASE p # q BY <1>6, <1>8, <1>9, <1>17, <2>2 DEF Covered
  <2> QED BY <2>1, <2>2
<1>18. Runs(g) BY <1>5, <1>6, <1>9, <1>15, <1>16, <1>17, EventsAre DEF Working, Runs
<1> QED BY <1>4, <1>10, <1>18, HandlerStep

LEMMA AddressInv == ASSUME NoticesInv, NEW l \in Listeners, Address(l) PROVE NoticesInv'
<1>1. PICK h : h = listener[l] OBVIOUS
<1>2. PICK step : step = Head(h.todo) OBVIOUS
<1>3. PICK g : g = [h EXCEPT !.todo = Tail(@), !.group = Group(h, step)] OBVIOUS
<1>4. h.todo # <<>> /\ h.group = {} /\ step \notin Tables \cup {"auction"} /\ Does(l, g)
  BY <1>1, <1>2, <1>3 DEF Address, Ready, NextStep
<1>5. Working(h) BY <1>1, <1>4, IsWorking
<1>6. /\ g.event = h.event /\ g.who = h.who /\ g.group = Group(h, step)
      /\ g.sent = h.sent /\ g.failed = h.failed /\ g.stayed = h.stayed
      /\ g.todo = Tail(h.todo) /\ g.read = h.read
  BY <1>3, <1>5 DEF Working, Listener
<1>7. /\ OnScript(g) /\ g.todo \in Seq(Steps)
      /\ step = Script[h.event][Walked(h) + 1]
      /\ Walked(h) \in Nat /\ Walked(h) + 1 \in 1..Len(Script[h.event])
      /\ Behind(g) = Behind(h) \cup {step}
  BY <1>2, <1>4, <1>5, <1>6, StepOn DEF Working
<1>8. Proper(h.event) BY <1>5, ScriptsProper DEF Working
<1>9. step \in GroupsOf[h.event] BY <1>4, <1>7, <1>8 DEF Proper
<1>10. Group(h, step) \subseteq Notice BY <1>5, <1>9, GroupType DEF Working
<1>11. g \in Listener BY <1>3, <1>5, <1>6, <1>7, <1>10 DEF Working, Listener
<1>12. \A s \in GroupsOf[h.event] : Group(g, s) = Group(h, s)
  BY <1>5, <1>6, GroupSame DEF Working
<1>13. Told(h) = h.sent /\ Told(g) = Told(h) \cup Group(h, step) BY <1>4, <1>6 DEF Told
<1>14. Justified(g) BY <1>5, <1>6, <1>7, <1>9, <1>12, <1>13 DEF Working, Justified
<1>15. Complete(h) => Complete(g) BY <1>6, <1>7, <1>12, <1>13 DEF Complete
<1>16. Covered(h) => Covered(g) BY <1>4, <1>6, <1>7 DEF Covered
<1>17. Runs(g) BY <1>5, <1>6, <1>7, <1>14, <1>15, <1>16, EventsAre DEF Working, Runs
<1> QED BY <1>4, <1>11, <1>17, HandlerStep

LEMMA CreateNotificationInv ==
  ASSUME NoticesInv, NEW l \in Listeners, NEW n, CreateNotification(l, n)
  PROVE  NoticesInv'
<1>1. PICK h : h = listener[l] OBVIOUS
<1>2. PICK g : g = [h EXCEPT !.group = @ \ {n}, !.sent = @ \cup {n}] OBVIOUS
<1>3. n \in h.group /\ Does(l, g) BY <1>1, <1>2 DEF CreateNotification
<1>4. Working(h) BY <1>1, <1>3, IsWorking
<1>5. /\ g.event = h.event /\ g.who = h.who /\ g.read = h.read /\ g.todo = h.todo
      /\ g.failed = h.failed /\ g.stayed = h.stayed
      /\ g.group = h.group \ {n} /\ g.sent = h.sent \cup {n}
  BY <1>2, <1>4 DEF Working, Listener
<1>6. g \in Listener BY <1>2, <1>3, <1>4, <1>5 DEF Working, Listener
<1>7. Told(g) = Told(h) /\ Behind(g) = Behind(h) BY <1>3, <1>5 DEF Told, Behind, Walked
<1>8. \A s \in GroupsOf[h.event] : Group(g, s) = Group(h, s)
  BY <1>4, <1>5, GroupSame DEF Working
<1>9. OnScript(g) BY <1>4, <1>5 DEF Working, OnScript, Walked
<1>10. Justified(g) BY <1>4, <1>5, <1>7, <1>8 DEF Working, Justified
<1>11. Complete(h) => Complete(g) BY <1>5, <1>7, <1>8 DEF Complete
<1>12. Covered(h) => Covered(g) BY <1>5, <1>7 DEF Covered
<1>13. Runs(g) BY <1>4, <1>5, <1>9, <1>10, <1>11, <1>12, EventsAre DEF Working, Runs
<1> QED BY <1>3, <1>6, <1>13, HandlerStep

(* A handler that gives up owes nothing any more. *)
LEMMA GivesUp ==
  ASSUME NoticesInv, NEW l \in Listeners, NEW h, h = listener[l], Working(h),
         NEW group \in SUBSET h.group,
         Does(l, [h EXCEPT !.group = group, !.todo = <<>>, !.failed = TRUE])
  PROVE  NoticesInv'
<1>1. PICK g : g = [h EXCEPT !.group = group, !.todo = <<>>, !.failed = TRUE] OBVIOUS
<1>2. /\ g.event = h.event /\ g.who = h.who /\ g.read = h.read /\ g.todo = <<>>
      /\ g.failed /\ g.stayed = h.stayed /\ g.group = group /\ g.sent = h.sent
  BY <1>1 DEF Working, Listener
<1>3. g \in Listener
  <2>1. <<>> \in Seq(Steps) BY EmptySeq
  <2> QED BY <1>1, <2>1 DEF Working, Listener
<1>4. OnScript(g) /\ Behind(h) \subseteq Behind(g) BY <1>2, Dropped DEF Working
<1>5. \A s \in GroupsOf[h.event] : Group(g, s) = Group(h, s) BY <1>2, GroupSame DEF Working
<1>6. Justified(g)
  <2>1. Told(g) \subseteq Told(h) BY <1>2 DEF Told
  <2> QED BY <1>2, <1>4, <1>5, <2>1 DEF Working, Justified
<1>7. Complete(g) BY <1>2 DEF Complete
<1>8. Covered(h) => Covered(g) BY <1>2 DEF Covered
<1>9. Runs(g) BY <1>2, <1>4, <1>6, <1>7, <1>8, EventsAre DEF Working, Runs
<1> QED BY <1>1, <1>3, <1>9, HandlerStep

LEMMA FailNotificationInv ==
  ASSUME NoticesInv, NEW l \in Listeners, NEW n, FailNotification(l, n)
  PROVE  NoticesInv'
<1>1. PICK h : h = listener[l] OBVIOUS
<1>2. PICK group : group = h.group \ {n} OBVIOUS
<1>3. n \in h.group /\ Does(l, [h EXCEPT !.group = group, !.todo = <<>>, !.failed = TRUE])
  BY <1>1, <1>2 DEF FailNotification
<1>4. Working(h) BY <1>1, <1>3, IsWorking
<1>5. group \in SUBSET h.group BY <1>2
<1> QED BY <1>1, <1>3, <1>4, <1>5, GivesUp

LEMMA FailQueryInv == ASSUME NoticesInv, NEW l \in Listeners, FailQuery(l) PROVE NoticesInv'
<1>1. PICK h : h = listener[l] OBVIOUS
<1>2. /\ h.todo # <<>> /\ Does(l, [h EXCEPT !.todo = <<>>, !.failed = TRUE])
  BY <1>1 DEF FailQuery, Ready
<1>3. Working(h) BY <1>1, <1>2, IsWorking
<1>4. [h EXCEPT !.todo = <<>>, !.failed = TRUE]
        = [h EXCEPT !.group = h.group, !.todo = <<>>, !.failed = TRUE]
  BY <1>3 DEF Working, Listener
<1> QED BY <1>1, <1>2, <1>3, <1>4, GivesUp

-----------------------------------------------------------------------------
(* The steps of users, of the seller and of the jobs. *)

(* An event starts a handler or leaves all as they are. *)
LEMMA EmitInv ==
  ASSUME NoticesInv, NEW e \in Events, NEW who \in SUBSET Users, Emit(e, who),
         e # "PENDING" => exists, UNCHANGED <<exists, table>>,
         ending' \subseteq Users
  PROVE  NoticesInv'
<1>1. CASE UNCHANGED listener
  <2>1. NoticesTypeOK' BY <1>1 DEF NoticesInv, NoticesTypeOK
  <2>2. ASSUME NEW m \in Listeners PROVE Runs(listener[m])'
    <3>1. PICK k : k = listener[m] /\ k = listener'[m] BY <1>1
    <3>2. Runs(k) BY <3>1 DEF NoticesInv
    <3>3. Runs(k)'
      BY <3>2 DEF Runs, OnScript, Justified, Complete, Covered, Behind, Walked, Told, Group,
         To, WatchersOnly, Merged
    <3> QED BY <3>1, <3>3
  <2> QED BY <2>1, <2>2 DEF NoticesInv
<1>2. ASSUME NEW l \in Listeners, listener[l] = Waiting,
             listener' = [listener EXCEPT ![l] =
               [Waiting EXCEPT !.event = e, !.who = who, !.todo = Script[e],
                 !.stayed = [q \in Tables |-> IF q \in Concerned[e] THEN table[q] ELSE {}]]]
      PROVE  NoticesInv'
  <2>1. PICK g : g = [Waiting EXCEPT !.event = e, !.who = who, !.todo = Script[e],
                 !.stayed = [q \in Tables |-> IF q \in Concerned[e] THEN table[q] ELSE {}]]
    OBVIOUS
  <2>2. /\ g = [event |-> e, who |-> who, todo |-> Script[e], group |-> {}, read |-> NoRead,
                sent |-> {}, failed |-> FALSE,
                stayed |-> [q \in Tables |-> IF q \in Concerned[e] THEN table[q] ELSE {}]]
    BY <2>1 DEF Waiting
  <2>3. g.stayed \in [Tables -> SUBSET Users] BY <2>2 DEF NoticesInv, NoticesTypeOK
  <2>4. g \in Listener BY <2>2, <2>3, ScriptType DEF Listener, NoRead
  <2>5. Proper(e) /\ Len(Script[e]) \in Nat BY ScriptsProper DEF Proper
  <2>6. Walked(g) = 0 /\ Behind(g) = {} /\ OnScript(g)
    BY <2>2, <2>5 DEF Walked, Behind, OnScript
  <2>7. Justified(g) /\ Complete(g) BY <2>2, <2>6 DEF Justified, Complete, Told
  <2>8. Covered(g) BY <2>2, <2>6 DEF Covered
  <2>9. e = "PENDING" => g.stayed = NoRead BY <2>2 DEF Concerned, NoRead
  <2>10. Runs(g) BY <2>2, <2>6, <2>7, <2>8, <2>9, EventsAre DEF Runs
  <2>11. listener' = [listener EXCEPT ![l] = g] BY <1>2, <2>1
  <2>12. NoticesTypeOK' BY <2>4, <2>11 DEF NoticesInv, NoticesTypeOK
  <2>13. ASSUME NEW m \in Listeners PROVE Runs(listener[m])'
    <3>1. PICK k : k = listener'[m] OBVIOUS
    <3>2. Runs(k) BY <2>10, <2>11, <3>1 DEF NoticesInv, NoticesTypeOK
    <3>3. Runs(k)'
      BY <3>2 DEF Runs, OnScript, Justified, Complete, Covered, Behind, Walked, Told, Group,
         To, WatchersOnly, Merged
    <3> QED BY <3>1, <3>3
  <2> QED BY <2>12, <2>13 DEF NoticesInv
<1> QED BY <1>1, <1>2 DEF Emit

(* More rows, or the auction: what handlers rely on stays. *)
LEMMA MoreRows ==
  ASSUME NoticesInv, UNCHANGED listener, exists => exists', exists' \in BOOLEAN,
         ending' \subseteq Users, table' \in [Tables -> SUBSET Users],
         \A q \in Tables : table[q] \subseteq table'[q]
  PROVE  NoticesInv'
<1>1. NoticesTypeOK' BY DEF NoticesInv, NoticesTypeOK
<1>2. ASSUME NEW m \in Listeners PROVE Runs(listener[m])'
  <2>1. PICK k : k = listener[m] /\ k = listener'[m] OBVIOUS
  <2>2. Runs(k) BY <2>1 DEF NoticesInv
  <2>3. Covered(k) => Covered(k)' BY DEF Covered, Behind, Walked
  <2>4. Justified(k)' = Justified(k) /\ Complete(k)' = Complete(k) /\ OnScript(k)' = OnScript(k)
    BY DEF Justified, Complete, OnScript, Behind, Walked, Told, Group, To, WatchersOnly, Merged
  <2>5. Runs(k)' BY <2>2, <2>3, <2>4 DEF Runs
  <2> QED BY <2>1, <2>5
<1> QED BY <1>1, <1>2 DEF NoticesInv

LEMMA JoinInv ==
  ASSUME NoticesInv, NEW q \in Tables, NEW u \in Users, Join(q, u), UNCHANGED <<exists, ending>>
  PROVE  NoticesInv'
<1>1. table' = [table EXCEPT ![q] = @ \cup {u}] /\ UNCHANGED listener BY DEF Join
<1>2. /\ table' \in [Tables -> SUBSET Users]
      /\ \A p \in Tables : table[p] \subseteq table'[p]
  BY <1>1 DEF NoticesInv, NoticesTypeOK
<1> QED BY <1>1, <1>2, MoreRows DEF NoticesInv, NoticesTypeOK

(* Who leaves is not among those who stayed. *)
LEMMA LeaveInv ==
  ASSUME NoticesInv, NEW q \in Tables, NEW gone, Leave(q, gone), UNCHANGED <<exists, ending>>
  PROVE  NoticesInv'
<1>1. /\ table' = [table EXCEPT ![q] = @ \ gone]
      /\ listener' = [l \in Listeners |-> [listener[l] EXCEPT !.stayed[q] = @ \ gone]]
  BY DEF Leave
<1>2. /\ table' \in [Tables -> SUBSET Users] /\ table'[q] = table[q] \ gone
      /\ \A p \in Tables : p # q => table'[p] = table[p]
  BY <1>1 DEF NoticesInv, NoticesTypeOK
<1>3. ASSUME NEW l \in Listeners
      PROVE  listener'[l] \in Listener /\ Runs(listener[l])'
  <2>1. PICK h : h = listener[l] OBVIOUS
  <2>2. PICK g : g = listener'[l] OBVIOUS
  <2>3. h \in Listener /\ Runs(h) BY <2>1 DEF NoticesInv, NoticesTypeOK
  <2>4. g = [h EXCEPT !.stayed = [h.stayed EXCEPT ![q] = @ \ gone]] BY <1>1, <2>1, <2>2
  <2>5. /\ g.event = h.event /\ g.who = h.who /\ g.read = h.read /\ g.todo = h.todo
        /\ g.group = h.group /\ g.sent = h.sent /\ g.failed = h.failed
        /\ g.stayed = [h.stayed EXCEPT ![q] = @ \ gone]
    BY <2>3, <2>4 DEF Listener
  <2>6. /\ h.stayed \in [Tables -> SUBSET Users] /\ g.stayed \in [Tables -> SUBSET Users]
        /\ g.stayed[q] = h.stayed[q] \ gone
        /\ \A p \in Tables : p # q => g.stayed[p] = h.stayed[p]
    BY <2>3, <2>5 DEF Listener
  <2>7. g \in Listener BY <2>3, <2>4, <2>6 DEF Listener
  <2>8. ASSUME h.stayed = NoRead PROVE g.stayed = NoRead BY <2>5, <2>6, <2>8 DEF NoRead
  <2>9. ASSUME h = Waiting PROVE g = Waiting
    <3>1. g = [h EXCEPT !.stayed = NoRead] BY <2>4, <2>5, <2>8, <2>9 DEF Waiting
    <3> QED BY <3>1, <2>9 DEF Waiting
  <2>10. Behind(g) = Behind(h) /\ Told(g) = Told(h) BY <2>5 DEF Behind, Walked, Told
  <2>11. OnScript(h) => OnScript(g)' BY <2>5 DEF OnScript, Walked
  <2>12. ASSUME h.event \in Events
         PROVE  \A s \in GroupsOf[h.event] : Group(g, s) = Group(h, s)
    BY <2>5, <2>12, GroupSame
  <2>13. ASSUME h.event \in Events, Justified(h) PROVE Justified(g)
    BY <2>5, <2>10, <2>12, <2>13 DEF Justified
  <2>14. ASSUME h.event \in Events, Complete(h) PROVE Complete(g)
    BY <2>5, <2>10, <2>12, <2>14 DEF Complete
  <2>15. Justified(g)' = Justified(g) /\ Complete(g)' = Complete(g)
    BY DEF Justified, Complete, Behind, Walked, Told, Group, To, WatchersOnly, Merged
  <2>16. ASSUME Covered(h) PROVE Covered(g)'
    <3> SUFFICES ASSUME NEW p \in Tables
                 PROVE  /\ g.stayed[p] \subseteq table'[p]
                        /\ p \notin Concerned[g.event] => g.stayed[p] = {}
                        /\ p \in Behind(g) /\ ~g.failed => g.stayed[p] \subseteq g.read[p]
      BY DEF Covered, Behind, Walked
    <3>1. CASE p = q BY <1>2, <2>5, <2>6, <2>10, <2>16, <3>1 DEF Covered
    <3>2. CASE p # q BY <1>2, <2>5, <2>6, <2>10, <2>16, <3>2 DEF Covered
    <3> QED BY <3>1, <3>2
  <2>17. h.event = "none" \/ h.event \in Events BY <2>3, ListenerFields
  <2>18. Runs(g)'
    BY <2>3, <2>5, <2>8, <2>9, <2>11, <2>13, <2>14, <2>15, <2>16, <2>17, EventsAre DEF Runs
  <2> QED BY <2>2, <2>7, <2>18
<1>4. NoticesTypeOK' BY <1>1, <1>2, <1>3 DEF NoticesInv, NoticesTypeOK
<1> QED BY <1>3, <1>4 DEF NoticesInv

LEMMA CreateAuctionInv == ASSUME NoticesInv, CreateAuction PROVE NoticesInv'
BY EmitInv, EventsAre DEF CreateAuction, NoticesInv, NoticesTypeOK

LEMMA CommitAuctionInv == ASSUME NoticesInv, CommitAuction PROVE NoticesInv'
BY MoreRows DEF CommitAuction, NoticesInv, NoticesTypeOK

LEMMA ChangeStatusInv == ASSUME NoticesInv, NEW e \in Events, ChangeStatus(e) PROVE NoticesInv'
BY EmitInv DEF ChangeStatus, NoticesInv, NoticesTypeOK

LEMMA CloseAuctionInv == ASSUME NoticesInv, CloseAuction PROVE NoticesInv'
BY LeaveInv DEF CloseAuction, Tables

LEMMA ReadBidsInv == ASSUME NoticesInv, NEW u \in Users, ReadBids(u) PROVE NoticesInv'
BY MoreRows DEF ReadBids, NoticesInv, NoticesTypeOK

LEMMA EndAuctionInv == ASSUME NoticesInv, EndAuction, exists PROVE NoticesInv'
BY EmitInv, EventsAre DEF EndAuction, NoticesInv, NoticesTypeOK

LEMMA UserInv ==
  ASSUME NoticesInv, NEW u \in Users,
         \/ PlaceBid(u) \/ CommitBid(u) \/ FollowSeller(u) \/ UnfollowSeller(u)
         \/ AddToWatchlist(u) \/ RemoveFromWatchlist(u)
  PROVE  NoticesInv'
<1>1. CASE PlaceBid(u) BY <1>1, EmitInv, EventsAre DEF PlaceBid, NoticesInv, NoticesTypeOK
<1>2. CASE CommitBid(u) BY <1>2, JoinInv DEF CommitBid, Tables
<1>3. CASE FollowSeller(u) BY <1>3, JoinInv DEF FollowSeller, Tables
<1>4. CASE UnfollowSeller(u) BY <1>4, LeaveInv DEF UnfollowSeller, Tables
<1>5. CASE AddToWatchlist(u) BY <1>5, JoinInv DEF AddToWatchlist, Tables
<1>6. CASE RemoveFromWatchlist(u) BY <1>6, LeaveInv DEF RemoveFromWatchlist, Tables
<1> QED BY <1>1, <1>2, <1>3, <1>4, <1>5, <1>6

-----------------------------------------------------------------------------
(* The invariant. *)

(* An endAuction in flight has found its auction. *)
EndingExists == ending # {} => exists

LEMMA NoticesInitInv == NoticesInit => NoticesInv /\ EndingExists
<1> SUFFICES ASSUME NoticesInit PROVE NoticesInv /\ EndingExists OBVIOUS
<1>1. Waiting \in Listener /\ Waiting.event = "none"
  <2>1. <<>> \in Seq(Steps) BY EmptySeq
  <2> QED BY <2>1 DEF Waiting, Listener, NoRead
<1>2. NoticesTypeOK BY <1>1 DEF NoticesInit, NoticesTypeOK, NoRead
<1> QED BY <1>1, <1>2 DEF NoticesInit, NoticesInv, Runs, EndingExists

LEMMA NoticesStepInv == NoticesInv /\ EndingExists /\ [NoticesNext]_noticesVars => NoticesInv' /\ EndingExists'
<1> SUFFICES ASSUME NoticesInv, EndingExists, [NoticesNext]_noticesVars PROVE NoticesInv' /\ EndingExists'
  OBVIOUS
<1>1. EndingExists'
  BY DEF NoticesNext, noticesVars, EndingExists, CreateAuction, CommitAuction, ChangeStatus,
     CloseAuction, ReadBids, EndAuction, PlaceBid, CommitBid, FollowSeller, UnfollowSeller,
     AddToWatchlist, RemoveFromWatchlist, FindAuction, Query, Address, CreateNotification,
     FailNotification, FailQuery, Does
<1>2. CASE CreateAuction BY <1>1, <1>2, CreateAuctionInv
<1>3. CASE CommitAuction BY <1>1, <1>3, CommitAuctionInv
<1>4. CASE CloseAuction BY <1>1, <1>4, CloseAuctionInv
<1>5. CASE EndAuction BY <1>1, <1>5, EndAuctionInv DEF EndAuction, EndingExists
<1>6. ASSUME NEW e \in Events, ChangeStatus(e) PROVE NoticesInv' BY <1>6, ChangeStatusInv
<1>7. ASSUME NEW u \in Users,
             \/ PlaceBid(u) \/ CommitBid(u) \/ FollowSeller(u) \/ UnfollowSeller(u)
             \/ AddToWatchlist(u) \/ RemoveFromWatchlist(u)
      PROVE  NoticesInv'
  BY <1>7, UserInv
<1>8. ASSUME NEW u \in Users, ReadBids(u) PROVE NoticesInv' BY <1>8, ReadBidsInv
<1>9. ASSUME NEW l \in Listeners, FindAuction(l) PROVE NoticesInv' BY <1>9, FindAuctionInv
<1>10. ASSUME NEW l \in Listeners, Query(l) PROVE NoticesInv' BY <1>10, QueryInv
<1>11. ASSUME NEW l \in Listeners, Address(l) PROVE NoticesInv' BY <1>11, AddressInv
<1>12. ASSUME NEW l \in Listeners, FailQuery(l) PROVE NoticesInv' BY <1>12, FailQueryInv
<1>13. ASSUME NEW l \in Listeners, NEW n, CreateNotification(l, n) PROVE NoticesInv'
  BY <1>13, CreateNotificationInv
<1>14. ASSUME NEW l \in Listeners, NEW n, FailNotification(l, n) PROVE NoticesInv'
  BY <1>14, FailNotificationInv
<1>15. CASE UNCHANGED noticesVars BY <1>1, <1>15, MoreRows DEF noticesVars, NoticesInv, NoticesTypeOK
<1> QED
  BY <1>1, <1>2, <1>3, <1>4, <1>5, <1>6, <1>7, <1>8, <1>9, <1>10, <1>11, <1>12, <1>13,
     <1>14, <1>15
  DEF NoticesNext, Users

LEMMA NoticesInvariance == NoticesSpec => []NoticesInv
<1> DEFINE IInv == NoticesInv /\ EndingExists
<1>1. NoticesInit => IInv BY NoticesInitInv
<1>2. IInv /\ [NoticesNext]_noticesVars => IInv' BY NoticesStepInv
<1>3. IInv => NoticesInv OBVIOUS
<1> HIDE DEF IInv
<1> QED BY <1>1, <1>2, <1>3, PTL DEF NoticesSpec

-----------------------------------------------------------------------------
(* Each handler keeps a position in its script and notices of known users. *)
THEOREM NoticesTypeCorrect == NoticesSpec => []NoticesTypeOK
<1>1. NoticesInv => NoticesTypeOK BY DEF NoticesInv
<1> QED BY <1>1, NoticesInvariance, PTL

(* What the role of a handler's notice says of the user it goes to. *)
RoleSays(h, n) ==
  /\ n.role = "SELLER" => n.to = Seller
  /\ n.role = "OUTBID" => h.event = "BID_CREATED"
  /\ n.role = "WINNER" => h.event = "ENDED" /\ n.to \in h.who
  /\ n.role = "LOSER" => h.event = "ENDED" /\ n.to \in h.read["bids"] \ h.who
  /\ n.role = "BIDDER" => h.event = "CLOSED" /\ n.to \in h.read["bids"]
  /\ n.role \in {"FOLLOWER", "WATCHER"} =>
       /\ h.event # "BID_CREATED"
       /\ h.event = "ENDED" => n.to \notin h.who \cup h.read["bids"]
       /\ h.event = "CLOSED" => n.to \notin h.read["bids"]
       /\ h.event # "ENDED" => (n.role = "FOLLOWER" <=> n.to \in h.read["follows"])

LEMMA RoleOf ==
  ASSUME NEW h \in Listener, h.event \in Events, NEW step \in GroupsOf[h.event],
         NEW n \in Group(h, step)
  PROVE  RoleSays(h, n)
<1>1. /\ h.who \subseteq Users /\ h.read["bids"] \subseteq Users
      /\ h.read["follows"] \subseteq Users /\ h.read["watchlist"] \subseteq Users
  BY ListenerFields DEF Tables
<1>2. CASE step = "SELLER" BY <1>2 DEF Group, To, RoleSays
<1>3. CASE step = "OUTBID"
  <2>1. h.event = "BID_CREATED" BY <1>3, EventsAre DEF GroupsOf
  <2>2. n.role = "OUTBID" /\ n.to \in Users BY <1>1, <1>3 DEF Group, To
  <2> QED BY <2>1, <2>2 DEF RoleSays
<1>4. CASE step = "WINNER"
  <2>1. h.event = "ENDED" BY <1>4, EventsAre DEF GroupsOf
  <2>2. n.role = "WINNER" /\ n.to \in h.who BY <1>4 DEF Group, To
  <2> QED BY <1>1, <2>1, <2>2 DEF RoleSays
<1>5. CASE step = "LOSER"
  <2>1. h.event = "ENDED" BY <1>5, EventsAre DEF GroupsOf
  <2>2. n.role = "LOSER" /\ n.to \in h.read["bids"] \ h.who BY <1>5 DEF Group, To
  <2> QED BY <1>1, <2>1, <2>2 DEF RoleSays
<1>6. CASE step = "WATCHER"
  <2>1. h.event \in {"ENDED", "OPEN"} BY <1>6, EventsAre DEF GroupsOf
  <2>2. n.role = "WATCHER" /\ n.to \in WatchersOnly(h) BY <1>6 DEF Group, To
  <2>3. n.to \in Users BY <1>1, <2>2 DEF WatchersOnly
  <2>4. CASE h.event = "ENDED" BY <2>2, <2>3, <2>4 DEF RoleSays, WatchersOnly
  <2>5. CASE h.event = "OPEN" BY <2>2, <2>3, <2>5 DEF RoleSays, WatchersOnly
  <2> QED BY <2>1, <2>4, <2>5
<1>7. CASE step = "WATCHER_AS_FOLLOWER"
  <2>1. h.event = "ENDED" BY <1>7, EventsAre DEF GroupsOf
  <2>2. n.role = "FOLLOWER" /\ n.to \in WatchersOnly(h) BY <1>7 DEF Group, To
  <2> QED BY <1>1, <2>1, <2>2 DEF RoleSays, WatchersOnly
<1>8. CASE step = "FOLLOWER"
  <2>1. h.event \in {"READY", "CONFIRMED_OPEN", "OPEN"} BY <1>8, EventsAre DEF GroupsOf
  <2>2. n.role = "FOLLOWER" /\ n.to \in h.read["follows"] BY <1>8 DEF Group, To
  <2> QED BY <1>1, <2>1, <2>2 DEF RoleSays
<1>9. CASE step = "ALL"
  <2>1. h.event = "CLOSED" BY <1>9, EventsAre DEF GroupsOf
  <2>2. \/ n.role = "BIDDER" /\ n.to \in h.read["bids"]
        \/ n.role = "FOLLOWER" /\ n.to \in h.read["follows"] \ h.read["bids"]
        \/ n.role = "WATCHER"
           /\ n.to \in h.read["watchlist"] \ (h.read["follows"] \cup h.read["bids"])
    BY <1>9 DEF Group, To, Merged
  <2> QED BY <1>1, <2>1, <2>2 DEF RoleSays
<1>10. step \in {"OUTBID", "WINNER", "LOSER", "WATCHER", "WATCHER_AS_FOLLOWER", "FOLLOWER",
                 "ALL", "SELLER"}
  BY EventsAre DEF GroupsOf
<1> QED BY <1>2, <1>3, <1>4, <1>5, <1>6, <1>7, <1>8, <1>9, <1>10

(* The groups of one event do not overlap, as their handler has read them, *)
(* but for the two lists of watchers at the end and for the seller, who    *)
(* may be in any of them; and what a notice was sent for is not read       *)
(* again.                                                                  *)
THEOREM NoticeOnceCorrect == NoticesSpec => []NoticeOnce
<1>1. NoticesInv => NoticeOnce
  <2> SUFFICES ASSUME NoticesInv, NEW l \in Listeners,
                      NEW m \in listener[l].sent \cup listener[l].group,
                      NEW n \in listener[l].sent \cup listener[l].group,
                      m.to = n.to, m.role # n.role
               PROVE  \/ listener[l].event = "ENDED" /\ {m.role, n.role} = {"WATCHER", "FOLLOWER"}
                      \/ m.to = Seller /\ "SELLER" \in {m.role, n.role}
    BY DEF NoticeOnce
  <2>1. PICK h : h = listener[l] OBVIOUS
  <2>2. h \in Listener /\ Runs(h) BY <2>1 DEF NoticesInv, NoticesTypeOK
  <2>3. h.event \in Events /\ Justified(h)
    BY <2>1, <2>2, ListenerFields DEF Runs, Waiting
  <2>4. m \in Notice /\ n \in Notice BY <2>1, <2>2, ListenerFields
  <2>5. m.role \in Roles /\ n.role \in Roles BY <2>4 DEF Notice
  <2>6. h.who \subseteq Users BY <2>2, ListenerFields
  <2>7. RoleSays(h, m) /\ RoleSays(h, n)
    BY <2>1, <2>2, <2>3, RoleOf DEF Justified, Told
  <2>8. CASE m.role = "SELLER" \/ n.role = "SELLER"
    <3>1. m.to = Seller BY <2>7, <2>8 DEF RoleSays
    <3> QED BY <2>8, <3>1
  <2>9. CASE m.role # "SELLER" /\ n.role # "SELLER"
    <3>1. m.role \in {"WATCHER", "FOLLOWER"} /\ n.role \in {"WATCHER", "FOLLOWER"}
      BY <2>5, <2>6, <2>7, <2>9 DEF Roles, RoleSays
    <3>2. h.event = "ENDED" BY <2>7, <3>1 DEF RoleSays
    <3> QED BY <2>1, <3>1, <3>2
  <2> QED BY <2>8, <2>9
<1> QED BY <1>1, NoticesInvariance, PTL

LEMMA ToHas == ASSUME NEW users, NEW role, NEW u \in users PROVE \E n \in To(users, role) : n.to = u
<1>1. [to |-> u, role |-> role] \in To(users, role) BY DEF To
<1> QED BY <1>1

(* A handler that is through has read each table of those who stayed after *)
(* the event, and each user it read is in one of its groups.               *)
THEOREM NobodyForgottenCorrect == NoticesSpec => []NobodyForgotten
<1>1. NoticesInv => NobodyForgotten
  <2> SUFFICES ASSUME NoticesInv, NEW l \in Listeners, Done(l), ~listener[l].failed,
                      NEW u \in Users, NEW q \in Tables, u \in listener[l].stayed[q]
               PROVE  \/ listener[l].event = "BID_CREATED" /\ u \in listener[l].who
                      \/ \E n \in listener[l].sent : n.to = u
    BY DEF NobodyForgotten
  <2>1. PICK h : h = listener[l] OBVIOUS
  <2>2. h \in Listener /\ Runs(h) BY <2>1 DEF NoticesInv, NoticesTypeOK
  <2>3. h.event \in Events /\ h.todo = <<>> /\ h.group = {} /\ ~h.failed /\ u \in h.stayed[q]
    BY <2>1, <2>2, ListenerFields DEF Done
  <2>4. h.event # "PENDING" BY <2>2, <2>3, EventsAre DEF Runs, NoRead
  <2>5. Complete(h) /\ Covered(h) BY <2>2, <2>3, <2>4, EventsAre DEF Runs
  <2>6. GroupsOf[h.event] \subseteq Behind(h) /\ Concerned[h.event] \subseteq Behind(h)
    BY <2>3, AtTheEnd
  <2>7. q \in Concerned[h.event] BY <2>3, <2>5 DEF Covered
  <2>8. u \in h.read[q] BY <2>3, <2>5, <2>6, <2>7 DEF Covered
  <2>9. \A step \in GroupsOf[h.event] : Group(h, step) \subseteq h.sent
    BY <2>3, <2>5, <2>6 DEF Complete, Told
  <2>10. ASSUME NEW step \in GroupsOf[h.event], \E n \in Group(h, step) : n.to = u
         PROVE  \E n \in listener[l].sent : n.to = u
    BY <2>1, <2>9, <2>10
  <2>11. CASE h.event = "BID_CREATED"
    <3>1. q = "bids" /\ "OUTBID" \in GroupsOf[h.event]
      BY <2>7, <2>11 DEF Concerned, GroupsOf
    <3>2. u \notin h.who => \E n \in Group(h, "OUTBID") : n.to = u
      BY ToHas, <2>8, <3>1 DEF Group
    <3> QED BY <2>1, <2>10, <2>11, <3>1, <3>2
  <2>12. CASE h.event = "ENDED"
    <3>1. /\ q \in {"bids", "watchlist"}
          /\ {"WINNER", "LOSER", "WATCHER"} \subseteq GroupsOf[h.event]
      BY <2>7, <2>12 DEF Concerned, GroupsOf
    <3>2. CASE u \in h.who
      <4>1. \E n \in Group(h, "WINNER") : n.to = u BY ToHas, <3>2 DEF Group
      <4> QED BY <2>10, <3>1, <4>1
    <3>3. CASE u \notin h.who /\ u \in h.read["bids"]
      <4>1. \E n \in Group(h, "LOSER") : n.to = u BY ToHas, <3>3 DEF Group
      <4> QED BY <2>10, <3>1, <4>1
    <3>4. CASE u \notin h.who /\ u \notin h.read["bids"]
      <4>1. u \in WatchersOnly(h) BY <2>8, <2>12, <3>1, <3>4 DEF WatchersOnly
      <4>2. \E n \in Group(h, "WATCHER") : n.to = u BY ToHas, <4>1 DEF Group
      <4> QED BY <2>10, <3>1, <4>2
    <3> QED BY <3>2, <3>3, <3>4
  <2>13. CASE h.event = "CLOSED"
    <3>1. "ALL" \in GroupsOf[h.event] BY <2>13 DEF GroupsOf
    <3>2. u \in h.read["bids"] \cup h.read["follows"] \cup h.read["watchlist"]
      BY <2>8 DEF Tables
    <3>3. \E n \in Group(h, "ALL") : n.to = u BY ToHas, <3>2 DEF Group, Merged
    <3> QED BY <2>10, <3>1, <3>3
  <2>14. CASE h.event \in {"READY", "CONFIRMED_OPEN", "OPEN"} /\ u \in h.read["follows"]
    <3>1. "FOLLOWER" \in GroupsOf[h.event] BY <2>14 DEF GroupsOf
    <3>2. \E n \in Group(h, "FOLLOWER") : n.to = u BY ToHas, <2>14 DEF Group
    <3> QED BY <2>10, <3>1, <3>2
  <2>15. CASE h.event \in {"READY", "CONFIRMED_OPEN", "OPEN"} /\ u \notin h.read["follows"]
    <3>1. h.event = "OPEN" /\ q = "watchlist" BY <2>7, <2>8, <2>15 DEF Concerned
    <3>2. "WATCHER" \in GroupsOf[h.event] BY <3>1 DEF GroupsOf
    <3>3. u \in WatchersOnly(h) BY <2>8, <2>15, <3>1 DEF WatchersOnly
    <3>4. \E n \in Group(h, "WATCHER") : n.to = u BY ToHas, <3>3 DEF Group
    <3> QED BY <2>10, <3>2, <3>4
  <2>16. h.event # "CANCELED" BY <2>7 DEF Concerned
  <2> QED BY <2>3, <2>4, <2>11, <2>12, <2>13, <2>14, <2>15, <2>16, EventsAre
<1> QED BY <1>1, NoticesInvariance, PTL

-----------------------------------------------------------------------------
(* The composition. *)

(* A behaviour of the services side by side is a behaviour of each of      *)
(* them: what is proved of the chat, the notices or the page alone holds   *)
(* where they are deployed together, in one process over one database.     *)
THEOREM ServicesImplementEach ==
  Spec => WarningsSpec /\ ReportsSpec /\ ChatSpec /\ NoticesSpec /\ PageSpec
<1>1. Init => WarningsInit /\ ReportsInit /\ ChatInit /\ NoticesInit /\ PageInit BY DEF Init
<1> DEFINE all == <<warningsVars, reportsVars, chatVars, noticesVars, pageVars, part>>
<1>2. ASSUME [Next]_all
      PROVE  /\ [WarningsNext]_warningsVars /\ [ReportsNext]_reportsVars /\ [ChatNext]_chatVars
             /\ [NoticesNext]_noticesVars /\ [PageNext]_pageVars
  <2>1. CASE UNCHANGED all BY <2>1
  <2>2. CASE Next BY <2>2 DEF Next
  <2> QED BY <1>2, <2>1, <2>2
<1> QED BY <1>1, <1>2, PTL DEF Spec, WarningsSpec, ReportsSpec, ChatSpec, NoticesSpec, PageSpec

(* The tables of all the services hold what their columns and the           *)
(* handlers' local variables may hold, whichever service runs.              *)
THEOREM ServicesTypeCorrect == Spec => []TypeOK
<1>1. Spec => []WarningsTypeOK BY ServicesImplementEach, WarningsTypeCorrect
<1>2. Spec => []ReportsTypeOK BY ServicesImplementEach, ReportsTypeCorrect
<1>3. Spec => []ChatTypeOK BY ServicesImplementEach, ChatTypeCorrect
<1>4. Spec => []NoticesTypeOK BY ServicesImplementEach, NoticesTypeCorrect
<1>5. Spec => []PageTypeOK BY ServicesImplementEach, PageTypeCorrect
<1>6. WarningsTypeOK /\ ReportsTypeOK /\ ChatTypeOK /\ NoticesTypeOK /\ PageTypeOK => TypeOK
  BY DEF TypeOK
<1> QED BY <1>1, <1>2, <1>3, <1>4, <1>5, <1>6, PTL

=============================================================================

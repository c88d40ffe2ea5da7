------------------------------- MODULE Notices -------------------------------
(***************************************************************************)
(* NotificationAuctionsListener: who is told what when something happens   *)
(* to one auction.                                                         *)
(*                                                                         *)
(* An event is emitted and not waited for.  Its handler then runs query    *)
(* by query while users go on bidding, following and watching: each query  *)
(* sees another state.  Between the queries it sends its notices, one      *)
(* group of users after the other (Promise.all); a notice that cannot be   *)
(* stored ends the handler after the group.  BID_CREATED and PENDING are   *)
(* emitted inside a transaction, before the row they speak of is visible.  *)
(*                                                                         *)
(* The events come in any order here, which one follows which is the       *)
(* matter of AuctionLifecycle.  Handlers share nothing but the tables.     *)
(***************************************************************************)
EXTENDS Sequences, FiniteSets

CONSTANTS
  People,      \* users with the role BIDDER: they bid, follow and watch
  Seller,      \* the auction's seller; he may bid too, over the socket
  Listeners    \* the handlers that are followed, one for an event each

VARIABLES
  exists,      \* the row of `auctions' is committed
  table,       \* users with a row in each of the tables below
  ending,      \* the winner an endAuction in flight has chosen, {} when idle
  listener     \* the handlers

noticesVars == <<exists, table, ending, listener>>

Tables == {"bids", "follows", "watchlist"}

Roles == {"OUTBID", "WINNER", "LOSER", "WATCHER", "FOLLOWER", "BIDDER", "SELLER"}

Users == People \cup {Seller}

Notice == [to: Users, role: Roles]

(* The steps of each handler: queries, and groups it sends notices to. *)
Script == [
  BID_CREATED |-> <<"auction", "bids", "OUTBID">>,
  ENDED |-> <<"auction", "bids", "watchlist", "follows",
              "WINNER", "LOSER", "WATCHER", "WATCHER_AS_FOLLOWER", "SELLER">>,
  CLOSED |-> <<"auction", "bids", "follows", "watchlist", "SELLER", "ALL">>,
  PENDING |-> <<"auction", "SELLER">>,
  CANCELED |-> <<"auction", "SELLER">>,
  READY |-> <<"auction", "follows", "SELLER", "FOLLOWER">>,
  CONFIRMED_OPEN |-> <<"auction", "SELLER", "follows", "FOLLOWER">>,
  OPEN |-> <<"auction", "SELLER", "follows", "FOLLOWER", "watchlist", "WATCHER">>]

Events == DOMAIN Script

Steps == UNION {{Script[e][i] : i \in DOMAIN Script[e]} : e \in Events}

NoRead == [q \in Tables |-> {}]

Waiting == [event |-> "none", who |-> {}, todo |-> <<>>, group |-> {}, read |-> NoRead,
            sent |-> {}, failed |-> FALSE, stayed |-> NoRead]

Listener ==
  [event: Events \cup {"none"},
   who: SUBSET Users,                \* the bidder or the winner in the event
   todo: Seq(Steps),
   group: SUBSET Notice,             \* of the current group, not yet stored
   read: [Tables -> SUBSET Users],   \* what its queries returned
   sent: SUBSET Notice,
   failed: BOOLEAN,
   stayed: [Tables -> SUBSET Users]]   \* history: concerned ever since

NoticesTypeOK ==
  /\ exists \in BOOLEAN
  /\ table \in [Tables -> SUBSET Users]
  /\ ending \subseteq Users
  /\ listener \in [Listeners -> Listener]

NoticesInit ==
  /\ exists = FALSE
  /\ table = NoRead
  /\ ending = {}
  /\ listener = [l \in Listeners |-> Waiting]

(* Whose rows an event concerns. *)
Concerned == [BID_CREATED |-> {"bids"}, ENDED |-> {"bids", "watchlist"}, CLOSED |-> Tables,
              PENDING |-> {}, CANCELED |-> {}, READY |-> {"follows"},
              CONFIRMED_OPEN |-> {"follows"}, OPEN |-> {"follows", "watchlist"}]

-----------------------------------------------------------------------------
(* The event's handler is one of those followed here, or is left out: it   *)
(* changes nothing that another one reads.                                 *)
Emit(event, who) ==
  \/ UNCHANGED listener
  \/ \E l \in Listeners :
       /\ listener[l] = Waiting
       /\ listener' = [listener EXCEPT ![l] =
            [Waiting EXCEPT !.event = event, !.who = who, !.todo = Script[event],
              !.stayed = [q \in Tables |-> IF q \in Concerned[event] THEN table[q] ELSE {}]]]

Join(q, u) ==
  /\ table' = [table EXCEPT ![q] = @ \cup {u}]
  /\ UNCHANGED listener

Leave(q, gone) ==
  /\ table' = [table EXCEPT ![q] = @ \ gone]
  /\ listener' = [l \in Listeners |-> [listener[l] EXCEPT !.stayed[q] = @ \ gone]]

-----------------------------------------------------------------------------
(* createAuction *)

CreateAuction ==
  /\ ~exists
  /\ Emit("PENDING", {})
  /\ UNCHANGED <<exists, table, ending>>

CommitAuction ==
  /\ ~exists
  /\ exists' = TRUE
  /\ UNCHANGED <<table, ending, listener>>

(* cancelAuction, editAuction, confirmAuction, reopenAuction and the job   *)
(* that opens ready auctions write the status and emit; so does the job    *)
(* that closes auctions nobody confirmed in time.                          *)
ChangeStatus(event) ==
  /\ exists
  /\ event \in {"PENDING", "CANCELED", "READY", "CONFIRMED_OPEN", "OPEN", "CLOSED"}
  /\ Emit(event, {})
  /\ UNCHANGED <<exists, table, ending>>

(* closeAuction deletes the bids; its event, and that of an endAuction     *)
(* without bids, is the CLOSED of ChangeStatus.                            *)
CloseAuction ==
  /\ exists
  /\ Leave("bids", table["bids"])
  /\ UNCHANGED <<exists, ending>>

(* endAuction: the winner is one of the bidders it has read. *)
ReadBids(u) ==
  /\ exists /\ ending = {} /\ u \in table["bids"]
  /\ ending' = {u}
  /\ UNCHANGED <<exists, table, listener>>

EndAuction ==
  /\ ending # {}
  /\ Emit("ENDED", ending)
  /\ ending' = {}
  /\ UNCHANGED <<exists, table>>

(* placeBid emits before it commits, and may still be rolled back.  A bid  *)
(* becomes visible at any time after its event.  The socket's place_bid    *)
(* asks for no role and validateBid for no owner.                          *)
PlaceBid(u) ==
  /\ exists
  /\ Emit("BID_CREATED", {u})
  /\ UNCHANGED <<exists, table, ending>>

CommitBid(u) ==
  /\ exists /\ u \notin table["bids"]
  /\ Join("bids", u)
  /\ UNCHANGED <<exists, ending>>

(* followSeller and addToWatchlist: a second row of the user is refused by *)
(* the unique key when the query before did not see the first.             *)
FollowSeller(u) ==
  /\ u \notin table["follows"]
  /\ Join("follows", u)
  /\ UNCHANGED <<exists, ending>>

UnfollowSeller(u) ==
  /\ u \in table["follows"]
  /\ Leave("follows", {u})
  /\ UNCHANGED <<exists, ending>>

AddToWatchlist(u) ==
  /\ exists /\ u \notin table["watchlist"]
  /\ Join("watchlist", u)
  /\ UNCHANGED <<exists, ending>>

RemoveFromWatchlist(u) ==
  /\ u \in table["watchlist"]
  /\ Leave("watchlist", {u})
  /\ UNCHANGED <<exists, ending>>

-----------------------------------------------------------------------------
To(users, role) == {[to |-> u, role |-> role] : u \in users}

(* Mutant: watchers that are told as bidders are told again. *)
WatchersOnly_All(h) ==
  h.read["watchlist"] \ (IF h.event = "ENDED" THEN h.who ELSE h.read["follows"])

(* watcherOnlyIds: watchers that this handler has told nothing yet. *)
WatchersOnly(h) ==
  h.read["watchlist"] \ (IF h.event = "ENDED" THEN h.who \cup h.read["bids"]
                                              ELSE h.read["follows"])

(* Mutant: the highest role alone. *)
Merged_Bidders(r) ==
  IF r["bids"] # {} THEN To(r["bids"], "BIDDER")
  ELSE To(r["follows"], "FOLLOWER") \cup To(r["watchlist"] \ r["follows"], "WATCHER")

(* userRoleMap: every user once, in his highest role. *)
Merged(r) ==
  To(r["bids"], "BIDDER") \cup To(r["follows"] \ r["bids"], "FOLLOWER")
    \cup To(r["watchlist"] \ (r["follows"] \cup r["bids"]), "WATCHER")

(* The notices of a group, from what the handler h has read. *)
Group(h, step) ==
  CASE step = "OUTBID"   -> To(h.read["bids"] \ h.who, "OUTBID")
    [] step = "WINNER"   -> To(h.who, "WINNER")
    [] step = "LOSER"    -> To(h.read["bids"] \ h.who, "LOSER")
    [] step = "WATCHER"  -> To(WatchersOnly(h), "WATCHER")
    [] step = "WATCHER_AS_FOLLOWER" -> To(WatchersOnly(h), "FOLLOWER")
    [] step = "FOLLOWER" -> To(h.read["follows"], "FOLLOWER")
    [] step = "ALL"      -> Merged(h.read)
    [] step = "SELLER"   -> To({Seller}, "SELLER")

Does(l, h) ==
  /\ listener' = [listener EXCEPT ![l] = h]
  /\ UNCHANGED <<exists, table, ending>>

Ready(l) == listener[l].group = {} /\ listener[l].todo # <<>>
NextStep(l) == Head(listener[l].todo)

FindAuction(l) ==
  /\ Ready(l) /\ NextStep(l) = "auction"
  /\ Does(l, [listener[l] EXCEPT !.todo = IF exists THEN Tail(@) ELSE <<>>])

Query(l) ==
  /\ Ready(l) /\ NextStep(l) \in Tables
  /\ Does(l, [listener[l] EXCEPT !.todo = Tail(@),
                                     !.read[NextStep(l)] = table[NextStep(l)]])

Address(l) ==
  /\ Ready(l) /\ NextStep(l) \notin Tables \cup {"auction"}
  /\ Does(l, [listener[l] EXCEPT !.todo = Tail(@),
                                     !.group = Group(listener[l], NextStep(l))])

(* createNotification stores the row, then pushes it. *)
CreateNotification(l, n) ==
  /\ n \in listener[l].group
  /\ Does(l, [listener[l] EXCEPT !.group = @ \ {n}, !.sent = @ \cup {n}])

(* A notice cannot be stored: the others of its group still are. *)
FailNotification(l, n) ==
  /\ n \in listener[l].group
  /\ Does(l, [listener[l] EXCEPT !.group = @ \ {n}, !.todo = <<>>, !.failed = TRUE])

(* A query fails. *)
FailQuery(l) ==
  /\ Ready(l)
  /\ Does(l, [listener[l] EXCEPT !.todo = <<>>, !.failed = TRUE])

NoticesNext ==
  \/ CreateAuction \/ CommitAuction \/ CloseAuction \/ EndAuction
  \/ \E e \in Events : ChangeStatus(e)
  \/ \E u \in Users : PlaceBid(u) \/ CommitBid(u) \/ ReadBids(u)
  \/ \E u \in People :
       \/ FollowSeller(u) \/ UnfollowSeller(u)
       \/ AddToWatchlist(u) \/ RemoveFromWatchlist(u)
  \/ \E l \in Listeners :
       \/ FindAuction(l) \/ Query(l) \/ Address(l) \/ FailQuery(l)
       \/ \E n \in Notice : CreateNotification(l, n) \/ FailNotification(l, n)

NoticesSpec == NoticesInit /\ [][NoticesNext]_noticesVars

-----------------------------------------------------------------------------
Done(l) == listener[l].event # "none" /\ listener[l].todo = <<>> /\ listener[l].group = {}

(* "only once for each user": whatever a user is to the auction, and       *)
(* however the tables change between the queries, one event gives him one  *)
(* notice.  There are two exceptions: at the end the list of those who     *)
(* only watch is used twice, and no list leaves out the seller, who may    *)
(* have bid and is told as the seller as well.                             *)
NoticeOnce ==
  \A l \in Listeners : \A m, n \in listener[l].sent \cup listener[l].group :
    m.to = n.to /\ m.role # n.role =>
      \/ listener[l].event = "ENDED" /\ {m.role, n.role} = {"WATCHER", "FOLLOWER"}
      \/ m.to = Seller /\ "SELLER" \in {m.role, n.role}

(* A handler that ran to its end has told everyone whose bid, follow or    *)
(* watch was there when the event was emitted and was not withdrawn since, *)
(* although it read the tables later and one after the other: so every     *)
(* bidder that a bid may have displaced.                                   *)
NobodyForgotten ==
  \A l \in Listeners : Done(l) /\ ~listener[l].failed =>
    \A u \in Users : (\E q \in Tables : u \in listener[l].stayed[q]) =>
      \/ listener[l].event = "BID_CREATED" /\ u \in listener[l].who
      \/ \E n \in listener[l].sent : n.to = u

(* Who is told "You were following the owner of this auction" is one of    *)
(* the followers that the handler has read.                                *)
FollowersFollow ==
  \A l \in Listeners : \A n \in listener[l].sent :
    n.role = "FOLLOWER" => n.to \in listener[l].read["follows"]

=============================================================================

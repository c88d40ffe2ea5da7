-------------------------------- MODULE Chat --------------------------------
(***************************************************************************)
(* ChatService: the room of two users and its messages.  A room is deleted *)
(* by each user for himself; the second to delete it removes it for good.  *)
(*                                                                         *)
(* Every query is an action; no request of the service is a transaction.   *)
(* A row of `chat_rooms' has a flag and a time of deletion for each of its *)
(* two users (deletedByUser1, user2DeletedAt, ...), here functions of the  *)
(* user.  Times are seconds (TIMESTAMP(0)), 0 is NULL.                     *)
(***************************************************************************)
EXTENDS Naturals, FiniteSets

CONSTANTS
  First, Second,     \* the two users, in the order of their ids
  ChatTasks,         \* requests the server works on at the same time
  MaxRooms, MaxMessages, ChatHorizon   \* bounds: rows ever created, clock

Pair == {First, Second}

ASSUME ChatAssumption ==
  /\ First # Second
  /\ MaxRooms \in Nat /\ MaxMessages \in Nat /\ ChatHorizon \in Nat

VARIABLES
  clock,
  rooms,      \* the rows of `chat_rooms' of the two users
  messages,   \* the rows of `messages'
  chat,       \* requests in flight
  roomIds, messageIds,   \* how many rows were created so far
  acked,      \* history: messages whose sender was told SUCCESS_MESSAGE_SENT
  left,       \* history: the users that have ever deleted the room
  forgotten,  \* history: the messages each of them has deleted with it
  backdated   \* history: the users of whom a request wrote a time of deletion
              \* that was earlier than the one another had written

chatVars == <<clock, rooms, messages, chat, roomIds, messageIds, acked, left, forgotten, backdated>>

Room == [id: Nat \ {0}, users: Pair \X Pair,
         deleted: [Pair -> BOOLEAN], deletedAt: [Pair -> Nat]]

Message == [id: Nat \ {0}, room: Nat, sender: Pair, timestamp: Nat, read: BOOLEAN]

ChatTask ==
  [pc: {"idle", "create", "reopen", "reactivate", "message", "touch",
        "mark", "purge", "drop"},
   user: Pair,           \* the authenticated caller
   room: Nat,            \* the room's id
   at: Nat,              \* when it looked at the room
   ids: SUBSET Nat]      \* the message it created; those it saw then

NoChatTask == [pc |-> "idle", user |-> First, room |-> 0, at |-> 0, ids |-> {}]

ChatTypeOK ==
  /\ clock \in Nat
  /\ rooms \subseteq Room /\ IsFiniteSet(rooms)
  /\ \A r \in rooms : r.id <= roomIds /\ \A u \in Pair : r.deletedAt[u] <= clock
  /\ messages \subseteq Message
  /\ \A m \in messages : m.id <= messageIds /\ m.timestamp <= clock
  /\ chat \in [ChatTasks -> ChatTask]
  /\ roomIds \in Nat /\ messageIds \in Nat
  /\ acked \subseteq Nat
  /\ left \subseteq Pair /\ backdated \subseteq Pair
  /\ forgotten \in [Pair -> SUBSET Nat]

ChatInit ==
  /\ clock = 1
  /\ rooms = {} /\ messages = {}
  /\ chat = [t \in ChatTasks |-> NoChatTask]
  /\ roomIds = 0 /\ messageIds = 0
  /\ acked = {} /\ left = {} /\ backdated = {}
  /\ forgotten = [u \in Pair |-> {}]

-----------------------------------------------------------------------------
InRoom(id) == {m \in messages : m.room = id}

(* Mutant: a message of the very second of the deletion counts as later. *)
After_Equal(m, r, u) == r.deletedAt[u] = 0 \/ m.timestamp >= r.deletedAt[u]

(* timestamp: { gt: userDeletedAt }, when that is not NULL. *)
After(m, r, u) == r.deletedAt[u] = 0 \/ m.timestamp > r.deletedAt[u]

(* getMessagesWithQuery, getFilteredMessagesForUser, all pages. *)
MessagesFor(r, u) == {m \in InRoom(r.id) : After(m, r, u)}

(* The ids of the messages a user can still see, opening his rooms. *)
Visible(u) == {m.id : m \in UNION {MessagesFor(r, u) : r \in rooms}}

(* Mutant: the pair is stored as it comes. *)
Sorted_AsGiven(u) == IF u = First THEN <<First, Second>> ELSE <<Second, First>>

(* [user1Id, user2Id].sort(), whoever (u) opens the room. *)
Sorted(u) == <<First, Second>>

Free(t) == chat[t].pc = "idle"

Continue(t, task) == chat' = [chat EXCEPT ![t] = task]
Ends(t) == Continue(t, NoChatTask)
Proceed(t, pc) == Continue(t, [chat[t] EXCEPT !.pc = pc])

(* The room a request works on, found again by its id. *)
Target(t) == {r \in rooms : r.id = chat[t].room}

(* An update of one row by its id fails when the row is gone. *)
Update(t, r, new) ==
  /\ r \in Target(t)
  /\ rooms' = (rooms \ {r}) \cup {new}

-----------------------------------------------------------------------------
(* handleCreateOrGetChatRoom, getOrCreateChatRoom *)

FindRoom(t, u) ==
  /\ Free(t)
  /\ \/ /\ rooms = {}
        /\ Continue(t, [NoChatTask EXCEPT !.pc = "create", !.user = u])
     \/ \E r \in rooms :
          /\ r.deleted[u]
          /\ Continue(t, [NoChatTask EXCEPT !.pc = "reopen", !.user = u,
                                            !.room = r.id, !.at = clock])
  /\ UNCHANGED <<clock, rooms, messages, roomIds, messageIds, acked, left, forgotten, backdated>>

(* (user1_id, user2_id) is unique: a second insert of the pair fails. *)
CreateRoom(t) ==
  /\ chat[t].pc = "create"
  /\ \A r \in rooms : r.users # Sorted(chat[t].user)
  /\ roomIds < MaxRooms
  /\ roomIds' = roomIds + 1
  /\ rooms' = rooms \cup {[id |-> roomIds + 1, users |-> Sorted(chat[t].user),
                           deleted |-> [u \in Pair |-> FALSE],
                           deletedAt |-> [u \in Pair |-> 0]]}
  /\ Ends(t)
  /\ UNCHANGED <<clock, messages, messageIds, acked, left, forgotten, backdated>>

(* new Date(), some time between the request's read and its write. *)
Now(t) == chat[t].at .. clock

(* The time of u's deletion of r becomes now. *)
Dated(r, u, now) == backdated' = backdated \cup {v \in {u} : now < r.deletedAt[u]}

(* Reopening moves the time of deletion to now. *)
ReopenRoom(t) ==
  /\ chat[t].pc = "reopen"
  /\ \E r \in rooms, now \in Now(t) :
       /\ Update(t, r, [r EXCEPT !.deleted[chat[t].user] = FALSE,
                                 !.deletedAt[chat[t].user] = now])
       /\ Dated(r, chat[t].user, now)
  /\ Ends(t)
  /\ UNCHANGED <<clock, messages, roomIds, messageIds, acked, left, forgotten>>

-----------------------------------------------------------------------------
(* handleSendMessage *)

ReadForSend(t, u) ==
  /\ Free(t)
  /\ \E r \in rooms :
       Continue(t, [NoChatTask EXCEPT
         !.pc = IF r.deleted[u] THEN "reactivate" ELSE "message",
         !.user = u, !.room = r.id])
  /\ UNCHANGED <<clock, rooms, messages, roomIds, messageIds, acked, left, forgotten, backdated>>

(* Writing into a room brings it back for the sender, not for the other. *)
Reactivate(t) ==
  /\ chat[t].pc = "reactivate"
  /\ \E r \in rooms : Update(t, r, [r EXCEPT !.deleted[chat[t].user] = FALSE])
  /\ Proceed(t, "message")
  /\ UNCHANGED <<clock, messages, roomIds, messageIds, acked, left, forgotten, backdated>>

CreateMessage(t) ==
  /\ chat[t].pc = "message"
  /\ Target(t) # {}
  /\ messageIds < MaxMessages
  /\ messageIds' = messageIds + 1
  /\ messages' = messages \cup
       {[id |-> messageIds + 1, room |-> chat[t].room, sender |-> chat[t].user,
         timestamp |-> clock, read |-> FALSE]}
  /\ Continue(t, [chat[t] EXCEPT !.pc = "touch", !.ids = {messageIds + 1}])
  /\ UNCHANGED <<clock, rooms, roomIds, acked, left, forgotten, backdated>>

(* updated_at of the room; when the room is gone the request fails. *)
TouchRoom(t) ==
  /\ chat[t].pc = "touch"
  /\ Target(t) # {}
  /\ acked' = acked \cup chat[t].ids
  /\ Ends(t)
  /\ UNCHANGED <<clock, rooms, messages, roomIds, messageIds, left, forgotten, backdated>>

-----------------------------------------------------------------------------
(* handleMarkMessagesAsRead, also when a room is joined *)
MarkMessagesAsRead(u) ==
  /\ \E r \in rooms :
       messages' = {IF m.room = r.id /\ m.sender # u THEN [m EXCEPT !.read = TRUE] ELSE m
                    : m \in messages}
  /\ messages' # messages
  /\ UNCHANGED <<clock, rooms, chat, roomIds, messageIds, acked, left, forgotten, backdated>>

-----------------------------------------------------------------------------
(* handleDeleteChatRoom *)

ReadForDelete(t, u) ==
  /\ Free(t)
  /\ \E r \in rooms :
       /\ ~r.deleted[u]
       /\ Continue(t, [pc |-> "mark", user |-> u, room |-> r.id, at |-> clock,
                       ids |-> {m.id : m \in InRoom(r.id)}])
  /\ UNCHANGED <<clock, rooms, messages, roomIds, messageIds, acked, left, forgotten, backdated>>

(* Mutant: one of the two is enough. *)
BothDeleted_Any(r) == \E u \in Pair : r.deleted[u]

BothDeleted(r) == \A u \in Pair : r.deleted[u]

MarkDeleted(t) ==
  LET u == chat[t].user IN
  /\ chat[t].pc = "mark"
  /\ \E r \in rooms, now \in Now(t) :
       LET new == [r EXCEPT !.deleted[u] = TRUE, !.deletedAt[u] = now] IN
       /\ Update(t, r, new)
       /\ Dated(r, u, now)
       /\ IF BothDeleted(new) THEN Proceed(t, "purge") ELSE Ends(t)
  /\ left' = left \cup {u}
  /\ forgotten' = [forgotten EXCEPT ![u] = @ \cup chat[t].ids]
  /\ UNCHANGED <<clock, messages, roomIds, messageIds, acked>>

PurgeMessages(t) ==
  /\ chat[t].pc = "purge"
  /\ messages' = messages \ InRoom(chat[t].room)
  /\ Proceed(t, "drop")
  /\ UNCHANGED <<clock, rooms, roomIds, messageIds, acked, left, forgotten, backdated>>

(* Messages that arrived since go with the room (ON DELETE CASCADE). *)
DropRoom(t) ==
  /\ chat[t].pc = "drop"
  /\ Target(t) # {}
  /\ rooms' = rooms \ Target(t)
  /\ messages' = messages \ InRoom(chat[t].room)
  /\ Ends(t)
  /\ UNCHANGED <<clock, roomIds, messageIds, acked, left, forgotten, backdated>>

-----------------------------------------------------------------------------
ClockTick ==
  /\ clock < ChatHorizon
  /\ clock' = clock + 1
  /\ UNCHANGED <<rooms, messages, chat, roomIds, messageIds, acked, left, forgotten, backdated>>

(* A check or a query fails, or the server restarts: what is written stays. *)
FailChat(t) ==
  /\ chat[t].pc # "idle"
  /\ Ends(t)
  /\ UNCHANGED <<clock, rooms, messages, roomIds, messageIds, acked, left, forgotten, backdated>>

ChatNext ==
  \/ ClockTick
  \/ \E u \in Pair : MarkMessagesAsRead(u)
  \/ \E t \in ChatTasks :
       \/ CreateRoom(t) \/ ReopenRoom(t)
       \/ Reactivate(t) \/ CreateMessage(t) \/ TouchRoom(t)
       \/ MarkDeleted(t) \/ PurgeMessages(t) \/ DropRoom(t) \/ FailChat(t)
       \/ \E u \in Pair : FindRoom(t, u) \/ ReadForSend(t, u) \/ ReadForDelete(t, u)

ChatSpec == ChatInit /\ [][ChatNext]_chatVars

-----------------------------------------------------------------------------
(* Looking for the room and creating it are two queries: two requests that *)
(* open the same room at the same time, one from each side, make one room. *)
OneRoom == Cardinality(rooms) <= 1

(* What the sender was told is sent stays visible to each user who never   *)
(* deleted the room, whatever the other one deletes, reopens and writes.   *)
NothingLost == \A u \in Pair \ left : acked \subseteq Visible(u)

(* A user does not get back what he deleted with the room: neither by      *)
(* opening it again nor by writing into it, although the row keeps a flag  *)
(* and a time, messages are told apart by the second only and a second     *)
(* request of his may be under way; only one that writes an older time     *)
(* over a newer one brings them back.                                      *)
DeletedStaysHidden == \A u \in Pair \ backdated : forgotten[u] \cap Visible(u) = {}

=============================================================================

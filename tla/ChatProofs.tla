----------------------------- MODULE ChatProofs -----------------------------
(***************************************************************************)
(* Why requests that read and write a room query by query neither double   *)
(* the room nor lose a message nor bring back a deleted one, for any       *)
(* number of requests in flight, rooms, messages and any running time.     *)
(***************************************************************************)
EXTENDS Chat, FiniteSetTheorems, TLAPS

(* There is one row at most, and it is the row of this pair. *)
Single == /\ \A r \in rooms : r.users = <<First, Second>>
          /\ \A r, s \in rooms : r = s

(* Ids are given out in order. *)
Known == /\ clock >= 1
         /\ \A m \in messages : m.room <= roomIds
         /\ \A u \in Pair : forgotten[u] \subseteq 1 .. messageIds

Stored(i, id) == \E m \in messages : m.id = i /\ m.room = id

(* Whoever never deleted the room has no mark in it, and until both did    *)
(* everything that was acknowledged is in it.                              *)
Stays ==
  /\ \A r \in rooms : \A u \in Pair \ left : ~r.deleted[u] /\ r.deletedAt[u] = 0
  /\ left # Pair => \A i \in acked : \E r \in rooms : Stored(i, r.id)

TaskOK(t) ==
  /\ chat[t].room <= roomIds /\ chat[t].at <= clock
  /\ chat[t].ids \subseteq 1 .. messageIds
  /\ chat[t].pc \in {"purge", "drop"} => left = Pair
  /\ chat[t].pc = "reopen" => chat[t].user \in left
  /\ chat[t].pc = "touch" /\ left # Pair => \A i \in chat[t].ids : Stored(i, chat[t].room)

(* The time a request will write covers what it saw.                       *)
Stamped(t) ==
  chat[t].pc \in {"reopen", "mark"} =>
    /\ chat[t].at >= 1
    /\ chat[t].pc = "mark" =>
         \A m \in messages : m.id \in chat[t].ids => m.timestamp <= chat[t].at

(* A deleted message is not later than the deletion, unless that was moved *)
(* back.                                                                   *)
Gone == \A u \in Pair \ backdated, r \in rooms, m \in messages :
          m.room = r.id /\ m.id \in forgotten[u] =>
            r.deletedAt[u] >= 1 /\ m.timestamp <= r.deletedAt[u]

ChatInv == /\ ChatTypeOK /\ Single /\ Known /\ Stays
           /\ Gone /\ \A t \in ChatTasks : TaskOK(t) /\ Stamped(t)

-----------------------------------------------------------------------------
(* What the steps have in common *)

Same(m, n) == n.id = m.id /\ n.room = m.room /\ n.timestamp = m.timestamp

(* The step keeps the messages, and what it adds is new. *)
Keeps == \A m \in messages : \E n \in messages' : Same(m, n)
Adds == \A n \in messages' : n.id > messageIds \/ \E m \in messages : Same(m, n)

(* The step moves no time backwards that is not noted as such.             *)
Later ==
  /\ backdated \subseteq backdated'
  /\ \A q \in rooms' : \/ q.id > roomIds
                      \/ \E r \in rooms :
                           /\ q.id = r.id
                           /\ \A u \in Pair \ backdated' : q.deletedAt[u] >= r.deletedAt[u]

Forward(t) ==
  /\ clock' >= clock /\ roomIds' >= roomIds /\ messageIds' >= messageIds
  /\ left \subseteq left'
  /\ left' # Pair => Keeps
  /\ Adds
  /\ \A s \in ChatTasks : s # t => chat'[s] = chat[s]

LEMMA PairType == First \in Pair /\ Second \in Pair
  BY DEF Pair

LEMMA NoChatTaskType == NoChatTask \in ChatTask /\ NoChatTask.pc = "idle"
  BY PairType DEF NoChatTask, ChatTask

LEMMA NoChange == UNCHANGED messages => Keeps /\ Adds
  BY DEF Keeps, Adds, Same

LEMMA NoMove == ChatTypeOK /\ UNCHANGED <<rooms, backdated>> => Later
<1> SUFFICES ASSUME ChatTypeOK, UNCHANGED <<rooms, backdated>> PROVE Later OBVIOUS
<1>1. \A r \in rooms : \A u \in Pair : r.deletedAt[u] \in Nat BY DEF ChatTypeOK, Room
<1>2. \A r \in rooms : \A u \in Pair : r.deletedAt[u] >= r.deletedAt[u] BY <1>1
<1> QED BY <1>2 DEF Later

(* The other requests. *)
LEMMA OtherTasks ==
  ASSUME ChatInv, ChatTypeOK', NEW t, Forward(t), t \in ChatTasks => TaskOK(t)'
  PROVE  \A s \in ChatTasks : TaskOK(s)'
<1> SUFFICES ASSUME NEW s \in ChatTasks, s # t PROVE TaskOK(s)' OBVIOUS
<1>1. TaskOK(s) /\ chat'[s] = chat[s] BY DEF ChatInv, Forward
<1>2. /\ clock \in Nat /\ roomIds \in Nat /\ messageIds \in Nat
      /\ chat[s].room \in Nat /\ chat[s].at \in Nat
      /\ left' \subseteq Pair
      /\ clock' \in Nat /\ roomIds' \in Nat /\ messageIds' \in Nat
  BY DEF ChatInv, ChatTypeOK, ChatTask
<1>3. chat[s].room <= roomIds' /\ chat[s].at <= clock'
  BY <1>1, <1>2 DEF TaskOK, Forward
<1>4. chat[s].ids \subseteq 1 .. messageIds' BY <1>1, <1>2 DEF TaskOK, Forward
<1>5. left = Pair => left' = Pair BY <1>2 DEF Forward
<1>6. ASSUME left' # Pair, NEW i, NEW id, Stored(i, id) PROVE Stored(i, id)'
  BY <1>6 DEF Forward, Keeps, Same, Stored
<1>7. chat[s].pc = "touch" /\ left' # Pair =>
        \A i \in chat[s].ids : \E n \in messages' : n.id = i /\ n.room = chat[s].room
  <2> SUFFICES ASSUME chat[s].pc = "touch", left' # Pair, NEW i \in chat[s].ids
               PROVE  \E n \in messages' : n.id = i /\ n.room = chat[s].room
    OBVIOUS
  <2>1. PICK m \in messages : m.id = i /\ m.room = chat[s].room
    BY <1>1, <1>5 DEF TaskOK, Stored
  <2>2. PICK n \in messages' : Same(m, n) BY DEF Forward, Keeps
  <2> QED BY <2>1, <2>2 DEF Same
<1> QED BY <1>1, <1>3, <1>4, <1>5, <1>7 DEF TaskOK, Stored, Forward

LEMMA OtherStamps ==
  ASSUME ChatInv, NEW t, Forward(t), t \in ChatTasks => Stamped(t)'
  PROVE  \A s \in ChatTasks : Stamped(s)'
<1> SUFFICES ASSUME NEW s \in ChatTasks, s # t, chat[s].pc \in {"reopen", "mark"}
             PROVE  Stamped(s)'
  <2>1. \A s \in ChatTasks : s # t => chat'[s] = chat[s] BY DEF Forward
  <2> QED BY <2>1 DEF Stamped
<1>1. Stamped(s) /\ TaskOK(s) /\ chat'[s] = chat[s] BY DEF ChatInv, Forward
<1>2. messageIds \in Nat /\ chat[s].ids \subseteq 1 .. messageIds
  BY <1>1 DEF ChatInv, ChatTypeOK, TaskOK
<1>3. ASSUME chat[s].pc = "mark", NEW n \in messages', n.id \in chat[s].ids
      PROVE  n.timestamp <= chat[s].at
  <2>1. ~(n.id > messageIds) BY <1>2, <1>3
  <2>2. PICK m \in messages : Same(m, n) BY <2>1 DEF Forward, Adds
  <2> QED BY <2>2, <1>1, <1>3 DEF Stamped, Same
<1> QED BY <1>1, <1>3 DEF Stamped

LEMMA StillGone ==
  ASSUME ChatInv, ChatTypeOK', UNCHANGED forgotten, Adds, Later
  PROVE  Gone'
<1> SUFFICES ASSUME NEW u \in Pair \ backdated', NEW q \in rooms', NEW n \in messages',
                    n.room = q.id, n.id \in forgotten[u]
             PROVE  q.deletedAt[u] >= 1 /\ n.timestamp <= q.deletedAt[u]
  BY DEF Gone
<1>1. messageIds \in Nat /\ roomIds \in Nat /\ forgotten[u] \subseteq 1 .. messageIds
  BY DEF ChatInv, ChatTypeOK, Known
<1>2. ~(n.id > messageIds) BY <1>1
<1>3. PICK m \in messages : Same(m, n) BY <1>2 DEF Adds
<1>4. ~(q.id > roomIds)
  <2>1. m.room <= roomIds /\ m.room \in Nat BY DEF ChatInv, Known, ChatTypeOK, Message
  <2> QED BY <1>1, <1>3, <2>1 DEF Same
<1>5. PICK r \in rooms : q.id = r.id /\ q.deletedAt[u] >= r.deletedAt[u] BY <1>4 DEF Later
<1>6. r.deletedAt[u] >= 1 /\ m.timestamp <= r.deletedAt[u]
  BY <1>3, <1>5 DEF ChatInv, Gone, Same, Later
<1>7. /\ r.deletedAt[u] \in Nat /\ q.deletedAt[u] \in Nat
      /\ m.timestamp \in Nat /\ n.timestamp = m.timestamp
  BY <1>3 DEF ChatInv, ChatTypeOK, Room, Message, Same
<1> QED BY <1>5, <1>6, <1>7

-----------------------------------------------------------------------------
(* Steps that change a request only *)

LEMMA ChatTaskStep ==
  ASSUME ChatInv, NEW t \in ChatTasks, NEW k \in ChatTask, Continue(t, k),
         UNCHANGED <<clock, rooms, messages, roomIds, messageIds, left, forgotten, backdated>>,
         acked' \subseteq Nat, Stays', TaskOK(t)', Stamped(t)'
  PROVE  ChatInv'
<1>1. chat \in [ChatTasks -> ChatTask] /\ chat' = [chat EXCEPT ![t] = k]
  BY DEF ChatInv, ChatTypeOK, Continue
<1>2. ChatTypeOK' BY <1>1 DEF ChatInv, ChatTypeOK
<1>3. clock \in Nat /\ roomIds \in Nat /\ messageIds \in Nat BY DEF ChatInv, ChatTypeOK
<1>4. Forward(t) BY <1>1, <1>3, NoChange DEF Forward
<1>5. \A s \in ChatTasks : TaskOK(s)' BY <1>2, <1>4, OtherTasks
<1>6. Single' /\ Known' BY DEF ChatInv, Single, Known
<1>7. Gone' BY DEF ChatInv, Gone
<1>8. \A s \in ChatTasks : Stamped(s)' BY <1>4, OtherStamps
<1> QED BY <1>2, <1>5, <1>6, <1>7, <1>8 DEF ChatInv

(* The same for a request that begins or ends. *)
LEMMA QuietStep ==
  ASSUME ChatInv, NEW t \in ChatTasks, NEW k \in ChatTask, Continue(t, k),
         UNCHANGED <<clock, rooms, messages, roomIds, messageIds, acked, left, forgotten, backdated>>,
         k.room <= roomIds, k.at <= clock, k.ids \subseteq 1 .. messageIds,
         k.pc \notin {"purge", "drop", "touch"}, k.pc = "reopen" => k.user \in left,
         k.pc \in {"reopen", "mark"} => k.at = clock,
         k.pc = "mark" => k.ids \subseteq {m.id : m \in InRoom(k.room)}
  PROVE  ChatInv'
<1>1. chat'[t] = k BY DEF Continue, ChatInv, ChatTypeOK
<1>2. acked' \subseteq Nat BY DEF ChatInv, ChatTypeOK
<1>3. Stays' BY DEF ChatInv, Stays, Stored
<1>4. TaskOK(t)' BY <1>1 DEF TaskOK
<1>5. Stamped(t)'
  <2>1. clock >= 1 /\ clock \in Nat BY DEF ChatInv, Known, ChatTypeOK
  <2>2. \A m \in messages : m.timestamp <= clock BY DEF ChatInv, ChatTypeOK
  <2> QED BY <1>1, <2>1, <2>2 DEF Stamped, InRoom
<1> QED BY <1>2, <1>3, <1>4, <1>5, ChatTaskStep

LEMMA FindRoomInv ==
  ASSUME ChatInv, NEW t \in ChatTasks, NEW u \in Pair, FindRoom(t, u) PROVE ChatInv'
<1>1. /\ clock \in Nat /\ roomIds \in Nat /\ messageIds \in Nat
      /\ UNCHANGED <<clock, rooms, messages, roomIds, messageIds, acked, left, forgotten, backdated>>
  BY DEF FindRoom, ChatInv, ChatTypeOK
<1>2. CASE Continue(t, [NoChatTask EXCEPT !.pc = "create", !.user = u])
  <2> DEFINE k == [NoChatTask EXCEPT !.pc = "create", !.user = u]
  <2>1. /\ k \in ChatTask /\ k.pc = "create" /\ k.user = u
        /\ k.room = 0 /\ k.at = 0 /\ k.ids = {}
    BY PairType DEF NoChatTask, ChatTask
  <2> HIDE DEF k
  <2>2. Continue(t, k) BY <1>2 DEF k
  <2> QED BY <1>1, <2>1, <2>2, QuietStep
<1>3. CASE \E r \in rooms :
             /\ r.deleted[u]
             /\ Continue(t, [NoChatTask EXCEPT !.pc = "reopen", !.user = u,
                                               !.room = r.id, !.at = clock])
  <2>1. PICK r \in rooms :
             /\ r.deleted[u]
             /\ Continue(t, [NoChatTask EXCEPT !.pc = "reopen", !.user = u,
                                               !.room = r.id, !.at = clock])
    BY <1>3
  <2> DEFINE k == [NoChatTask EXCEPT !.pc = "reopen", !.user = u,
                                     !.room = r.id, !.at = clock]
  <2>2. r.id \in Nat /\ r.id <= roomIds /\ u \in left
    BY <2>1 DEF ChatInv, ChatTypeOK, Room, Stays
  <2>3. /\ k \in ChatTask /\ k.pc = "reopen" /\ k.user = u
        /\ k.room = r.id /\ k.at = clock /\ k.ids = {}
    BY <1>1, <2>2, PairType DEF NoChatTask, ChatTask
  <2>4. Continue(t, k) BY <2>1
  <2> HIDE DEF k
  <2> QED BY <1>1, <2>2, <2>3, <2>4, QuietStep
<1> QED BY <1>2, <1>3 DEF FindRoom

LEMMA ReadForSendInv ==
  ASSUME ChatInv, NEW t \in ChatTasks, NEW u \in Pair, ReadForSend(t, u) PROVE ChatInv'
<1>1. PICK r \in rooms : Continue(t, [NoChatTask EXCEPT
         !.pc = IF r.deleted[u] THEN "reactivate" ELSE "message",
         !.user = u, !.room = r.id])
  BY DEF ReadForSend
<1> DEFINE k == [NoChatTask EXCEPT
         !.pc = IF r.deleted[u] THEN "reactivate" ELSE "message",
         !.user = u, !.room = r.id]
<1>2. /\ clock \in Nat /\ roomIds \in Nat /\ messageIds \in Nat
      /\ UNCHANGED <<clock, rooms, messages, roomIds, messageIds, acked, left, forgotten, backdated>>
      /\ r.id \in Nat /\ r.id <= roomIds
  BY DEF ReadForSend, ChatInv, ChatTypeOK, Room
<1>3. /\ k \in ChatTask /\ k.pc \in {"reactivate", "message"} /\ k.user = u
      /\ k.room = r.id /\ k.at = 0 /\ k.ids = {}
  BY <1>2, PairType DEF NoChatTask, ChatTask
<1>4. Continue(t, k) BY <1>1
<1> HIDE DEF k
<1> QED BY <1>2, <1>3, <1>4, QuietStep

LEMMA ReadForDeleteInv ==
  ASSUME ChatInv, NEW t \in ChatTasks, NEW u \in Pair, ReadForDelete(t, u) PROVE ChatInv'
<1>1. PICK r \in rooms :
        Continue(t, [pc |-> "mark", user |-> u, room |-> r.id, at |-> clock,
                     ids |-> {m.id : m \in InRoom(r.id)}])
  BY DEF ReadForDelete
<1> DEFINE k == [pc |-> "mark", user |-> u, room |-> r.id, at |-> clock,
                 ids |-> {m.id : m \in InRoom(r.id)}]
<1>2. /\ clock \in Nat /\ roomIds \in Nat /\ messageIds \in Nat
      /\ UNCHANGED <<clock, rooms, messages, roomIds, messageIds, acked, left, forgotten, backdated>>
      /\ r.id \in Nat /\ r.id <= roomIds
  BY DEF ReadForDelete, ChatInv, ChatTypeOK, Room
<1>3. {m.id : m \in InRoom(r.id)} \subseteq 1 .. messageIds
  BY <1>2 DEF InRoom, ChatInv, ChatTypeOK, Message
<1>4. {m.id : m \in InRoom(r.id)} \subseteq Nat BY <1>2, <1>3
<1>5. /\ k \in ChatTask /\ k.pc = "mark" /\ k.user = u /\ k.room = r.id
      /\ k.at = clock /\ k.ids = {m.id : m \in InRoom(r.id)}
  BY <1>2, <1>4 DEF ChatTask
<1>6. Continue(t, k) BY <1>1
<1> HIDE DEF k
<1> QED BY <1>2, <1>3, <1>5, <1>6, QuietStep

LEMMA FailChatInv ==
  ASSUME ChatInv, NEW t \in ChatTasks, FailChat(t) PROVE ChatInv'
<1>1. /\ clock \in Nat /\ roomIds \in Nat /\ messageIds \in Nat
      /\ UNCHANGED <<clock, rooms, messages, roomIds, messageIds, acked, left, forgotten, backdated>>
      /\ Continue(t, NoChatTask)
  BY DEF FailChat, Ends, ChatInv, ChatTypeOK
<1>2. NoChatTask.room = 0 /\ NoChatTask.at = 0 /\ NoChatTask.ids = {}
  BY DEF NoChatTask
<1> QED BY <1>1, <1>2, NoChatTaskType, QuietStep

LEMMA TouchRoomInv ==
  ASSUME ChatInv, NEW t \in ChatTasks, TouchRoom(t) PROVE ChatInv'
<1>1. /\ clock \in Nat /\ roomIds \in Nat /\ messageIds \in Nat
      /\ UNCHANGED <<clock, rooms, messages, roomIds, messageIds, left, forgotten, backdated>>
      /\ Continue(t, NoChatTask) /\ chat[t].pc = "touch" /\ Target(t) # {}
      /\ acked' = acked \cup chat[t].ids
      /\ chat \in [ChatTasks -> ChatTask] /\ acked \subseteq Nat /\ chat[t] \in ChatTask
      /\ TaskOK(t)
  BY DEF TouchRoom, Ends, ChatInv, ChatTypeOK
<1>2. acked' \subseteq Nat BY <1>1 DEF ChatTask
<1>3. PICK q \in rooms : q.id = chat[t].room BY <1>1 DEF Target
<1>4. Stays'
  <2>1. Stays BY DEF ChatInv
  <2>2. ASSUME left # Pair, NEW i \in acked' PROVE \E r \in rooms : Stored(i, r.id)
    <3>1. CASE i \in acked BY <2>1, <2>2, <3>1 DEF Stays
    <3>2. CASE i \in chat[t].ids BY <1>1, <1>3, <2>2, <3>2 DEF TaskOK
    <3> QED BY <1>1, <2>2, <3>1, <3>2
  <2> QED BY <1>1, <2>1, <2>2 DEF Stays, Stored
<1>5. chat'[t] = NoChatTask BY <1>1 DEF Continue
<1>6. TaskOK(t)' /\ Stamped(t)'
  BY <1>1, <1>5, NoChatTaskType DEF TaskOK, Stamped, NoChatTask
<1> QED BY <1>1, <1>2, <1>4, <1>6, NoChatTaskType, ChatTaskStep

-----------------------------------------------------------------------------
(* Steps that change the tables *)

(* The parts of the invariant, put together from what the step does. *)
LEMMA TableStep ==
  ASSUME ChatInv, NEW t \in ChatTasks, ChatTypeOK', Single', Known', Stays',
         Forward(t), TaskOK(t)', Stamped(t)', Gone'
  PROVE  ChatInv'
<1>1. \A s \in ChatTasks : TaskOK(s)' BY OtherTasks
<1>2. \A s \in ChatTasks : Stamped(s)' BY OtherStamps
<1> QED BY <1>1, <1>2 DEF ChatInv

Types == /\ clock \in Nat /\ roomIds \in Nat /\ messageIds \in Nat
         /\ rooms \subseteq Room /\ messages \subseteq Message
         /\ chat \in [ChatTasks -> ChatTask]
         /\ left \subseteq Pair /\ backdated \subseteq Pair /\ acked \subseteq Nat /\ forgotten \in [Pair -> SUBSET Nat]

LEMMA InvTypes == ChatInv => Types
  BY DEF ChatInv, ChatTypeOK, Types

LEMMA SingleFinite == Single => IsFiniteSet(rooms) /\ Cardinality(rooms) <= 1
<1> SUFFICES ASSUME Single PROVE IsFiniteSet(rooms) /\ Cardinality(rooms) <= 1 OBVIOUS
<1>1. CASE rooms = {} BY <1>1, FS_EmptySet
<1>2. CASE rooms # {}
  <2>1. PICK r \in rooms : TRUE BY <1>2
  <2>2. rooms = {r} BY DEF Single
  <2>3. IsFiniteSet({r}) /\ Cardinality({r}) = 1 BY FS_Singleton
  <2> QED BY <2>2, <2>3
<1> QED BY <1>1, <1>2

LEMMA CreateRoomInv ==
  ASSUME ChatInv, NEW t \in ChatTasks, CreateRoom(t) PROVE ChatInv'
<1> DEFINE new == [id |-> roomIds + 1, users |-> Sorted(chat[t].user),
                   deleted |-> [u \in Pair |-> FALSE],
                   deletedAt |-> [u \in Pair |-> 0]]
<1>1. /\ Types /\ Single /\ Known /\ Stays /\ chat[t] \in ChatTask
      /\ roomIds' = roomIds + 1 /\ rooms' = rooms \cup {new}
      /\ Continue(t, NoChatTask) /\ chat[t].pc = "create"
      /\ UNCHANGED <<clock, messages, messageIds, acked, left, forgotten, backdated>>
  BY InvTypes DEF Types, CreateRoom, Ends, ChatInv
<1>2. rooms = {}
  BY <1>1 DEF CreateRoom, Single, Sorted
<1>3. /\ new \in Room /\ new.id = roomIds + 1 /\ new.users = <<First, Second>>
      /\ \A u \in Pair : ~new.deleted[u] /\ new.deletedAt[u] = 0
  BY <1>1, PairType DEF Types, Room, Sorted
<1>4. rooms' = {new} BY <1>1, <1>2
<1> HIDE DEF new
<1>5. Single' BY <1>3, <1>4 DEF Single
<1>6. chat'[t] = NoChatTask /\ chat' \in [ChatTasks -> ChatTask]
      /\ \A s \in ChatTasks : s # t => chat'[s] = chat[s]
  BY <1>1, NoChatTaskType DEF Types, Continue
<1>7. ChatTypeOK'
  <2>1. IsFiniteSet(rooms') BY <1>4, FS_Singleton
  <2>2. \A r \in rooms' : r.id <= roomIds' /\ \A u \in Pair : r.deletedAt[u] <= clock'
    BY <1>1, <1>3, <1>4 DEF Types
  <2>3. \A m \in messages' : m.id <= messageIds' /\ m.timestamp <= clock'
    BY <1>1 DEF ChatInv, ChatTypeOK
  <2> QED BY <1>1, <1>3, <1>4, <1>6, <2>1, <2>2, <2>3 DEF ChatTypeOK, Types
<1>8. Known' BY <1>1 DEF Known, Types, Message
<1>9. Stays' BY <1>1, <1>2, <1>3, <1>4 DEF Stays
<1>10. Forward(t) BY <1>1, <1>6, NoChange DEF Forward, Types
<1>11. TaskOK(t)' /\ Stamped(t)'
  BY <1>1, <1>6, NoChatTaskType DEF TaskOK, Stamped, NoChatTask, Types
<1>12. Later BY <1>1, <1>3, <1>4 DEF Later, Types
<1>13. Gone' BY <1>1, <1>7, <1>10, <1>12, StillGone DEF Forward
<1> QED BY <1>5, <1>7, <1>8, <1>9, <1>10, <1>11, <1>13, TableStep

(* The one row gets another mark or another time; r and new as in Update.  *)
Replaces(r, new) ==
  /\ new \in Room /\ new.id = r.id /\ new.users = r.users
  /\ \A u \in Pair : new.deletedAt[u] <= clock

LEMMA UpdateRoom ==
  ASSUME ChatInv, NEW t \in ChatTasks, NEW r, NEW new, Update(t, r, new), Replaces(r, new),
         UNCHANGED <<clock, messages, roomIds, messageIds, acked>>,
         NEW k \in ChatTask, Continue(t, k),
         left' \subseteq Pair, backdated' \subseteq Pair, forgotten' \in [Pair -> SUBSET Nat]
  PROVE  /\ r \in rooms /\ r \in Room /\ r.id = chat[t].room
         /\ rooms = {r} /\ rooms' = {new}
         /\ Single' /\ ChatTypeOK'
         /\ chat'[t] = k /\ \A s \in ChatTasks : s # t => chat'[s] = chat[s]
<1>1. r \in rooms /\ r.id = chat[t].room /\ rooms' = (rooms \ {r}) \cup {new}
  BY DEF Update, Target
<1>2. rooms = {r} BY <1>1 DEF ChatInv, Single
<1>3. rooms' = {new} BY <1>1, <1>2
<1>4. Single' BY <1>1, <1>3 DEF ChatInv, Single, Replaces
<1>5. Types /\ r \in Room /\ r.id <= roomIds BY <1>1, InvTypes DEF ChatInv, ChatTypeOK, Types
<1>6. /\ chat'[t] = k /\ chat' \in [ChatTasks -> ChatTask]
      /\ \A s \in ChatTasks : s # t => chat'[s] = chat[s]
  BY <1>5 DEF Types, Continue
<1>7. ChatTypeOK'
  <2>1. IsFiniteSet(rooms') BY <1>3, FS_Singleton
  <2>2. \A q \in rooms' : q.id <= roomIds' /\ \A u \in Pair : q.deletedAt[u] <= clock'
    BY <1>3, <1>5 DEF Replaces
  <2>3. \A m \in messages' : m.id <= messageIds' /\ m.timestamp <= clock'
    BY DEF ChatInv, ChatTypeOK
  <2> QED BY <1>3, <1>5, <1>6, <2>1, <2>2, <2>3 DEF ChatTypeOK, Types, Replaces
<1> QED BY <1>1, <1>2, <1>3, <1>4, <1>5, <1>6, <1>7

(* The time that a request writes lies between its read and now. *)
LEMMA WrittenTime ==
  ASSUME ChatInv, NEW t \in ChatTasks, chat[t].pc \in {"reopen", "mark"}, NEW now \in Now(t)
  PROVE  now \in Nat /\ 1 <= now /\ now <= clock /\ chat[t].at <= now
<1>1. /\ clock \in Nat /\ chat[t].at \in Nat /\ chat[t].at <= clock /\ chat[t].at >= 1
  BY DEF ChatInv, ChatTypeOK, ChatTask, TaskOK, Stamped
<1> QED BY <1>1 DEF Now

LEMMA ReopenRoomInv ==
  ASSUME ChatInv, NEW t \in ChatTasks, ReopenRoom(t) PROVE ChatInv'
<1> DEFINE u == chat[t].user
           New(r, now) == [r EXCEPT !.deleted[u] = FALSE, !.deletedAt[u] = now]
<1>1. PICK r \in rooms, now \in Now(t) : Update(t, r, New(r, now)) /\ Dated(r, u, now)
  BY DEF ReopenRoom
<1> DEFINE new == New(r, now)
<1>2. /\ Types /\ Stays /\ Known /\ r \in Room /\ chat[t] \in ChatTask /\ u \in Pair
      /\ chat[t].pc = "reopen" /\ u \in left /\ Continue(t, NoChatTask)
      /\ r.id = chat[t].room
      /\ \A v \in Pair : r.deletedAt[v] <= clock
      /\ UNCHANGED <<clock, messages, roomIds, messageIds, acked, left, forgotten>>
  BY <1>1, InvTypes
     DEF ReopenRoom, Ends, Types, ChatInv, ChatTypeOK, TaskOK, ChatTask, Update, Target
<1>3. now \in Nat /\ now <= clock BY <1>2, WrittenTime
<1>4. /\ new \in Room /\ new.id = r.id /\ new.users = r.users
      /\ new.deletedAt[u] = now /\ \A v \in Pair : v # u => new.deletedAt[v] = r.deletedAt[v]
      /\ \A v \in Pair : v # u => new.deleted[v] = r.deleted[v]
  BY <1>2, <1>3 DEF Room
<1>5. Update(t, r, new) BY <1>1
<1>a. backdated' = backdated \cup {v \in {u} : now < r.deletedAt[u]} BY <1>1 DEF Dated
<1> HIDE DEF u, New, new
<1>6. Replaces(r, new) BY <1>2, <1>3, <1>4 DEF Replaces
<1>7. /\ left' \subseteq Pair /\ backdated' \subseteq Pair
      /\ forgotten' \in [Pair -> SUBSET Nat]
  BY <1>2, <1>a DEF Types
<1>8. /\ rooms = {r} /\ rooms' = {new} /\ Single' /\ ChatTypeOK'
      /\ chat'[t] = NoChatTask /\ \A s \in ChatTasks : s # t => chat'[s] = chat[s]
  BY <1>2, <1>5, <1>6, <1>7, NoChatTaskType, UpdateRoom
<1>9. Known' BY <1>2 DEF Known
<1>10. Stays'
  <2>1. \A v \in Pair \ left : v # u BY <1>2
  <2> QED BY <1>2, <1>4, <1>8, <2>1 DEF Stays, Stored
<1>11. Forward(t) BY <1>2, <1>8, NoChange DEF Forward, Types
<1>12. TaskOK(t)' /\ Stamped(t)'
  BY <1>2, <1>8, NoChatTaskType DEF TaskOK, Stamped, NoChatTask, Types
<1>13. Gone'
  <2>1. \A v \in Pair : r.deletedAt[v] \in Nat BY <1>2 DEF Room
  <2>2. \A v \in Pair \ backdated' : new.deletedAt[v] >= r.deletedAt[v]
    BY <1>3, <1>4, <1>a, <2>1
  <2>3. Later BY <1>4, <1>8, <1>a, <2>2 DEF Later
  <2> QED BY <1>2, <1>8, <1>11, <2>3, StillGone DEF Forward
<1> QED BY <1>8, <1>9, <1>10, <1>11, <1>12, <1>13, TableStep

LEMMA ReactivateInv ==
  ASSUME ChatInv, NEW t \in ChatTasks, Reactivate(t) PROVE ChatInv'
<1> DEFINE u == chat[t].user
           New(r) == [r EXCEPT !.deleted[u] = FALSE]
           k == [chat[t] EXCEPT !.pc = "message"]
<1>1. PICK r \in rooms : Update(t, r, New(r)) BY DEF Reactivate
<1> DEFINE new == New(r)
<1>2. /\ Types /\ Stays /\ Known /\ r \in Room /\ chat[t] \in ChatTask /\ u \in Pair
      /\ chat[t].pc = "reactivate" /\ Continue(t, k) /\ TaskOK(t)
      /\ \A v \in Pair : r.deletedAt[v] <= clock
      /\ UNCHANGED <<clock, messages, roomIds, messageIds, acked, left, forgotten, backdated>>
  BY <1>1, InvTypes
     DEF Reactivate, Proceed, Types, ChatInv, ChatTypeOK, ChatTask
<1>3. /\ new \in Room /\ new.id = r.id /\ new.users = r.users
      /\ new.deletedAt = r.deletedAt
      /\ \A v \in Pair : r.deleted[v] = FALSE => new.deleted[v] = FALSE
  BY <1>2 DEF Room
<1>4. /\ k \in ChatTask /\ k.pc = "message" /\ k.user = u /\ k.room = chat[t].room
      /\ k.at = chat[t].at /\ k.ids = chat[t].ids
  BY <1>2 DEF ChatTask
<1>5. Update(t, r, new) BY <1>1
<1> HIDE DEF u, New, new, k
<1>6. Replaces(r, new) BY <1>2, <1>3 DEF Replaces
<1>7. /\ left' \subseteq Pair /\ backdated' \subseteq Pair
      /\ forgotten' \in [Pair -> SUBSET Nat]
  BY <1>2 DEF Types
<1>8. /\ rooms = {r} /\ rooms' = {new} /\ Single' /\ ChatTypeOK'
      /\ chat'[t] = k /\ \A s \in ChatTasks : s # t => chat'[s] = chat[s]
  BY <1>2, <1>4, <1>5, <1>6, <1>7, UpdateRoom
<1>9. Known' BY <1>2 DEF Known
<1>10. Stays'
  <2>1. \A v \in Pair : r.deleted[v] \in BOOLEAN BY <1>2 DEF Room
  <2> QED BY <1>2, <1>3, <1>8, <2>1 DEF Stays, Stored
<1>11. Forward(t) BY <1>2, <1>8, NoChange DEF Forward, Types
<1>12. TaskOK(t)' /\ Stamped(t)' BY <1>2, <1>4, <1>8 DEF TaskOK, Stamped
<1>13. Gone'
  <2>1. \A v \in Pair : r.deletedAt[v] \in Nat BY <1>2 DEF Room
  <2>2. \A v \in Pair : new.deletedAt[v] >= r.deletedAt[v] BY <1>3, <2>1
  <2>3. Later BY <1>2, <1>3, <1>8, <2>2 DEF Later
  <2> QED BY <1>2, <1>8, <1>11, <2>3, StillGone DEF Forward
<1> QED BY <1>8, <1>9, <1>10, <1>11, <1>12, <1>13, TableStep

LEMMA CreateMessageInv ==
  ASSUME ChatInv, NEW t \in ChatTasks, CreateMessage(t) PROVE ChatInv'
<1> DEFINE i == messageIds + 1
           m == [id |-> i, room |-> chat[t].room, sender |-> chat[t].user,
                 timestamp |-> clock, read |-> FALSE]
           k == [chat[t] EXCEPT !.pc = "touch", !.ids = {i}]
<1>1. /\ Types /\ Stays /\ Known /\ Single /\ chat[t] \in ChatTask
      /\ chat[t].pc = "message" /\ Continue(t, k) /\ TaskOK(t)
      /\ messageIds' = i /\ messages' = messages \cup {m}
      /\ UNCHANGED <<clock, rooms, roomIds, acked, left, forgotten, backdated>>
  BY InvTypes DEF CreateMessage, Types, ChatInv
<1>2. /\ i \in Nat \ {0} /\ i > messageIds /\ m \in Message
      /\ m.id = i /\ m.room = chat[t].room /\ m.timestamp = clock /\ m.room <= roomIds
  BY <1>1 DEF Types, Message, ChatTask, TaskOK
<1>3. /\ k \in ChatTask /\ k.pc = "touch" /\ k.user = chat[t].user
      /\ k.room = chat[t].room /\ k.at = chat[t].at /\ k.ids = {i}
  BY <1>1, <1>2 DEF ChatTask
<1> HIDE DEF i, m, k
<1>4. /\ chat'[t] = k /\ chat' \in [ChatTasks -> ChatTask]
      /\ \A s \in ChatTasks : s # t => chat'[s] = chat[s]
  BY <1>1, <1>3 DEF Types, Continue
<1>5. ChatTypeOK'
  <2>1. messages' \subseteq Message BY <1>1, <1>2 DEF Types
  <2>2. ASSUME NEW n \in messages' PROVE n.id <= messageIds' /\ n.timestamp <= clock'
    <3>1. CASE n \in messages
      <4>1. /\ n.id <= messageIds /\ n.timestamp <= clock /\ n.id \in Nat
            /\ messageIds \in Nat
        BY <3>1 DEF ChatInv, ChatTypeOK, Message
      <4> QED BY <4>1, <1>1, <1>2
    <3>2. CASE n = m BY <3>2, <1>1, <1>2 DEF Types
    <3> QED BY <3>1, <3>2, <1>1
  <2>3. /\ IsFiniteSet(rooms)
        /\ \A r \in rooms : r.id <= roomIds /\ \A u \in Pair : r.deletedAt[u] <= clock
    BY DEF ChatInv, ChatTypeOK
  <2> QED BY <1>1, <1>2, <1>4, <2>1, <2>2, <2>3 DEF ChatTypeOK, Types
<1>6. Single' BY <1>1 DEF Single
<1>7. Known'
  <2>1. \A n \in messages' : n.room <= roomIds BY <1>1, <1>2 DEF Known
  <2>2. \A u \in Pair : forgotten[u] \subseteq 1 .. messageIds'
    <3>1. 1 .. messageIds \subseteq 1 .. messageIds' BY <1>1, <1>2 DEF Types
    <3> QED BY <3>1, <1>1 DEF Known
  <2> QED BY <1>1, <2>1, <2>2 DEF Known
<1>8. Stays' BY <1>1 DEF Stays, Stored
<1>9. Keeps /\ Adds BY <1>1, <1>2 DEF Keeps, Adds, Same
<1>10. Forward(t) BY <1>1, <1>2, <1>4, <1>9 DEF Forward, Types
<1>11. TaskOK(t)'
  <2>1. \A j \in chat'[t].ids : \E n \in messages' : n.id = j /\ n.room = chat'[t].room
    BY <1>1, <1>2, <1>3, <1>4
  <2>2. {i} \subseteq 1 .. messageIds' BY <1>1, <1>2
  <2> QED BY <1>1, <1>3, <1>4, <2>1, <2>2 DEF TaskOK, Stored
<1>12. Stamped(t)' BY <1>3, <1>4 DEF Stamped
<1>13. Later BY <1>1, NoMove DEF ChatInv
<1>14. Gone' BY <1>1, <1>5, <1>9, <1>13, StillGone
<1> QED BY <1>5, <1>6, <1>7, <1>8, <1>10, <1>11, <1>12, <1>14, TableStep

LEMMA MarkDeletedInv ==
  ASSUME ChatInv, NEW t \in ChatTasks, MarkDeleted(t) PROVE ChatInv'
<1> DEFINE u == chat[t].user
           New(r, now) == [r EXCEPT !.deleted[u] = TRUE, !.deletedAt[u] = now]
<1>1. PICK r \in rooms, now \in Now(t) :
        /\ Update(t, r, New(r, now)) /\ Dated(r, u, now)
        /\ IF BothDeleted(New(r, now)) THEN Proceed(t, "purge") ELSE Ends(t)
  BY DEF MarkDeleted
<1> DEFINE new == New(r, now)
           k == IF BothDeleted(new) THEN [chat[t] EXCEPT !.pc = "purge"] ELSE NoChatTask
<1>2. /\ Types /\ Stays /\ Known /\ r \in Room /\ chat[t] \in ChatTask /\ u \in Pair
      /\ chat[t].pc = "mark" /\ TaskOK(t) /\ r.id = chat[t].room
      /\ \A v \in Pair : r.deletedAt[v] <= clock
      /\ left' = left \cup {u}
      /\ forgotten' = [forgotten EXCEPT ![u] = @ \cup chat[t].ids]
      /\ UNCHANGED <<clock, messages, roomIds, messageIds, acked>>
  BY <1>1, InvTypes
     DEF MarkDeleted, Types, ChatInv, ChatTypeOK, ChatTask, Update, Target
<1>3. now \in Nat /\ 1 <= now /\ now <= clock /\ chat[t].at <= now BY <1>2, WrittenTime
<1>4. /\ new \in Room /\ new.id = r.id /\ new.users = r.users
      /\ new.deletedAt[u] = now /\ \A v \in Pair : v # u => new.deletedAt[v] = r.deletedAt[v]
      /\ \A v \in Pair : v # u => new.deleted[v] = r.deleted[v]
  BY <1>2, <1>3 DEF Room
<1>5. Update(t, r, new) BY <1>1
<1>6. Continue(t, k) BY <1>1 DEF Proceed, Ends
<1>7. /\ k \in ChatTask /\ k.pc \in {"idle", "purge"}
      /\ k.pc = "idle" \/ k.user = u
      /\ k.room \in {0, chat[t].room} /\ k.at \in {0, chat[t].at} /\ k.ids \in {{}, chat[t].ids}
      /\ k.pc = "purge" => BothDeleted(new)
  <2>1. CASE BothDeleted(new)
    <3>1. k = [chat[t] EXCEPT !.pc = "purge"] BY <2>1
    <3> QED BY <3>1, <2>1, <1>2 DEF ChatTask
  <2>2. CASE ~BothDeleted(new)
    <3>1. k = NoChatTask BY <2>2
    <3> QED BY <3>1, NoChatTaskType DEF NoChatTask
  <2> QED BY <2>1, <2>2
<1>a. backdated' = backdated \cup {v \in {u} : now < r.deletedAt[u]} BY <1>1 DEF Dated
<1> HIDE DEF u, New, new, k
<1>8. Replaces(r, new) BY <1>2, <1>3, <1>4 DEF Replaces
<1>9. left' \subseteq Pair /\ backdated' \subseteq Pair BY <1>2, <1>a DEF Types
<1>10. /\ forgotten' \in [Pair -> SUBSET Nat] /\ forgotten'[u] = forgotten[u] \cup chat[t].ids
       /\ \A v \in Pair : v # u => forgotten'[v] = forgotten[v]
  <2>1. chat[t].ids \in SUBSET Nat BY <1>2 DEF ChatTask
  <2> QED BY <1>2, <2>1 DEF Types
<1>11. /\ rooms = {r} /\ rooms' = {new} /\ Single' /\ ChatTypeOK'
       /\ chat'[t] = k /\ \A s \in ChatTasks : s # t => chat'[s] = chat[s]
  BY <1>2, <1>5, <1>6, <1>7, <1>8, <1>9, <1>10, UpdateRoom
<1>12. Known'
  <2>1. \A v \in Pair : forgotten'[v] \subseteq 1 .. messageIds
    BY <1>2, <1>10 DEF Known, TaskOK
  <2> QED BY <1>2, <2>1 DEF Known
<1>13. Stays'
  <2>1. \A v \in Pair \ left' : v # u /\ v \in Pair \ left BY <1>2
  <2>2. left' # Pair => left # Pair BY <1>2, <1>9
  <2>3. \A v \in Pair \ left' : ~new.deleted[v] /\ new.deletedAt[v] = 0
    BY <1>2, <1>4, <1>11, <2>1 DEF Stays
  <2> QED BY <1>2, <1>4, <1>11, <2>2, <2>3 DEF Stays, Stored
<1>14. Forward(t) BY <1>2, <1>11, NoChange DEF Forward, Types
<1>15. k.pc = "purge" => left' = Pair
  BY <1>7, <1>9, <1>11, <1>13 DEF BothDeleted, Stays
<1>16. TaskOK(t)'
  <2>1. chat[t].ids \subseteq 1 .. messageIds /\ chat[t].at <= clock /\ chat[t].room <= roomIds
    BY <1>2 DEF TaskOK
  <2>2. k.ids \subseteq 1 .. messageIds /\ k.at <= clock /\ k.room <= roomIds
    BY <1>2, <1>7, <2>1 DEF Types
  <2> QED BY <1>2, <1>7, <1>11, <1>15, <2>2 DEF TaskOK
<1>17. Stamped(t)' BY <1>7, <1>11 DEF Stamped
<1>18. Gone'
  <2>1. Gone /\ Stamped(t) BY DEF ChatInv
  <2> SUFFICES ASSUME NEW v \in Pair \ backdated', NEW n \in messages,
                      n.room = r.id, n.id \in forgotten'[v]
               PROVE  new.deletedAt[v] >= 1 /\ n.timestamp <= new.deletedAt[v]
    BY <1>2, <1>4, <1>11 DEF Gone
  <2>2. n.timestamp \in Nat /\ r.deletedAt[u] \in Nat /\ chat[t].at \in Nat
    BY <1>2 DEF Types, Message, Room, ChatTask
  <2>3. v = u => r.deletedAt[u] <= now BY <1>3, <1>a, <2>2
  <2>4. CASE n.id \in forgotten[v]
    <3>1. r.deletedAt[v] >= 1 /\ n.timestamp <= r.deletedAt[v]
      BY <2>1, <2>4, <1>11, <1>a DEF Gone
    <3>2. CASE v = u BY <3>1, <3>2, <2>2, <2>3, <1>3, <1>4
    <3>3. CASE v # u BY <3>1, <3>3, <1>4
    <3> QED BY <3>2, <3>3
  <2>5. CASE v = u /\ n.id \in chat[t].ids
    <3>1. n.timestamp <= chat[t].at BY <2>1, <2>5, <1>2 DEF Stamped
    <3> QED BY <3>1, <2>2, <2>5, <1>3, <1>4
  <2> QED BY <2>4, <2>5, <1>10
<1> QED BY <1>11, <1>12, <1>13, <1>14, <1>16, <1>17, <1>18, TableStep

LEMMA PurgeMessagesInv ==
  ASSUME ChatInv, NEW t \in ChatTasks, PurgeMessages(t) PROVE ChatInv'
<1> DEFINE k == [chat[t] EXCEPT !.pc = "drop"]
<1>1. /\ Types /\ Stays /\ Known /\ Single /\ chat[t] \in ChatTask
      /\ chat[t].pc = "purge" /\ Continue(t, k) /\ TaskOK(t)
      /\ messages' \subseteq messages
      /\ UNCHANGED <<clock, rooms, roomIds, messageIds, acked, left, forgotten, backdated>>
  BY InvTypes DEF PurgeMessages, Proceed, Types, ChatInv
<1>2. /\ k \in ChatTask /\ k.pc = "drop" /\ k.user = chat[t].user
      /\ k.room = chat[t].room /\ k.at = chat[t].at /\ k.ids = chat[t].ids
  BY <1>1 DEF ChatTask
<1> HIDE DEF k
<1>3. /\ chat'[t] = k /\ chat' \in [ChatTasks -> ChatTask]
      /\ \A s \in ChatTasks : s # t => chat'[s] = chat[s]
  BY <1>1, <1>2 DEF Types, Continue
<1>4. ChatTypeOK'
  <2>1. messages' \subseteq Message BY <1>1 DEF Types
  <2> QED BY <1>1, <1>3, <2>1 DEF ChatTypeOK, ChatInv
<1>5. Single' /\ Known' BY <1>1 DEF Single, Known
<1>6. left = Pair BY <1>1 DEF TaskOK
<1>7. Stays' BY <1>1, <1>6 DEF Stays
<1>8. Adds BY <1>1 DEF Adds, Same
<1>9. Forward(t) BY <1>1, <1>3, <1>6, <1>8 DEF Forward, Types
<1>10. TaskOK(t)' /\ Stamped(t)' BY <1>1, <1>2, <1>3, <1>6 DEF TaskOK, Stamped
<1>11. Later BY <1>1, NoMove DEF ChatInv
<1>12. Gone' BY <1>1, <1>4, <1>8, <1>11, StillGone
<1> QED BY <1>4, <1>5, <1>7, <1>9, <1>10, <1>12, TableStep

LEMMA DropRoomInv ==
  ASSUME ChatInv, NEW t \in ChatTasks, DropRoom(t) PROVE ChatInv'
<1>1. /\ Types /\ Stays /\ Known /\ Single /\ chat[t] \in ChatTask
      /\ chat[t].pc = "drop" /\ Continue(t, NoChatTask) /\ TaskOK(t)
      /\ messages' \subseteq messages /\ rooms' \subseteq rooms
      /\ UNCHANGED <<clock, roomIds, messageIds, acked, left, forgotten, backdated>>
  BY InvTypes DEF DropRoom, Ends, Types, ChatInv
<1>2. /\ chat'[t] = NoChatTask /\ chat' \in [ChatTasks -> ChatTask]
      /\ \A s \in ChatTasks : s # t => chat'[s] = chat[s]
  BY <1>1, NoChatTaskType DEF Types, Continue
<1>3. Single' BY <1>1 DEF Single
<1>4. ChatTypeOK'
  <2>1. messages' \subseteq Message /\ rooms' \subseteq Room BY <1>1 DEF Types
  <2>2. IsFiniteSet(rooms') BY <1>1, FS_Subset DEF ChatInv, ChatTypeOK
  <2> QED BY <1>1, <1>2, <2>1, <2>2 DEF ChatTypeOK, ChatInv
<1>5. Known' BY <1>1 DEF Known
<1>6. left = Pair BY <1>1 DEF TaskOK
<1>7. Stays' BY <1>1, <1>6 DEF Stays
<1>8. Adds BY <1>1 DEF Adds, Same
<1>9. Forward(t) BY <1>1, <1>2, <1>6, <1>8 DEF Forward, Types
<1>10. TaskOK(t)' /\ Stamped(t)'
  BY <1>1, <1>2, NoChatTaskType DEF TaskOK, Stamped, NoChatTask, Types
<1>11. Later
  <2>1. \A q \in rooms' : \A u \in Pair : q.deletedAt[u] \in Nat BY <1>4 DEF ChatTypeOK, Room
  <2>2. \A q \in rooms' : q \in rooms /\ \A u \in Pair : q.deletedAt[u] >= q.deletedAt[u]
    BY <1>1, <2>1
  <2> QED BY <1>1, <2>2 DEF Later
<1>12. Gone' BY <1>1, <1>4, <1>8, <1>11, StillGone
<1> QED BY <1>3, <1>4, <1>5, <1>7, <1>9, <1>10, <1>12, TableStep

(* Steps of no request: the clock, and the flags of the messages. *)
LEMMA FreeStep ==
  ASSUME ChatInv, UNCHANGED <<rooms, chat, roomIds, messageIds, acked, left, forgotten, backdated>>,
         clock' \in Nat, clock' >= clock, Keeps, Adds,
         messages' \subseteq Message,
         \A n \in messages' : \E m \in messages : Same(m, n)
  PROVE  ChatInv'
<1>1. Types /\ Stays /\ Known /\ Single BY InvTypes DEF ChatInv
<1>2. ChatTypeOK'
  <2>1. ASSUME NEW n \in messages' PROVE n.id <= messageIds' /\ n.timestamp <= clock'
    <3>1. PICK m \in messages : Same(m, n) OBVIOUS
    <3>2. m.timestamp <= clock /\ m.timestamp \in Nat /\ m.id <= messageIds
      BY <1>1 DEF ChatInv, ChatTypeOK, Types, Message
    <3> QED BY <3>1, <3>2, <1>1 DEF Same, Types
  <2>2. ASSUME NEW r \in rooms'
        PROVE  r.id <= roomIds' /\ \A u \in Pair : r.deletedAt[u] <= clock'
    <3>1. r \in Room /\ r.id <= roomIds /\ \A u \in Pair : r.deletedAt[u] <= clock
      BY <1>1 DEF ChatInv, ChatTypeOK, Types
    <3> QED BY <3>1, <1>1 DEF Room, Types
  <2>3. IsFiniteSet(rooms) BY DEF ChatInv, ChatTypeOK
  <2> QED BY <1>1, <2>1, <2>2, <2>3 DEF ChatTypeOK, Types
<1>3. Single' BY <1>1 DEF Single
<1>4. Known' BY <1>1 DEF Known, Types, Same
<1>5. Stays'
  <2>1. ASSUME left # Pair, NEW i \in acked
        PROVE  \E r \in rooms : \E n \in messages' : n.id = i /\ n.room = r.id
    <3>1. PICK r \in rooms, m \in messages : m.id = i /\ m.room = r.id
      BY <1>1, <2>1 DEF Stays, Stored
    <3> QED BY <3>1 DEF Keeps, Same
  <2> QED BY <1>1, <2>1 DEF Stays, Stored
<1>6. PICK none : none \notin ChatTasks BY NoSetContainsEverything
<1>7. Forward(none) BY <1>1 DEF Forward, Types
<1>8. \A s \in ChatTasks : TaskOK(s)' BY <1>2, <1>6, <1>7, OtherTasks
<1>9. Gone'
  <2>1. Later BY NoMove DEF ChatInv
  <2> QED BY <1>2, <2>1, StillGone
<1>10. \A s \in ChatTasks : Stamped(s)' BY <1>6, <1>7, OtherStamps
<1> QED BY <1>2, <1>3, <1>4, <1>5, <1>8, <1>9, <1>10 DEF ChatInv

LEMMA ClockTickInv == ASSUME ChatInv, ClockTick PROVE ChatInv'
<1>1. /\ clock \in Nat /\ clock' = clock + 1 /\ messages' = messages /\ messages \subseteq Message
      /\ UNCHANGED <<rooms, chat, roomIds, messageIds, acked, left, forgotten, backdated>>
  BY DEF ClockTick, ChatInv, ChatTypeOK
<1>2. Keeps /\ Adds BY <1>1, NoChange
<1>3. \A n \in messages' : \E m \in messages : Same(m, n) BY <1>1 DEF Same
<1> QED BY <1>1, <1>2, <1>3, FreeStep

LEMMA MarkMessagesAsReadInv ==
  ASSUME ChatInv, NEW u \in Pair, MarkMessagesAsRead(u) PROVE ChatInv'
<1>1. /\ clock \in Nat /\ messages \subseteq Message
      /\ UNCHANGED <<clock, rooms, chat, roomIds, messageIds, acked, left, forgotten, backdated>>
  BY DEF MarkMessagesAsRead, ChatInv, ChatTypeOK
<1>2. PICK r \in rooms :
        messages' = {IF m.room = r.id /\ m.sender # u THEN [m EXCEPT !.read = TRUE] ELSE m
                     : m \in messages}
  BY DEF MarkMessagesAsRead
<1> DEFINE Read(m) == IF m.room = r.id /\ m.sender # u THEN [m EXCEPT !.read = TRUE] ELSE m
<1>3. ASSUME NEW m \in messages PROVE Read(m) \in Message /\ Same(m, Read(m))
  BY <1>1 DEF Message, Same
<1>4. messages' = {Read(m) : m \in messages} BY <1>2
<1> HIDE DEF Read
<1>5. messages' \subseteq Message BY <1>3, <1>4
<1>6. \A n \in messages' : \E m \in messages : Same(m, n) BY <1>3, <1>4
<1>7. \A m \in messages : \E n \in messages' : Same(m, n) BY <1>3, <1>4
<1>8. Keeps /\ Adds BY <1>6, <1>7 DEF Keeps, Adds
<1> QED BY <1>1, <1>5, <1>6, <1>8, FreeStep

-----------------------------------------------------------------------------
LEMMA ChatInitInv == ChatInit => ChatInv
<1> SUFFICES ASSUME ChatInit PROVE ChatInv OBVIOUS
<1>1. IsFiniteSet({}) BY FS_EmptySet
<1>2. ChatTypeOK BY <1>1, NoChatTaskType DEF ChatInit, ChatTypeOK
<1>3. Single /\ Known BY DEF ChatInit, Single, Known
<1>4. Stays BY DEF ChatInit, Stays
<1>5. \A t \in ChatTasks : chat[t] = NoChatTask BY DEF ChatInit
<1>6. \A t \in ChatTasks : TaskOK(t) /\ Stamped(t)
  BY <1>5, NoChatTaskType DEF ChatInit, TaskOK, Stamped, NoChatTask
<1>7. Gone BY DEF ChatInit, Gone
<1> QED BY <1>2, <1>3, <1>4, <1>6, <1>7 DEF ChatInv

LEMMA ChatStutterInv == ASSUME ChatInv, UNCHANGED chatVars PROVE ChatInv'
<1>1. /\ clock \in Nat /\ messages \subseteq Message
      /\ UNCHANGED <<clock, rooms, messages, chat, roomIds, messageIds, acked, left, forgotten, backdated>>
  BY DEF chatVars, ChatInv, ChatTypeOK
<1>2. Keeps /\ Adds BY <1>1, NoChange
<1>3. \A n \in messages' : \E m \in messages : Same(m, n) BY <1>1 DEF Same
<1> QED BY <1>1, <1>2, <1>3, FreeStep

LEMMA ChatStepInv == ChatInv /\ [ChatNext]_chatVars => ChatInv'
<1> SUFFICES ASSUME ChatInv, [ChatNext]_chatVars PROVE ChatInv' OBVIOUS
<1>1. CASE UNCHANGED chatVars BY <1>1, ChatStutterInv
<1>2. CASE ClockTick BY <1>2, ClockTickInv
<1>3. ASSUME NEW u \in Pair, MarkMessagesAsRead(u) PROVE ChatInv'
  BY <1>3, MarkMessagesAsReadInv
<1>4. ASSUME NEW t \in ChatTasks, CreateRoom(t) \/ ReopenRoom(t) PROVE ChatInv'
  BY <1>4, CreateRoomInv, ReopenRoomInv
<1>5. ASSUME NEW t \in ChatTasks, Reactivate(t) \/ CreateMessage(t) \/ TouchRoom(t) PROVE ChatInv'
  BY <1>5, ReactivateInv, CreateMessageInv, TouchRoomInv
<1>6. ASSUME NEW t \in ChatTasks,
             MarkDeleted(t) \/ PurgeMessages(t) \/ DropRoom(t) \/ FailChat(t)
      PROVE  ChatInv'
  BY <1>6, MarkDeletedInv, PurgeMessagesInv, DropRoomInv, FailChatInv
<1>7. ASSUME NEW t \in ChatTasks, NEW u \in Pair,
             FindRoom(t, u) \/ ReadForSend(t, u) \/ ReadForDelete(t, u)
      PROVE  ChatInv'
  BY <1>7, FindRoomInv, ReadForSendInv, ReadForDeleteInv
<1> QED BY <1>1, <1>2, <1>3, <1>4, <1>5, <1>6, <1>7 DEF ChatNext

LEMMA ChatInvariant == ChatSpec => []ChatInv
<1>1. ChatInit => ChatInv BY ChatInitInv
<1>2. ChatInv /\ [ChatNext]_chatVars => ChatInv' BY ChatStepInv
<1> QED BY <1>1, <1>2, PTL DEF ChatSpec

(* Rows, requests and times stay of their kind: no time is later than now. *)
THEOREM ChatTypeCorrect == ChatSpec => []ChatTypeOK
<1>1. ChatInv => ChatTypeOK BY DEF ChatInv
<1> QED BY <1>1, ChatInvariant, PTL

(* Two users have one room, however many requests open it at once.         *)
THEOREM OneRoomCorrect == ChatSpec => []OneRoom
<1>1. ChatInv => OneRoom BY SingleFinite DEF ChatInv, OneRoom
<1> QED BY <1>1, ChatInvariant, PTL

(* A message its sender was told is sent stays visible to whoever never    *)
(* deleted the room.                                                       *)
THEOREM NothingLostCorrect == ChatSpec => []NothingLost
<1>1. ChatInv => NothingLost
  <2> SUFFICES ASSUME ChatInv, NEW u \in Pair \ left, NEW i \in acked PROVE i \in Visible(u)
    BY DEF NothingLost
  <2>1. left # Pair OBVIOUS
  <2>2. PICK r \in rooms, m \in messages : m.id = i /\ m.room = r.id
    BY <2>1 DEF ChatInv, Stays, Stored
  <2>3. r.deletedAt[u] = 0 BY DEF ChatInv, Stays
  <2>4. m \in MessagesFor(r, u) BY <2>2, <2>3 DEF MessagesFor, InRoom, After
  <2> QED BY <2>2, <2>4 DEF Visible
<1> QED BY <1>1, ChatInvariant, PTL

(* A user never gets back what he deleted with the room, unless a second   *)
(* request of his wrote an older time over a newer one.                    *)
THEOREM DeletedStaysHiddenCorrect == ChatSpec => []DeletedStaysHidden
<1>1. ChatInv => DeletedStaysHidden
  <2> SUFFICES ASSUME ChatInv, NEW u \in Pair \ backdated, NEW i \in forgotten[u], i \in Visible(u)
               PROVE  FALSE
    BY DEF DeletedStaysHidden
  <2>1. PICK r \in rooms : \E m \in MessagesFor(r, u) : m.id = i BY DEF Visible
  <2>2. PICK m \in messages : m.id = i /\ m.room = r.id /\ After(m, r, u)
    BY <2>1 DEF MessagesFor, InRoom
  <2>3. r.deletedAt[u] >= 1 /\ m.timestamp <= r.deletedAt[u] BY <2>2 DEF ChatInv, Gone
  <2>4. r.deletedAt[u] \in Nat /\ m.timestamp \in Nat
    BY DEF ChatInv, ChatTypeOK, Room, Message
  <2> QED BY <2>2, <2>3, <2>4 DEF After
<1> QED BY <1>1, ChatInvariant, PTL

=============================================================================

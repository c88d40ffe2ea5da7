-------------------------- MODULE LifecycleProofs --------------------------
(***************************************************************************)
(* However requests and jobs overlap, AuctionLifecycle is well typed, it   *)
(* keeps every unit in each write that does not miscount, and it takes the *)
(* steps of Consignment in each one that does not overrule a sale either.  *)
(***************************************************************************)
EXTENDS AuctionLifecycle, CountingProofs, FiniteSetTheorems, TLAPS

Auction == [status: Status, startsAt: Nat, endsAt: Nat, hasBids: BOOLEAN]

(* What a task carries. *)
Sound(q) ==
  /\ q.op \in {"create", "update", "edit", "close"} => \E a \in Auctions : q.todo = {a}
  /\ q.op = "create" \/ (q.op = "edit" /\ q.pc = "tx") => ~Repeats(q.body)
  /\ \A a \in q.todo : q.to[a] \notin {None, "REFUND"}
  /\ \A a \in q.sold : q.op = "end" /\ q.to[a] \in {Unread, "COMPLETED"}

(* A task creates the auctions that do not exist, and no others. *)
Creates(q, a) == q.op = "create" <=> auction[a].status = None

Alone ==
  \A t, u \in Tasks : t # u /\ task[t].op = "create" /\ task[u].op = "create"
                      => task[t].todo \cap task[u].todo = {}

Inv ==
  /\ TypeOK /\ Alone
  /\ \A t \in Tasks : Sound(task[t]) /\ \A a \in task[t].todo : Creates(task[t], a)

LEMMA Typed ==
  ASSUME Inv
  PROVE  /\ auction \in [Auctions -> Auction] /\ lines \in [Auctions -> Baskets]
         /\ stock \in [Products -> Int] /\ now \in 0..Horizon
         /\ task \in [Tasks -> Task]
         /\ \A t \in Tasks : task[t].todo \subseteq Auctions
BY DEF Inv, TypeOK, Auction, Task

-----------------------------------------------------------------------------
(* Bodies and lines. *)

LEMMA GainFacts ==
  ASSUME NEW n \in Nat, NEW s \in Seq(Nat \ {0})
  PROVE  /\ LineOf(s) \in Nat /\ Gain(n, s) \in Int
         /\ Len(s) <= 1 => Gain(n, s) = n - LineOf(s)
<1>1. CASE s = <<>> BY <1>1 DEF LineOf, Gain
<1>2. CASE s # <<>>
  <2>1. /\ Len(s) \in Nat /\ Len(s) >= 1 /\ DOMAIN s = 1..Len(s)
        /\ \A i \in 1..Len(s) : s[i] \in Nat
    BY <1>2
  <2>2. LineOf(s) = s[Len(s)] /\ Gain(n, s) = Len(s) * n - TotalOf(s, DOMAIN s)
    BY <1>2 DEF LineOf, Gain
  <2> DEFINE total == TotalOf(s, DOMAIN s)
  <2>3. total \in Nat
    <3>1. IsFiniteSet(1..Len(s)) BY <2>1, FS_Interval
    <3>2. Counts(s, DOMAIN s) BY <2>1, <3>1 DEF Counts
    <3> QED BY <3>2, TotalType
  <2>4. ASSUME Len(s) <= 1 PROVE total = s[1] /\ Len(s) = 1
    <3>1. Len(s) = 1 /\ DOMAIN s = {1} BY <2>1, <2>4
    <3>2. TotalOf(s, {1}) = s[1] BY <2>1, <3>1, TotalOne
    <3> QED BY <3>1, <3>2
  <2>5. Len(s) * n \in Nat BY <2>1
  <2> HIDE DEF total
  <2>6. LineOf(s) \in Nat /\ Gain(n, s) \in Int
    BY <2>1, <2>2, <2>3, <2>5 DEF total
  <2>7. Len(s) <= 1 => Gain(n, s) = n - LineOf(s)
    BY <2>1, <2>2, <2>3, <2>4 DEF total
  <2> QED BY <2>6, <2>7
<1> QED BY <1>1, <1>2

LEMMA BodyFacts ==
  /\ NoUnits \in Baskets /\ Baskets \subseteq [Products -> Nat]
  /\ \A body \in Bodies :
       /\ LinesOf(body) \in Baskets
       /\ \A old \in Baskets, p \in Products :
            /\ Gain(old[p], body[p]) \in Int
            /\ ~Repeats(body) => Gain(old[p], body[p]) = old[p] - LinesOf(body)[p]
<1>1. \A body \in Bodies, p \in Products : body[p] \in Seq(Nat \ {0})
  BY ConstantsAssumption
<1>2. \A body \in Bodies : LinesOf(body) \in [Products -> Nat]
  <2> SUFFICES ASSUME NEW body \in Bodies, NEW p \in Products
               PROVE  LineOf(body[p]) \in Nat
    BY DEF LinesOf
  <2> QED BY <1>1, GainFacts
<1>3. Baskets \subseteq [Products -> Nat] BY <1>2 DEF Baskets
<1>4. NoUnits \in Baskets
  <2>1. LinesOf(NoBody) = NoUnits BY DEF LinesOf, LineOf, NoBody, NoUnits
  <2> QED BY <2>1, ConstantsAssumption DEF Baskets
<1>5. ASSUME NEW body \in Bodies, NEW old \in Baskets, NEW p \in Products
      PROVE  /\ Gain(old[p], body[p]) \in Int
             /\ ~Repeats(body) => Gain(old[p], body[p]) = old[p] - LinesOf(body)[p]
  <2>1. old[p] \in Nat /\ body[p] \in Seq(Nat \ {0}) BY <1>1, <1>3
  <2>2. ~Repeats(body) => Len(body[p]) <= 1
    <3>1. Len(body[p]) \in Nat BY <2>1
    <3> QED BY <3>1 DEF Repeats
  <2>3. LinesOf(body)[p] = LineOf(body[p]) BY DEF LinesOf
  <2> QED BY <2>1, <2>2, <2>3, GainFacts
<1> QED BY <1>3, <1>4, <1>5 DEF Baskets

LEMMA IdleType ==
  /\ Idle \in Task /\ Sound(Idle) /\ Idle.todo = {} /\ Idle.sold = {}
  /\ Idle.op = "idle" /\ \A a \in Auctions : Idle.to[a] = Unread
<1>1. Idle \in Task BY BodyFacts, ConstantsAssumption DEF Idle, Task
<1> QED BY <1>1 DEF Idle, Sound

LEMMA InitInv == Init => Inv
<1> SUFFICES ASSUME Init PROVE Inv OBVIOUS
<1>1. auction \in [Auctions -> Auction] /\ lines \in [Auctions -> Baskets]
  BY BodyFacts DEF Init, Auction, Status, None
<1>2. TypeOK BY <1>1, IdleType, ConstantsAssumption DEF Init, TypeOK, Auction
<1>3. \A t \in Tasks : task[t] = Idle BY DEF Init
<1> QED BY <1>2, <1>3, IdleType DEF Inv, Alone

-----------------------------------------------------------------------------
(* The invariant: steps that read, and steps that write. *)

(* Task t moves on and writes nothing. *)
Proceeds(t, q) ==
  /\ q \in Task /\ Goto(t, q) /\ Sound(q)
  /\ \A a \in q.todo : Creates(q, a)
  /\ q.op = "create" => \A u \in Tasks : u # t => q.todo \cap task[u].todo = {}
  /\ UNCHANGED <<now, auction, lines, stock>>

LEMMA TaskAfter ==
  ASSUME Inv, NEW t \in Tasks, NEW q \in Task, Goto(t, q)
  PROVE  /\ task' \in [Tasks -> Task] /\ task'[t] = q
         /\ \A u \in Tasks \ {t} : task'[u] = task[u]
BY Typed DEF Goto

LEMMA MoveStep ==
  ASSUME Inv, NEW t \in Tasks, NEW q, Proceeds(t, q)
  PROVE  Inv'
<1>1. /\ task' \in [Tasks -> Task] /\ task'[t] = q
      /\ \A u \in Tasks \ {t} : task'[u] = task[u]
  BY TaskAfter DEF Proceeds
<1>2. TypeOK' BY <1>1 DEF Proceeds, Inv, TypeOK
<1>3. Alone' BY <1>1 DEF Proceeds, Inv, Alone
<1>4. \A u \in Tasks : Sound(task'[u]) /\ \A a \in task'[u].todo : Creates(task'[u], a)
  BY <1>1 DEF Proceeds, Inv
<1>5. auction' = auction BY DEF Proceeds
<1>6. \A u \in Tasks : Sound(task[u])' /\ \A a \in task'[u].todo : Creates(task[u], a)'
  BY <1>4, <1>5 DEF Sound, Creates
<1> QED BY <1>2, <1>3, <1>6 DEF Inv

(* Task t writes auctions S that it works on and gives them up.            *)
Writes(t, q, S) ==
  /\ q \in Task /\ Goto(t, q) /\ Sound(q)
  /\ S = task[t].todo \ q.todo /\ q.todo \subseteq task[t].todo
  /\ q.op # "create" /\ (q.todo # {} => task[t].op # "create")
  /\ now' = now /\ stock' \in [Products -> Int]
  /\ auction' \in [Auctions -> Auction] /\ lines' \in [Auctions -> Baskets]
  /\ \A a \in Auctions \ S : auction'[a].status = auction[a].status
  /\ \A a \in S : auction'[a].status # None

LEMMA WriteStep ==
  ASSUME Inv, NEW t \in Tasks, NEW q, NEW S, Writes(t, q, S)
  PROVE  Inv' /\ Written(t) = S /\ \A u \in Tasks \ {t} : Written(u) = {}
<1>1. /\ task' \in [Tasks -> Task] /\ task'[t] = q
      /\ \A u \in Tasks \ {t} : task'[u] = task[u]
  BY TaskAfter DEF Writes
<1>2. TypeOK' BY <1>1, Typed DEF Writes, TypeOK, Auction
<1>3. Alone' BY <1>1 DEF Writes, Inv, Alone
<1>4. ASSUME NEW u \in Tasks, NEW a \in task'[u].todo
      PROVE  (task'[u].op = "create") <=> (auction'[a].status = None)
  <2>1. a \in Auctions BY <1>4, <1>1, Typed DEF Writes
  <2>2. CASE u = t
    <3>1. a \in task[t].todo /\ a \notin S /\ q.op # "create" /\ task[t].op # "create"
      BY <1>1, <1>4, <2>2 DEF Writes
    <3>2. auction[a].status # None BY <3>1 DEF Inv, Creates
    <3> QED BY <1>1, <2>1, <2>2, <3>1, <3>2 DEF Writes
  <2>3. CASE u # t /\ a \notin S
    <3>1. Creates(task[u], a) BY <1>1, <1>4, <2>3 DEF Inv
    <3> QED BY <1>1, <2>1, <2>3, <3>1 DEF Writes, Creates
  <2>4. CASE u # t /\ a \in S
    <3>1. a \in task[t].todo /\ a \in task[u].todo /\ task'[u] = task[u]
      BY <1>1, <1>4, <2>4 DEF Writes
    <3>2. Creates(task[t], a) /\ Creates(task[u], a) BY <3>1 DEF Inv
    <3>3. task[u].op # "create"
      BY <2>4, <3>1, <3>2 DEF Creates, Inv, Alone
    <3> QED BY <2>4, <3>1, <3>3 DEF Writes
  <2> QED BY <2>2, <2>3, <2>4
<1>5. \A u \in Tasks : Sound(task'[u]) BY <1>1 DEF Writes, Inv
<1>6. \A u \in Tasks : Sound(task[u])' /\ \A a \in task'[u].todo : Creates(task[u], a)'
  BY <1>4, <1>5 DEF Sound, Creates
<1>7. Inv' BY <1>2, <1>3, <1>6 DEF Inv
<1> QED BY <1>1, <1>7 DEF Written, Writes

-----------------------------------------------------------------------------
(* Steps that read. *)

(* A task starts to work on the auctions of q. *)
LEMMA StartStep ==
  ASSUME Inv, NEW t \in Tasks, NEW q \in Task, Start(t, q), Sound(q),
         \A a \in q.todo : Creates(q, a),
         q.op = "create" => \A u \in Tasks : u # t => q.todo \cap task[u].todo = {},
         \/ \A a \in q.todo : auction[a].status # "COMPLETED"
         \/ q.op = "end" /\ \A a \in q.todo : q.to[a] = Unread
  PROVE  Inv' /\ UNCHANGED <<auction, lines, stock>>
<1> DEFINE seen == {a \in q.todo : Sold(a)}
           q2 == [q EXCEPT !.sold = seen]
<1>1. seen \in SUBSET Auctions
      /\ (seen = {} \/ (q.op = "end" /\ \A a \in seen : q.to[a] = Unread))
  BY DEF Task, Sold, Is
<1>2. Goto(t, q2) /\ UNCHANGED <<now, auction, lines, stock>> BY DEF Start
<1> HIDE DEF seen
<1>3. /\ q2 \in Task /\ q2.sold = seen /\ q2.todo = q.todo /\ q2.op = q.op
      /\ q2.to = q.to /\ q2.pc = q.pc /\ q2.body = q.body
  BY <1>1 DEF Task
<1> HIDE DEF q2
<1>4. Sound(q2) BY <1>1, <1>3 DEF Sound
<1>5. \A a \in q2.todo : Creates(q2, a) BY <1>3 DEF Creates
<1>6. Proceeds(t, q2) BY <1>2, <1>3, <1>4, <1>5 DEF Proceeds
<1> QED BY <1>2, <1>6, MoveStep

LEMMA WillSetStep ==
  ASSUME Inv, NEW t \in Tasks, NEW S \in SUBSET Auctions,
         NEW s \in Status \ {None, "REFUND"}, WillSet(t, S, s),
         \A a \in S : auction[a].status \notin {None, "COMPLETED"}
  PROVE  Inv' /\ UNCHANGED <<auction, lines, stock>>
<1> DEFINE q == [Idle EXCEPT !.op = "status", !.pc = "tx", !.todo = S,
                   !.to = [a \in Auctions |-> IF a \in S THEN s ELSE Unread]]
<1>1. q \in Task BY IdleType DEF Task
<1>2. q.op = "status" /\ q.todo = S /\ q.sold = {} /\ \A a \in S : q.to[a] = s
  BY IdleType DEF Task
<1>3. Start(t, q) BY DEF WillSet
<1> HIDE DEF q
<1>4. Sound(q) /\ \A a \in q.todo : Creates(q, a) BY <1>2 DEF Sound, Creates
<1> QED BY <1>1, <1>2, <1>3, <1>4, StartStep

LEMMA WillEndStep ==
  ASSUME Inv, NEW t \in Tasks, NEW S \in SUBSET Auctions, WillEnd(t, S),
         \A a \in S : auction[a].status # None
  PROVE  Inv' /\ UNCHANGED <<auction, lines, stock>>
<1> DEFINE q == [Idle EXCEPT !.op = "end", !.pc = "tx", !.todo = S]
<1>1. q \in Task BY IdleType DEF Task
<1>2. q.op = "end" /\ q.todo = S /\ q.sold = {} /\ \A a \in S : q.to[a] = Unread
  BY IdleType DEF Task
<1>3. Start(t, q) BY DEF WillEnd
<1> HIDE DEF q
<1>4. Sound(q) /\ \A a \in q.todo : Creates(q, a)
  BY <1>2 DEF Sound, Creates, Unread, None
<1> QED BY <1>1, <1>2, <1>3, <1>4, StartStep

(* The other reads are about one auction, or about closed ones. *)
LEMMA OtherReads ==
  ASSUME Inv, NEW t \in Tasks, NEW q \in Task, Start(t, q),
         q.sold = {}, \A a \in q.todo : q.to[a] = Unread,
         q.op \in {"create", "update", "edit", "close", "refund"},
         q.op = "refund" \/ \E a \in Auctions : q.todo = {a},
         q.op = "create" \/ (q.op = "edit" /\ q.pc = "tx") => ~Repeats(q.body),
         q.op = "create" => \A a \in q.todo : auction[a].status = None /\ ~Busy(a),
         q.op # "create" => \A a \in q.todo : auction[a].status \notin {None, "COMPLETED"}
  PROVE  Inv' /\ UNCHANGED <<auction, lines, stock>>
<1>1. Sound(q) BY DEF Sound, Unread, None
<1>2. \A a \in q.todo : Creates(q, a) BY DEF Creates
<1>3. q.op = "create" => \A u \in Tasks : u # t => q.todo \cap task[u].todo = {}
  BY DEF Busy
<1>4. \A a \in q.todo : auction[a].status # "COMPLETED" BY DEF None
<1> QED BY <1>1, <1>2, <1>3, <1>4, StartStep

LEMMA SellerReads ==
  ASSUME Inv, NEW r \in Requests, NEW a \in Auctions,
         \/ \E b \in Bodies, from, until \in Times : ReadForCreate(r, a, b, from, until)
         \/ \E b \in Bodies, until \in Times : ReadForUpdate(r, a, b, until)
         \/ \E b \in Bodies, from, until \in MaybeTimes :
              ReadForEdit(r, a, b, from, until)
         \/ ReadForClose(r, a)
  PROVE  Inv' /\ UNCHANGED <<auction, lines, stock>>
<1>0. r \in Tasks /\ lines[a] \in Baskets BY Typed DEF Tasks
<1>1. ASSUME NEW b \in Bodies, NEW from \in Times, NEW until \in Times,
             ReadForCreate(r, a, b, from, until)
      PROVE  Inv' /\ UNCHANGED <<auction, lines, stock>>
  <2> DEFINE q == [Idle EXCEPT !.op = "create", !.pc = "tx", !.todo = {a},
                     !.body = b, !.startsAt = from, !.endsAt = until]
  <2>1. q \in Task BY IdleType DEF Task
  <2>2. /\ q.op = "create" /\ q.todo = {a} /\ q.sold = {} /\ q.body = b
        /\ q.to[a] = Unread
    BY IdleType DEF Task
  <2>3. Start(r, q) /\ auction[a].status = None /\ ~Busy(a) /\ ~Repeats(b)
    BY <1>1 DEF ReadForCreate, Is
  <2> HIDE DEF q
  <2> QED BY <1>0, <2>1, <2>2, <2>3, OtherReads
<1>2. ASSUME NEW b \in Bodies, NEW until \in Times, ReadForUpdate(r, a, b, until)
      PROVE  Inv' /\ UNCHANGED <<auction, lines, stock>>
  <2> DEFINE q == [Idle EXCEPT !.op = "update", !.pc = "tx", !.todo = {a},
                     !.old[a] = lines[a], !.body = b, !.endsAt = until]
  <2>1. q \in Task BY <1>0, IdleType DEF Task
  <2>2. q.op = "update" /\ q.todo = {a} /\ q.sold = {} /\ q.to[a] = Unread
    BY IdleType DEF Task
  <2>3. Start(r, q) /\ auction[a].status = "PENDING" BY <1>2 DEF ReadForUpdate, Is
  <2> HIDE DEF q
  <2> QED BY <1>0, <2>1, <2>2, <2>3, OtherReads DEF None
<1>3. ASSUME NEW b \in Bodies, NEW from \in MaybeTimes, NEW until \in MaybeTimes,
             ReadForEdit(r, a, b, from, until)
      PROVE  Inv' /\ UNCHANGED <<auction, lines, stock>>
  <2> DEFINE q == [Idle EXCEPT !.op = "edit", !.pc = "check", !.todo = {a},
                     !.old[a] = lines[a], !.body = b,
                     !.startsAt = from, !.endsAt = until]
  <2>1. q \in Task BY <1>0, IdleType DEF Task, MaybeTimes
  <2>2. /\ q.op = "edit" /\ q.pc = "check" /\ q.todo = {a} /\ q.sold = {}
        /\ q.to[a] = Unread
    BY IdleType DEF Task
  <2>3. Start(r, q) /\ auction[a].status \in {"CANCELED", "PENDING"}
    BY <1>3 DEF ReadForEdit, Is
  <2> HIDE DEF q
  <2> QED BY <1>0, <2>1, <2>2, <2>3, OtherReads DEF None
<1>4. ASSUME ReadForClose(r, a)
      PROVE  Inv' /\ UNCHANGED <<auction, lines, stock>>
  <2> DEFINE q == [Idle EXCEPT !.op = "close", !.pc = "tx", !.todo = {a}]
  <2>1. q \in Task BY IdleType DEF Task
  <2>2. q.op = "close" /\ q.todo = {a} /\ q.sold = {} /\ q.to[a] = Unread
    BY IdleType DEF Task
  <2>3. Start(r, q) /\ auction[a].status = "OPEN" BY <1>4 DEF ReadForClose, Is
  <2> HIDE DEF q
  <2> QED BY <1>0, <2>1, <2>2, <2>3, OtherReads DEF None
<1> QED BY <1>1, <1>2, <1>3, <1>4

LEMMA RefundRead ==
  ASSUME Inv, ReadForRefund
  PROVE  Inv' /\ UNCHANGED <<auction, lines, stock>>
<1> DEFINE S == {a \in Auctions : Is(a, {"CLOSED"}) /\ auction[a].endsAt < now}
           c == "refundProductsForClosedAuctions"
           old == [a \in Auctions |-> IF a \in S THEN lines[a] ELSE NoUnits]
           q == [Idle EXCEPT !.op = "refund", !.pc = "tx", !.todo = S, !.old = old]
<1>1. c \in Tasks BY DEF Tasks, Crons
<1>2. Start(c, q) BY DEF ReadForRefund
<1>3. S \in SUBSET Auctions /\ \A a \in S : auction[a].status = "CLOSED" BY DEF Is
<1>4. old \in [Auctions -> Baskets] BY BodyFacts, Typed
<1> HIDE DEF S, old, c
<1>5. q \in Task BY <1>3, <1>4, IdleType DEF Task
<1>6. /\ q.op = "refund" /\ q.todo = S /\ q.sold = {}
      /\ \A a \in S : q.to[a] = Unread
  BY <1>3, IdleType DEF Task
<1> HIDE DEF q
<1> QED BY <1>1, <1>2, <1>3, <1>5, <1>6, OtherReads DEF None

(* A task in flight reads on. *)
LEMMA ReadsOn ==
  ASSUME Inv, \/ \E t \in Tasks, a \in Auctions : ReadBids(t, a)
              \/ \E r \in Requests, a \in Auctions : CheckEdit(r, a)
  PROVE  Inv' /\ UNCHANGED <<auction, lines, stock>>
<1>1. ASSUME NEW t \in Tasks, NEW a \in Auctions, ReadBids(t, a)
      PROVE  Inv' /\ UNCHANGED <<auction, lines, stock>>
  <2> DEFINE q == task[t]
             s == IF auction[a].hasBids THEN "COMPLETED" ELSE "CLOSED"
             seen == IF Sold(a) THEN q.sold \cup {a} ELSE q.sold \ {a}
             q2 == [q EXCEPT !.to[a] = s, !.sold = seen]
  <2>1. /\ q \in Task /\ Sound(q) /\ q.op = "end" /\ a \in q.todo
        /\ \A c \in q.todo : Creates(q, c)
    BY <1>1, Typed DEF Inv, ReadBids
  <2>2. /\ s \in Status /\ s \notin {None, "REFUND"}
        /\ (s = "COMPLETED" \/ ~Sold(a))
    BY DEF Status, None, Sold
  <2>3. seen \in SUBSET Auctions /\ seen \subseteq q.sold \cup {a} /\ (a \in seen => Sold(a))
    BY <2>1 DEF Task
  <2>4. Goto(t, q2) /\ UNCHANGED <<now, auction, lines, stock>> BY <1>1 DEF ReadBids
  <2> HIDE DEF q, s, seen
  <2>5. /\ q2 \in Task /\ q2.op = "end" /\ q2.todo = q.todo /\ q2.sold = seen
        /\ q2.to[a] = s /\ \A c \in Auctions \ {a} : q2.to[c] = q.to[c]
    BY <2>1, <2>2, <2>3 DEF Task
  <2>6. q2.todo \subseteq Auctions /\ q2.sold \subseteq Auctions BY <2>5 DEF Task
  <2> HIDE DEF q2
  <2>7. Sound(q2)
    <3>1. \A c \in q2.todo : q2.to[c] \notin {None, "REFUND"}
      BY <2>1, <2>2, <2>5, <2>6 DEF Sound
    <3>2. \A c \in q2.sold : q2.to[c] \in {Unread, "COMPLETED"}
      BY <2>1, <2>2, <2>3, <2>5, <2>6 DEF Sound
    <3> QED BY <3>1, <3>2, <2>5 DEF Sound
  <2>8. \A c \in q2.todo : Creates(q2, c) BY <2>1, <2>5 DEF Creates
  <2>9. Proceeds(t, q2) BY <2>4, <2>5, <2>7, <2>8 DEF Proceeds
  <2> QED BY <2>4, <2>9, MoveStep
<1>2. ASSUME NEW r \in Requests, NEW a \in Auctions, CheckEdit(r, a)
      PROVE  Inv' /\ UNCHANGED <<auction, lines, stock>>
  <2> DEFINE q == task[r]
             q2 == [q EXCEPT !.pc = "tx"]
  <2>0. r \in Tasks BY DEF Tasks
  <2>1. /\ q \in Task /\ Sound(q) /\ q.op = "edit" /\ ~Repeats(q.body)
        /\ \A c \in q.todo : Creates(q, c)
    BY <1>2, <2>0, Typed DEF Inv, CheckEdit
  <2>2. Goto(r, q2) /\ UNCHANGED <<now, auction, lines, stock>> BY <1>2 DEF CheckEdit
  <2> HIDE DEF q
  <2>3. /\ q2 \in Task /\ q2.op = "edit" /\ q2.todo = q.todo /\ q2.sold = q.sold
        /\ q2.to = q.to /\ q2.body = q.body
    BY <2>1 DEF Task
  <2> HIDE DEF q2
  <2>4. Sound(q2) /\ \A c \in q2.todo : Creates(q2, c)
    BY <2>1, <2>3 DEF Sound, Creates
  <2>5. Proceeds(r, q2) BY <2>2, <2>3, <2>4 DEF Proceeds
  <2> QED BY <2>0, <2>2, <2>5, MoveStep
<1> QED BY <1>1, <1>2

LEMMA FailStep ==
  ASSUME Inv, NEW t \in Tasks, Fail(t)
  PROVE  Inv' /\ UNCHANGED <<auction, lines, stock>>
<1>1. Proceeds(t, Idle) BY IdleType DEF Fail, Proceeds
<1> QED BY <1>1, MoveStep DEF Fail

(* The steps that write the auction row, the lines or the stock. *)
WritingStep ==
  \/ \E t \in Tasks, a \in Auctions : SetStatus(t, a)
  \/ \E r \in Requests, a \in Auctions :
       \/ CommitCreate(r, a) \/ CommitUpdate(r, a)
       \/ CommitEdit(r, a) \/ CommitClose(r, a)
  \/ \E c \in Crons : CommitRefund(c)
  \/ \E a \in Auctions : PlaceBid(a)

LEMMA OtherSteps ==
  ASSUME Inv, [Next]_vars, ~WritingStep
  PROVE  Inv' /\ UNCHANGED <<auction, lines, stock>>
<1>0. Requests \subseteq Tasks /\ Crons \subseteq Tasks
      /\ \A t \in Crons : t \in {"updateReadyAuctionsToOpen",
           "handleExpiredPendingAuctions", "handleExpiredOpenAuctions",
           "refundProductsForClosedAuctions"}
  BY DEF Tasks, Crons
<1>1. ASSUME NEW r \in Requests, NEW a \in Auctions,
             \/ CancelAuction(r, a) \/ RestoreCancelledAuctionToPending(r, a)
             \/ ReopenAuction(r, a) \/ ConfirmAuction(r, a) \/ EndAuction(r, a)
      PROVE  Inv' /\ UNCHANGED <<auction, lines, stock>>
  <2>1. r \in Tasks /\ {a} \in SUBSET Auctions BY <1>0
  <2>2. CASE EndAuction(r, a)
    <3>1. WillEnd(r, {a}) /\ auction[a].status # None BY <2>2 DEF EndAuction, Is
    <3> QED BY <2>1, <3>1, WillEndStep
  <2>3. CASE ~EndAuction(r, a)
    <3>1. /\ \E s \in Status \ {None, "REFUND"} : WillSet(r, {a}, s)
          /\ auction[a].status \notin {None, "COMPLETED"}
      BY <1>1, <2>3 DEF CancelAuction, RestoreCancelledAuctionToPending, ReopenAuction,
                        ConfirmAuction, Is, None, Status
    <3> QED BY <2>1, <3>1, WillSetStep
  <2> QED BY <2>2, <2>3
<1>2. ASSUME UpdateReadyAuctionsToOpen \/ HandleExpiredPendingAuctions
      PROVE  Inv' /\ UNCHANGED <<auction, lines, stock>>
  <2>1. PICK t \in Crons, S \in SUBSET Auctions, s \in {"OPEN", "CLOSED"} :
          WillSet(t, S, s) /\ \A a \in S : auction[a].status \in {"READY", "PENDING"}
    <3>1. CASE UpdateReadyAuctionsToOpen
      <4>1. WillSet("updateReadyAuctionsToOpen", {a \in Auctions : Starting(a)}, "OPEN")
        BY <3>1 DEF UpdateReadyAuctionsToOpen, RunJob
      <4> QED BY <4>1 DEF Starting, Is, Crons
    <3>2. CASE HandleExpiredPendingAuctions
      <4>1. WillSet("handleExpiredPendingAuctions",
                    {a \in Auctions : Expired(a, {"PENDING"})}, "CLOSED")
        BY <3>2 DEF HandleExpiredPendingAuctions, RunJob
      <4> QED BY <4>1 DEF Expired, Is, Crons
    <3> QED BY <1>2, <3>1, <3>2
  <2>2. s \in Status \ {None, "REFUND"} /\ t \in Tasks
        /\ \A a \in S : auction[a].status \notin {None, "COMPLETED"}
    BY <1>0, <2>1 DEF Status, None
  <2> QED BY <2>1, <2>2, WillSetStep
<1>3. ASSUME HandleExpiredOpenAuctions
      PROVE  Inv' /\ UNCHANGED <<auction, lines, stock>>
  <2> DEFINE S == {a \in Auctions : Expired(a, {"OPEN"})}
             t == "handleExpiredOpenAuctions"
  <2>1. /\ t \in Tasks /\ WillEnd(t, S) /\ S \in SUBSET Auctions
        /\ \A a \in S : auction[a].status # None
    BY <1>0, <1>3 DEF HandleExpiredOpenAuctions, Expired, Is, None, Crons
  <2> HIDE DEF S, t
  <2> QED BY <2>1, WillEndStep
<1>4. ASSUME Tick \/ UNCHANGED vars
      PROVE  Inv' /\ UNCHANGED <<auction, lines, stock>>
  <2>1. UNCHANGED <<auction, lines, stock, task>> /\ now' \in 0..Horizon
    BY <1>4, Typed, ConstantsAssumption DEF Tick, vars
  <2> QED BY <2>1 DEF Inv, TypeOK, Alone, Sound, Creates
<1>5. ASSUME NEW r \in Requests, NEW a \in Auctions,
       \/ \E b \in Bodies, from, until \in Times : ReadForCreate(r, a, b, from, until)
       \/ "update" \in Ops[r] /\ \E b \in Bodies, until \in Times :
                                   ReadForUpdate(r, a, b, until)
       \/ "edit" \in Ops[r] /\ \E b \in Bodies, from, until \in MaybeTimes :
                                 ReadForEdit(r, a, b, from, until)
       \/ "cancel" \in Ops[r] /\ CancelAuction(r, a)
       \/ "cancel" \in Ops[r] /\ RestoreCancelledAuctionToPending(r, a)
       \/ "reopen" \in Ops[r] /\ ReopenAuction(r, a)
       \/ "end" \in Ops[r] /\ EndAuction(r, a)
       \/ "confirm" \in Ops[r] /\ ConfirmAuction(r, a)
       \/ "close" \in Ops[r] /\ ReadForClose(r, a)
       \/ CommitCreate(r, a) \/ CommitUpdate(r, a) \/ CheckEdit(r, a)
       \/ CommitEdit(r, a) \/ CommitClose(r, a)
      PROVE  Inv' /\ UNCHANGED <<auction, lines, stock>>
  BY <1>1, <1>5, SellerReads, ReadsOn DEF WritingStep
<1> QED
  BY <1>2, <1>3, <1>4, <1>5, ReadsOn, RefundRead, FailStep DEF Next, WritingStep

-----------------------------------------------------------------------------
(* Steps that write: what they do to units and sales. *)

HeldUnits == [a \in Auctions |-> Held(a)]
SoldLots == {a \in Auctions : Sold(a)}

Still == HeldUnits' = HeldUnits /\ stock' = stock

Fills(a, u) ==
  /\ HeldUnits' = [HeldUnits EXCEPT ![a] = u]
  /\ stock' = [p \in Products |-> stock[p] + HeldUnits[a][p] - u[p]]

Gives(S) ==
  /\ HeldUnits' = [a \in Auctions |-> IF a \in S THEN NoUnits ELSE HeldUnits[a]]
  /\ stock' = [p \in Products |-> stock[p] + Total([a \in S |-> HeldUnits[a]], p)]

Moved ==
  \/ Still
  \/ \E a \in Auctions, u \in Baskets : Fills(a, u)
  \/ \E S \in SUBSET Auctions : Gives(S)

Miscounted == \E t \in Tasks : \E a \in Written(t) : Miscounts(task[t], a)
Overruled == \E t \in Tasks : \E a \in Written(t) : Overrules(task[t], a)

Outcome ==
  /\ Inv'
  /\ Miscounted \/ Moved
  /\ Miscounted \/ Overruled \/ [Promise!Next]_(Promise!cvars)

LEMMA SameGoods ==
  ASSUME Still, SoldLots' = SoldLots
  PROVE  UNCHANGED Promise!cvars
BY DEF Still, Promise!cvars, HeldUnits, SoldLots

(* A row changes, its lines do not. *)
LEMMA RowOutcome ==
  ASSUME Inv, NEW t \in Tasks, NEW q, NEW a \in Auctions, Writes(t, q, {a}),
         NEW row \in Auction, auction' = [auction EXCEPT ![a] = row],
         UNCHANGED <<lines, stock>>, row.status \notin {None, "REFUND"},
         auction[a].status # None,
         Sold(a) /\ a \in task[t].sold => row.status = "COMPLETED" /\ row.hasBids
  PROVE  Outcome
<1>1. Inv' /\ Written(t) = {a} BY WriteStep
<1>2. CASE auction[a].status = "REFUND"
  <2>1. Miscounted BY <1>1, <1>2 DEF Miscounted, Miscounts, Is
  <2> QED BY <1>1, <2>1 DEF Outcome
<1>3. CASE auction[a].status # "REFUND"
  <2>1. auction'[a] = row /\ \A c \in Auctions \ {a} : auction'[c] = auction[c]
    BY Typed
  <2>2. \A c \in Auctions : Held(c)' = Held(c)
    BY <1>3, <2>1 DEF Held, Is
  <2>3. Still BY <2>2 DEF Still, HeldUnits
  <2>4. \A c \in Auctions \ {a} : Sold(c)' <=> Sold(c) BY <2>1 DEF Sold, Is
  <2>5. Sold(a)' <=> row.status = "COMPLETED" /\ row.hasBids BY <2>1 DEF Sold, Is
  <2>6. CASE Sold(a) /\ ~Sold(a)'
    <3>1. Overruled BY <1>1, <2>5, <2>6 DEF Overruled, Overrules
    <3> QED BY <1>1, <2>3, <3>1 DEF Outcome, Moved
  <2>7. CASE ~Sold(a) /\ Sold(a)'
    <3>1. SoldLots' = SoldLots \cup {a} BY <2>4, <2>7 DEF SoldLots
    <3>2. Promise!Sell(a)
      BY <2>3, <3>1 DEF Promise!Sell, Still, HeldUnits, SoldLots
    <3> QED BY <1>1, <2>3, <3>2 DEF Outcome, Moved, Promise!Next
  <2>8. CASE Sold(a) <=> Sold(a)'
    <3>1. SoldLots' = SoldLots BY <2>4, <2>8 DEF SoldLots
    <3> QED BY <1>1, <2>3, <3>1, SameGoods DEF Outcome, Moved
  <2> QED BY <2>6, <2>7, <2>8
<1> QED BY <1>2, <1>3

(* A seller's request commits: the auction gets the lines of the body.     *)
LEMMA SellerOutcome ==
  ASSUME Inv, NEW r \in Tasks, NEW a \in Auctions, task[r].todo = {a},
         task[r].op \in {"create", "update", "edit"}, Goto(r, Idle), now' = now,
         NEW row \in Auction, auction' = [auction EXCEPT ![a] = row],
         row.status # None, row.status = "REFUND" => auction[a].status = "REFUND",
         row.status = "COMPLETED" => row.status = auction[a].status
                                     /\ row.hasBids = auction[a].hasBids,
         NEW body \in Bodies, NEW old \in Baskets,
         lines' = [lines EXCEPT ![a] = LinesOf(body)], stock' = Taken(old, body),
         Miscounts(task[r], a) \/ (Held(a) = old /\ ~Repeats(body))
  PROVE  Outcome
<1>1. /\ auction'[a] = row /\ lines'[a] = LinesOf(body)
      /\ \A c \in Auctions \ {a} : auction'[c] = auction[c] /\ lines'[c] = lines[c]
  BY Typed
<1>2. Writes(r, Idle, {a})
  <2>1. stock' \in [Products -> Int] BY Typed, BodyFacts DEF Taken
  <2>2. auction' \in [Auctions -> Auction] /\ lines' \in [Auctions -> Baskets]
    BY Typed, BodyFacts
  <2>3. \A c \in Auctions \ {a} : auction'[c].status = auction[c].status BY <1>1
  <2> QED BY <1>1, <2>1, <2>2, <2>3, IdleType DEF Writes
<1>3. Inv' /\ Written(r) = {a} BY <1>2, WriteStep
<1>4. CASE Miscounts(task[r], a)
  BY <1>3, <1>4 DEF Outcome, Miscounted
<1>5. CASE ~Miscounts(task[r], a)
  <2>1. Held(a) = old /\ ~Repeats(body) /\ auction[a].status # "REFUND"
    BY <1>5 DEF Miscounts, Is
  <2>2. Held(a)' = LinesOf(body)
    <3>1. auction'[a].status \notin {None, "REFUND"} BY <1>1, <2>1
    <3> QED BY <1>1, <3>1 DEF Held, Is
  <2>3. \A c \in Auctions \ {a} : Held(c)' = Held(c) BY <1>1 DEF Held, Is
  <2>4. HeldUnits' = [HeldUnits EXCEPT ![a] = LinesOf(body)]
    BY <2>2, <2>3 DEF HeldUnits
  <2>5. stock' = [p \in Products |-> stock[p] + old[p] - LinesOf(body)[p]]
    <3>1. ASSUME NEW p \in Products
          PROVE  stock[p] + Gain(old[p], body[p]) = stock[p] + old[p] - LinesOf(body)[p]
      <4>1. /\ Gain(old[p], body[p]) = old[p] - LinesOf(body)[p]
            /\ old[p] \in Nat /\ LinesOf(body)[p] \in Nat /\ stock[p] \in Int
        <5>1. old \in [Products -> Nat] /\ LinesOf(body) \in [Products -> Nat]
          BY BodyFacts
        <5> QED BY <5>1, <2>1, BodyFacts, Typed
      <4> DEFINE gain == Gain(old[p], body[p])
                 was == old[p]
                 is == LinesOf(body)[p]
                 units == stock[p]
      <4> HIDE DEF gain, was, is, units
      <4>2. units + gain = units + was - is BY <4>1 DEF gain, was, is, units
      <4> QED BY <4>2 DEF gain, was, is, units
    <3> QED BY <3>1 DEF Taken
  <2>6. Fills(a, LinesOf(body)) /\ LinesOf(body) \in Baskets
    BY <2>1, <2>4, <2>5, BodyFacts DEF Fills, HeldUnits
  <2>7. Moved BY <2>6 DEF Moved
  <2>8. CASE Sold(a)
    <3>1. a \notin task[r].sold BY DEF Inv, Sound
    <3>2. Overruled BY <1>3, <2>8, <3>1 DEF Overruled, Overrules
    <3> QED BY <1>3, <2>7, <3>2 DEF Outcome
  <2>9. CASE ~Sold(a)
    <3>1. ~Sold(a)' BY <1>1, <2>9 DEF Sold, Is
    <3>2. \A c \in Auctions \ {a} : Sold(c)' <=> Sold(c) BY <1>1 DEF Sold, Is
    <3>3. SoldLots' = SoldLots /\ a \notin SoldLots BY <2>9, <3>1, <3>2 DEF SoldLots
    <3>4. Promise!Fill(a, LinesOf(body))
      BY <2>6, <3>3 DEF Promise!Fill, Fills, HeldUnits, SoldLots
    <3>5. Promise!Next BY <2>6, <3>4 DEF Promise!Next
    <3> QED BY <1>3, <2>7, <3>5 DEF Outcome
  <2> QED BY <2>8, <2>9
<1> QED BY <1>4, <1>5

LEMMA TaskFields ==
  ASSUME Inv, NEW t \in Tasks
  PROVE  /\ task[t] \in Task /\ Sound(task[t])
         /\ task[t].startsAt \in Nat /\ task[t].endsAt \in Nat
         /\ task[t].body \in Bodies /\ task[t].todo \subseteq Auctions
         /\ task[t].old \in [Auctions -> Baskets]
         /\ \A a \in task[t].todo : Creates(task[t], a)
<1>1. Times \cup {NotGiven} \subseteq Nat BY ConstantsAssumption DEF NotGiven
<1>2. task[t] \in Task BY Typed
<1> QED BY <1>1, <1>2 DEF Inv, Task

LEMMA SetStatusOutcome ==
  ASSUME Inv, NEW t \in Tasks, NEW a \in Auctions, SetStatus(t, a)
  PROVE  Outcome
<1> DEFINE old == task[t]
           s == old.to[a]
           left == old.todo \ {a}
           more == [old EXCEPT !.todo = left, !.to[a] = Unread, !.sold = @ \ {a}]
           q == IF left = {} THEN Idle ELSE more
           row == [auction[a] EXCEPT !.status = s]
<1>1. /\ old \in Task /\ Sound(old) /\ old.op \in {"status", "end"} /\ a \in old.todo
      /\ s # Unread /\ auction' = [auction EXCEPT ![a].status = s]
      /\ Goto(t, q) /\ UNCHANGED <<now, lines, stock>>
      /\ old.todo \subseteq Auctions /\ Creates(old, a)
  BY TaskFields DEF SetStatus
<1>2. s \in Status \ {None, "REFUND"} BY <1>1 DEF Sound, Task
<1>3. /\ auction \in [Auctions -> Auction] /\ lines \in [Auctions -> Baskets]
      /\ stock \in [Products -> Int]
  BY Typed
<1> HIDE DEF old, s, left
<1>4. /\ more \in Task /\ more.op = old.op /\ more.todo = left /\ more.to[a] = Unread
      /\ more.sold = old.sold \ {a} /\ \A c \in Auctions \ {a} : more.to[c] = old.to[c]
  BY <1>1 DEF Task, left
<1> HIDE DEF more
<1>5. left \subseteq Auctions \ {a} /\ left \subseteq old.todo /\ old.todo \ left = {a}
  BY <1>1 DEF left
<1>6. Sound(more)
  <2>1. \A c \in left : more.to[c] \notin {None, "REFUND"}
    BY <1>1, <1>4, <1>5 DEF Sound
  <2>2. \A c \in more.sold : old.op = "end" /\ more.to[c] \in {Unread, "COMPLETED"}
    <3>1. old.sold \subseteq Auctions BY <1>1 DEF Task
    <3> QED BY <1>1, <1>4, <3>1 DEF Sound
  <2> QED BY <1>1, <1>4, <2>1, <2>2 DEF Sound
<1>7. q \in Task /\ Sound(q) /\ q.todo = left /\ q.op # "create"
  BY <1>1, <1>4, <1>6, IdleType
<1> HIDE DEF q
<1>8. /\ row \in Auction /\ row.status = s /\ row.hasBids = auction[a].hasBids
      /\ auction' = [auction EXCEPT ![a] = row]
  BY <1>1, <1>2, <1>3 DEF Auction
<1> HIDE DEF row
<1>9. /\ auction' \in [Auctions -> Auction] /\ auction'[a].status = s
      /\ \A c \in Auctions \ {a} : auction'[c].status = auction[c].status
  BY <1>3, <1>8
<1>10. Writes(t, q, {a})
  BY <1>1, <1>2, <1>3, <1>5, <1>7, <1>9 DEF Writes, old
<1>11. auction[a].status # None BY <1>1 DEF Creates
<1>12. Sold(a) /\ a \in task[t].sold => row.status = "COMPLETED" /\ row.hasBids
  BY <1>1, <1>8 DEF Sound, Sold, old, s
<1>13. UNCHANGED <<lines, stock>> /\ row.status \notin {None, "REFUND"}
  BY <1>1, <1>2, <1>8
<1> QED BY <1>8, <1>10, <1>11, <1>12, <1>13, RowOutcome

LEMMA CloseOutcome ==
  ASSUME Inv, NEW r \in Requests, NEW a \in Auctions, CommitClose(r, a)
  PROVE  Outcome
<1> DEFINE row == [auction[a] EXCEPT !.status = "CLOSED", !.hasBids = FALSE]
<1>0. r \in Tasks BY DEF Tasks
<1>1. /\ task[r].op = "close" /\ a \in task[r].todo /\ Goto(r, Idle)
      /\ UNCHANGED <<now, lines, stock>>
      /\ auction' = [auction EXCEPT ![a].status = "CLOSED", ![a].hasBids = FALSE]
  BY DEF CommitClose
<1>2. task[r].todo = {a} /\ task[r].sold = {} /\ Creates(task[r], a)
  BY <1>0, <1>1, TaskFields DEF Sound
<1>3. /\ auction \in [Auctions -> Auction] /\ lines \in [Auctions -> Baskets]
      /\ stock \in [Products -> Int]
  BY Typed
<1>4. /\ row \in Auction /\ row.status = "CLOSED"
      /\ auction' = [auction EXCEPT ![a] = row]
  BY <1>1, <1>3 DEF Auction, Status
<1> HIDE DEF row
<1>5. /\ auction' \in [Auctions -> Auction] /\ auction'[a].status = "CLOSED"
      /\ \A c \in Auctions \ {a} : auction'[c].status = auction[c].status
  BY <1>3, <1>4
<1>6. Writes(r, Idle, {a})
  BY <1>0, <1>1, <1>2, <1>3, <1>5, IdleType DEF Writes, None
<1>7. auction[a].status # None BY <1>1, <1>2 DEF Creates
<1> QED BY <1>0, <1>1, <1>2, <1>4, <1>6, <1>7, RowOutcome DEF None

LEMMA SellerOutcomes ==
  ASSUME Inv, NEW r \in Requests, NEW a \in Auctions,
         CommitCreate(r, a) \/ CommitUpdate(r, a) \/ CommitEdit(r, a)
  PROVE  Outcome
<1> DEFINE q == task[r]
<1>0. r \in Tasks BY DEF Tasks
<1>1. /\ q \in Task /\ Sound(q) /\ q.startsAt \in Nat /\ q.endsAt \in Nat
      /\ q.body \in Bodies /\ q.old \in [Auctions -> Baskets]
      /\ q.op \in {"create", "update", "edit"} /\ q.todo = {a} /\ Creates(q, a)
      /\ Goto(r, Idle) /\ now' = now /\ lines' = [lines EXCEPT ![a] = LinesOf(q.body)]
  BY <1>0, TaskFields DEF CommitCreate, CommitUpdate, CommitEdit, Sound
<1>2. auction \in [Auctions -> Auction] /\ NoUnits \in Baskets /\ q.old[a] \in Baskets
  BY <1>1, Typed, BodyFacts
<1>3. q.op # "create" =>
        Miscounts(q, a) \/ (Held(a) = q.old[a] /\ auction[a].status \notin {None, "REFUND"})
  BY <1>1 DEF Miscounts, Held, Is, Creates
<1>4. CASE CommitCreate(r, a)
  <2> DEFINE row == [status |-> "PENDING", startsAt |-> q.startsAt,
                     endsAt |-> q.endsAt, hasBids |-> FALSE]
  <2>1. q.op = "create" /\ stock' = Taken(NoUnits, q.body)
        /\ auction' = [auction EXCEPT ![a] = row]
    BY <1>4 DEF CommitCreate
  <2>2. Held(a) = NoUnits /\ ~Repeats(q.body)
    BY <1>1, <2>1 DEF Creates, Held, Is, Sound
  <2>3. row \in Auction /\ row.status = "PENDING" BY <1>1 DEF Auction, Status
  <2> HIDE DEF q, row
  <2> QED BY <1>0, <1>1, <1>2, <2>1, <2>2, <2>3, SellerOutcome DEF None, q
<1>5. CASE CommitUpdate(r, a)
  <2> DEFINE row == [auction[a] EXCEPT !.endsAt = q.endsAt]
  <2>1. q.op = "update" /\ stock' = Taken(q.old[a], q.body)
        /\ auction' = [auction EXCEPT ![a].endsAt = q.endsAt]
    BY <1>5 DEF CommitUpdate, NewStock
  <2> HIDE DEF q
  <2>2. /\ row \in Auction /\ row.status = auction[a].status
        /\ row.hasBids = auction[a].hasBids /\ auction' = [auction EXCEPT ![a] = row]
    BY <1>1, <1>2, <2>1 DEF Auction
  <2> HIDE DEF row
  <2>3. Miscounts(q, a) \/ (Held(a) = q.old[a] /\ ~Repeats(q.body))
    BY <1>3, <2>1 DEF Miscounts
  <2>4. row.status # None BY <1>1, <2>1, <2>2 DEF Creates
  <2> QED BY <1>0, <1>1, <1>2, <2>1, <2>2, <2>3, <2>4, SellerOutcome DEF q
<1>6. CASE CommitEdit(r, a)
  <2> DEFINE from == IfGiven(q.startsAt, auction[a].startsAt)
             until == IfGiven(q.endsAt, auction[a].endsAt)
             row == [auction[a] EXCEPT !.status = "PENDING", !.startsAt = from,
                                       !.endsAt = until]
  <2>1. q.op = "edit" /\ q.pc = "tx" /\ stock' = Taken(q.old[a], q.body)
        /\ auction' = [auction EXCEPT
             ![a].status = "PENDING",
             ![a].startsAt = IfGiven(q.startsAt, @), ![a].endsAt = IfGiven(q.endsAt, @)]
    BY <1>6 DEF CommitEdit, NewStock
  <2> HIDE DEF q
  <2>2. auction' = [auction EXCEPT ![a] = row] BY <1>2, <2>1 DEF Auction
  <2>3. from \in Nat /\ until \in Nat BY <1>1, <1>2 DEF IfGiven, Auction
  <2> HIDE DEF from, until
  <2>4. row \in Auction /\ row.status = "PENDING" BY <1>2, <2>3 DEF Auction, Status
  <2> HIDE DEF row
  <2>5. Miscounts(q, a) \/ (Held(a) = q.old[a] /\ ~Repeats(q.body))
    BY <1>1, <1>3, <2>1 DEF Sound
  <2> QED BY <1>0, <1>1, <1>2, <2>1, <2>2, <2>4, <2>5, SellerOutcome DEF q, None
<1> QED BY <1>4, <1>5, <1>6

LEMMA SameTotal ==
  ASSUME NEW f, NEW p
  PROVE  Promise!Total(f, p) = Total(f, p)
<1>1. \A g, S : Promise!TotalOf(g, S) = TotalOf(g, S)
  BY Zenon DEF Promise!TotalOf, TotalOf, Promise!Units, Units, Promise!Cardinality,
               Cardinality
<1> QED BY <1>1 DEF Promise!Total, Total

LEMMA RefundOutcome ==
  ASSUME Inv, NEW c \in Crons, CommitRefund(c)
  PROVE  Outcome
<1> DEFINE q == task[c]
           S == q.todo
           old == q.old
           back(p) == Total([a \in S |-> old[a]], p)
<1>0. c \in Tasks BY DEF Tasks
<1>1. /\ q.op = "refund" /\ Goto(c, Idle) /\ UNCHANGED <<now, lines>>
      /\ auction' = Returned(S) /\ stock' = [p \in Products |-> stock[p] + back(p)]
  BY DEF CommitRefund
<1>2. /\ S \subseteq Auctions /\ old \in [Auctions -> Baskets] /\ q.sold = {}
      /\ \A a \in S : Creates(q, a)
  BY <1>0, <1>1, TaskFields DEF Sound
<1>3. /\ auction \in [Auctions -> Auction] /\ lines \in [Auctions -> Baskets]
      /\ stock \in [Products -> Int]
  BY Typed
<1> HIDE DEF q, S, old
<1>4. ASSUME NEW p \in Products PROVE back(p) \in Nat
  <2> DEFINE f == [a \in S |-> [b \in S |-> old[b]][a][p]]
  <2>1. back(p) = TotalOf(f, S) BY DEF Total
  <2>2. \A a \in S : f[a] \in Nat
    <3>1. \A a \in S : old[a] \in [Products -> Nat] BY <1>2, BodyFacts
    <3> QED BY <3>1
  <2>3. IsFiniteSet(S) BY <1>2, FS_Subset, ConstantsAssumption
  <2> HIDE DEF f, back
  <2>4. Counts(f, S) BY <2>2, <2>3 DEF Counts
  <2> QED BY <2>1, <2>4, TotalType
<1>5. /\ auction' \in [Auctions -> Auction]
      /\ \A a \in S : auction'[a].status = "REFUND"
      /\ \A a \in Auctions \ S : auction'[a] = auction[a]
  BY <1>1, <1>2, <1>3 DEF Returned, Auction, Status
<1>6. Writes(c, Idle, S)
  <2> HIDE DEF back
  <2>1. stock' \in [Products -> Int] BY <1>1, <1>3, <1>4
  <2>2. S = task[c].todo \ Idle.todo /\ Idle.todo \subseteq task[c].todo
    BY IdleType DEF S, q
  <2> QED BY <1>1, <1>3, <1>5, <2>1, <2>2, IdleType DEF Writes, None
<1>7. Inv' /\ Written(c) = S BY <1>0, <1>6, WriteStep
<1>8. CASE \E a \in S : Miscounts(q, a)
  <2>1. Miscounted BY <1>0, <1>7, <1>8 DEF Miscounted, q
  <2> QED BY <1>7, <2>1 DEF Outcome
<1>9. CASE \A a \in S : ~Miscounts(q, a)
  <2>1. \A a \in S : auction[a].status # "REFUND" /\ old[a] = lines[a]
    BY <1>1, <1>9 DEF Miscounts, Is, old
  <2>2. \A a \in S : auction[a].status # None BY <1>1, <1>2 DEF Creates
  <2>3. HeldUnits' = [a \in Auctions |-> IF a \in S THEN NoUnits ELSE HeldUnits[a]]
    BY <1>1, <1>5 DEF HeldUnits, Held, Is
  <2>4. \A a \in S : old[a] = HeldUnits[a]
    BY <1>2, <2>1, <2>2 DEF HeldUnits, Held, Is
  <2>5. [a \in S |-> old[a]] = [a \in S |-> HeldUnits[a]] BY <2>4
  <2>6. Gives(S) BY <1>1, <2>3, <2>5 DEF Gives
  <2>7. Moved BY <1>2, <2>6 DEF Moved
  <2>8. CASE S \cap SoldLots # {}
    <3>1. PICK a \in S : Sold(a) BY <2>8 DEF SoldLots
    <3>2. Overrules(task[c], a) BY <1>2, <3>1 DEF Overrules, q
    <3>3. Overruled BY <1>0, <1>7, <3>1, <3>2 DEF Overruled
    <3> QED BY <1>7, <2>7, <3>3 DEF Outcome
  <2>9. CASE S \cap SoldLots = {}
    <3>1. \A a \in S : ~Sold(a) /\ ~Sold(a)'
      BY <1>2, <1>5, <2>9 DEF Sold, Is, SoldLots
    <3>2. \A a \in Auctions \ S : Sold(a)' <=> Sold(a) BY <1>5 DEF Sold, Is
    <3>3. SoldLots' = SoldLots BY <3>1, <3>2 DEF SoldLots
    <3>4. stock' = [p \in Products |->
                     stock[p] + Promise!Total([a \in S |-> HeldUnits[a]], p)]
      BY <2>6, SameTotal DEF Gives
    <3>5. Promise!GiveBack(S)
      BY <2>3, <2>9, <3>3, <3>4
         DEF Promise!GiveBack, Promise!NoUnits, NoUnits, HeldUnits, SoldLots
    <3>6. Promise!Next BY <1>2, <3>5 DEF Promise!Next
    <3> QED BY <1>7, <2>7, <3>6 DEF Outcome
  <2> QED BY <2>8, <2>9
<1> QED BY <1>8, <1>9

LEMMA BidOutcome ==
  ASSUME Inv, NEW a \in Auctions, PlaceBid(a)
  PROVE  Outcome
<1>1. auction \in [Auctions -> Auction] BY Typed
<1>2. auction' = [auction EXCEPT ![a].hasBids = TRUE] /\ UNCHANGED <<now, lines, stock, task>>
  BY DEF PlaceBid
<1>3. auction' \in [Auctions -> Auction] BY <1>1, <1>2 DEF Auction
<1>4. \A c \in Auctions : auction'[c].status = auction[c].status
  BY <1>1, <1>2 DEF Auction
<1>5. \A c \in Auctions \ {a} : auction'[c] = auction[c] BY <1>1, <1>2
<1>6. auction'[a].hasBids BY <1>1, <1>2 DEF Auction
<1>7. Inv'
  <2>1. TypeOK' /\ Alone' BY <1>2, <1>3 DEF Inv, TypeOK, Alone, Auction
  <2>2. \A t \in Tasks : \A c \in task[t].todo : Creates(task[t], c)'
    BY <1>2, <1>4, Typed DEF Inv, Creates
  <2>3. \A t \in Tasks : Sound(task[t])' BY <1>2 DEF Inv, Sound
  <2> QED BY <1>2, <2>1, <2>2, <2>3 DEF Inv
<1>8. Still BY <1>2, <1>4 DEF Still, HeldUnits, Held, Is
<1>9. \A c \in Auctions \ {a} : Sold(c)' <=> Sold(c) BY <1>5 DEF Sold, Is
<1>10. Sold(a) => Sold(a)' BY <1>4, <1>6 DEF Sold, Is
<1>11. CASE ~Sold(a) /\ Sold(a)'
  <2>1. SoldLots' = SoldLots \cup {a} BY <1>9, <1>11 DEF SoldLots
  <2>2. Promise!Sell(a) BY <1>8, <2>1 DEF Promise!Sell, Still, HeldUnits, SoldLots
  <2> QED BY <1>7, <1>8, <2>2 DEF Outcome, Moved, Promise!Next
<1>12. CASE Sold(a) <=> Sold(a)'
  <2>1. SoldLots' = SoldLots BY <1>9, <1>12 DEF SoldLots
  <2> QED BY <1>7, <1>8, <2>1, SameGoods DEF Outcome, Moved
<1> QED BY <1>10, <1>11, <1>12

LEMMA NextStep == Inv /\ [Next]_vars => Outcome
<1> SUFFICES ASSUME Inv, [Next]_vars PROVE Outcome OBVIOUS
<1>1. CASE WritingStep
  BY <1>1, SetStatusOutcome, CloseOutcome, SellerOutcomes, RefundOutcome, BidOutcome
     DEF WritingStep
<1>2. CASE ~WritingStep
  <2>1. Inv' /\ UNCHANGED <<auction, lines, stock>> BY <1>2, OtherSteps
  <2>2. Still /\ SoldLots' = SoldLots
    BY <2>1 DEF Still, HeldUnits, Held, SoldLots, Sold, Is
  <2> QED BY <2>1, <2>2, SameGoods DEF Outcome, Moved
<1> QED BY <1>1, <1>2

-----------------------------------------------------------------------------
(* What moves from the stock to an auction or back is not lost.            *)

LEMMA Goods ==
  ASSUME Inv
  PROVE  HeldUnits \in [Auctions -> [Products -> Nat]]
<1>1. \A a \in Auctions : Held(a) \in [Products -> Nat]
  BY Typed, BodyFacts DEF Held
<1> QED BY <1>1 DEF HeldUnits

UnitsOf(f, p) == TotalOf([a \in Auctions |-> f[a][p]], Auctions)

LEMMA AllUnitsOf ==
  \A p \in Products : /\ AllUnits(p) = stock[p] + UnitsOf(HeldUnits, p)
                      /\ AllUnits(p)' = stock'[p] + UnitsOf(HeldUnits', p)
BY DEF AllUnits, Total, UnitsOf, HeldUnits

(* A set S of lots changes: the units change by those of S. *)
LEMMA UnitsChange ==
  ASSUME NEW f \in [Auctions -> [Products -> Nat]],
         NEW g \in [Auctions -> [Products -> Nat]],
         NEW S \in SUBSET Auctions, NEW p \in Products,
         \A a \in Auctions \ S : g[a] = f[a]
  PROVE  LET before == TotalOf([a \in S |-> f[a][p]], S)
             after == TotalOf([a \in S |-> g[a][p]], S) IN
         /\ before \in Nat /\ after \in Nat /\ UnitsOf(f, p) \in Nat
         /\ UnitsOf(g, p) = UnitsOf(f, p) - before + after
<1> DEFINE F == [a \in Auctions |-> f[a][p]]
           G == [a \in Auctions |-> g[a][p]]
           FS == [a \in S |-> f[a][p]]
           GS == [a \in S |-> g[a][p]]
<1>1. IsFiniteSet(Auctions) BY ConstantsAssumption
<1>2. Counts(F, Auctions) /\ Counts(G, Auctions) BY <1>1 DEF Counts
<1>3. \A a \in Auctions \ S : F[a] = G[a] OBVIOUS
<1>4. \A a \in S : F[a] = FS[a] /\ G[a] = GS[a] OBVIOUS
<1>5. UnitsOf(f, p) = TotalOf(F, Auctions) /\ UnitsOf(g, p) = TotalOf(G, Auctions)
  BY DEF UnitsOf
<1> HIDE DEF F, G, FS, GS
<1>6. /\ Counts(F, S) /\ Counts(G, S)
      /\ TotalOf(G, Auctions) = TotalOf(F, Auctions) - TotalOf(F, S) + TotalOf(G, S)
  <2>1. S \subseteq Auctions OBVIOUS
  <2>2. Counts(F, S) /\ Counts(G, S) BY <1>2, <1>3, <2>1, TotalChange
  <2>3. TotalOf(G, Auctions) = TotalOf(F, Auctions) - TotalOf(F, S) + TotalOf(G, S)
    BY <1>2, <1>3, <2>1, TotalChange
  <2> QED BY <2>2, <2>3
<1>7. TotalOf(F, S) = TotalOf(FS, S) BY <1>4, TotalSame
<1>8. TotalOf(G, S) = TotalOf(GS, S) BY <1>4, TotalSame
<1>9. TotalOf(F, S) \in Nat /\ TotalOf(G, S) \in Nat /\ TotalOf(F, Auctions) \in Nat
  BY <1>2, <1>6, TotalType
<1> QED BY <1>5, <1>6, <1>7, <1>8, <1>9 DEF FS, GS

LEMMA FillKeeps ==
  ASSUME Inv, NEW a \in Auctions, NEW u \in Baskets, Fills(a, u), NEW p \in Products
  PROVE  AllUnits(p)' = AllUnits(p)
<1> DEFINE f == HeldUnits
           g == HeldUnits'
           one(h) == [c \in {a} |-> h[c][p]]
<1>1. /\ g = [f EXCEPT ![a] = u] /\ stock' = [x \in Products |-> stock[x] + f[a][x] - u[x]]
      /\ f \in [Auctions -> [Products -> Nat]] /\ u \in [Products -> Nat]
      /\ stock[p] \in Int
  BY Goods, BodyFacts, Typed DEF Fills
<1>2. AllUnits(p) = stock[p] + UnitsOf(f, p) /\ AllUnits(p)' = stock'[p] + UnitsOf(g, p)
  BY AllUnitsOf
<1> HIDE DEF f, g
<1>3. /\ g \in [Auctions -> [Products -> Nat]] /\ g[a] = u
      /\ \A c \in Auctions \ {a} : g[c] = f[c]
  BY <1>1
<1>4. /\ one(f)[a] = f[a][p] /\ one(g)[a] = u[p] /\ f[a][p] \in Nat /\ u[p] \in Nat
  BY <1>1, <1>3
<1>5. \A h : one(h)[a] \in Nat => TotalOf(one(h), {a}) = one(h)[a]
  <2> HIDE DEF one
  <2> QED BY TotalOne
<1>6. TotalOf(one(f), {a}) = f[a][p] /\ TotalOf(one(g), {a}) = u[p]
  <2> HIDE DEF one
  <2> QED BY <1>4, <1>5
<1>7. /\ UnitsOf(f, p) \in Nat
      /\ UnitsOf(g, p) = UnitsOf(f, p) - TotalOf(one(f), {a}) + TotalOf(one(g), {a})
  <2>1. /\ {a} \in SUBSET Auctions
        /\ f \in [Auctions -> [Products -> Nat]] /\ g \in [Auctions -> [Products -> Nat]]
        /\ \A c \in Auctions \ {a} : g[c] = f[c]
    BY <1>1, <1>3
  <2> QED BY <2>1, UnitsChange
<1>8. stock'[p] = stock[p] + f[a][p] - u[p] BY <1>1
<1> HIDE DEF one
<1> QED BY <1>1, <1>2, <1>4, <1>6, <1>7, <1>8

LEMMA GiveBackKeeps ==
  ASSUME Inv, NEW S \in SUBSET Auctions, Gives(S), NEW p \in Products
  PROVE  AllUnits(p)' = AllUnits(p)
<1> DEFINE f == HeldUnits
           g == HeldUnits'
           part(h) == [a \in S |-> h[a][p]]
<1>1. /\ g = [a \in Auctions |-> IF a \in S THEN NoUnits ELSE f[a]]
      /\ stock'[p] = stock[p] + Total([a \in S |-> f[a]], p)
      /\ f \in [Auctions -> [Products -> Nat]] /\ stock[p] \in Int
  BY Goods, Typed DEF Gives
<1>2. Total([a \in S |-> f[a]], p) = TotalOf(part(f), S)
  <2>1. Total([a \in S |-> f[a]], p) = TotalOf([a \in S |-> [b \in S |-> f[b]][a][p]], S)
    BY DEF Total
  <2>2. [a \in S |-> [b \in S |-> f[b]][a][p]] = part(f) OBVIOUS
  <2> QED BY <2>1, <2>2
<1>3. AllUnits(p) = stock[p] + UnitsOf(f, p) /\ AllUnits(p)' = stock'[p] + UnitsOf(g, p)
  BY AllUnitsOf
<1> HIDE DEF f, g
<1>4. /\ g \in [Auctions -> [Products -> Nat]] /\ \A a \in Auctions \ S : g[a] = f[a]
      /\ \A a \in S : g[a] = NoUnits
  <2>1. NoUnits \in [Products -> Nat] BY DEF NoUnits
  <2> QED BY <1>1, <2>1
<1>5. \A a \in S : part(g)[a] = 0 BY <1>4 DEF NoUnits
<1>6. /\ TotalOf(part(f), S) \in Nat /\ UnitsOf(f, p) \in Nat
      /\ UnitsOf(g, p) = UnitsOf(f, p) - TotalOf(part(f), S) + TotalOf(part(g), S)
  <2>1. /\ f \in [Auctions -> [Products -> Nat]] /\ g \in [Auctions -> [Products -> Nat]]
        /\ \A c \in Auctions \ S : g[c] = f[c]
    BY <1>1, <1>4
  <2> QED BY <2>1, UnitsChange
<1> HIDE DEF part
<1>7. TotalOf(part(g), S) = 0 BY <1>5, TotalZero
<1> QED BY <1>1, <1>2, <1>3, <1>6, <1>7

LEMMA MovedKeeps ==
  ASSUME Inv, Moved
  PROVE  \A p \in Products : AllUnits(p)' = AllUnits(p)
<1>1. CASE Still BY <1>1, AllUnitsOf DEF Still
<1> QED BY <1>1, FillKeeps, GiveBackKeeps DEF Moved

-----------------------------------------------------------------------------
(* The theorems.                                                           *)

(* Every variable keeps its type, however tasks overlap: in particular a   *)
(* status is only ever written from the list of AuctionStatus.             *)
THEOREM TypeCorrect == Spec => []TypeOK
<1>1. Inv => TypeOK BY DEF Inv
<1>2. Inv /\ [Next]_vars => Inv' BY NextStep DEF Outcome
<1> QED BY <1>1, <1>2, InitInv, PTL DEF Spec

(* However sellers' and admins' requests, clients who ask for the end, and *)
(* jobs overlap, for any number of them: a write that returns nothing      *)
(* twice, finds the lines that it read and lists no product twice loses    *)
(* and makes up no unit of any product.                                    *)
THEOREM UnitsKeptHolds == Spec => UnitsKept
<1> DEFINE Kept == (\A t \in Tasks : \A a \in Written(t) : ~Miscounts(task[t], a))
                   => \A p \in Products : AllUnits(p)' = AllUnits(p)
<1>1. Inv /\ [Next]_vars => Inv' BY NextStep DEF Outcome
<1>2. Inv /\ [Next]_vars => [Kept]_vars
  <2> SUFFICES ASSUME Inv, [Next]_vars PROVE Kept OBVIOUS
  <2>1. Miscounted \/ Moved BY NextStep DEF Outcome
  <2> QED BY <2>1, MovedKeeps DEF Miscounted
<1> QED BY <1>1, <1>2, InitInv, PTL DEF Spec, UnitsKept

(* Under any overlap the service takes only the steps of Consignment, but  *)
(* for those of a task that miscounts or that decided before the sale.     *)
THEOREM Implements == Spec => ImplementsConsignment
<1> DEFINE Step == \/ \E t \in Tasks : \E a \in Written(t) :
                         Miscounts(task[t], a) \/ Overrules(task[t], a)
                   \/ Promise!Next
<1>1. Init => Promise!Init
  BY DEF Init, Promise!Init, Promise!NoUnits, NoUnits, Held, Sold, Is, None
<1>2. Inv /\ [Next]_vars => Inv' BY NextStep DEF Outcome
<1>3. Inv /\ [Next]_vars => [Step]_(Promise!cvars)
  <2> SUFFICES ASSUME Inv, [Next]_vars PROVE [Step]_(Promise!cvars) OBVIOUS
  <2> QED BY NextStep DEF Outcome, Miscounted, Overruled
<1> QED BY <1>1, <1>2, <1>3, InitInv, PTL DEF Spec, ImplementsConsignment
=============================================================================

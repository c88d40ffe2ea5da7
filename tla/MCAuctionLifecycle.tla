------------------------ MODULE MCAuctionLifecycle ------------------------
(* Model values and instances of AuctionLifecycle for TLC. *)
EXTENDS AuctionLifecycle, TLC

CONSTANTS a1, p1, r1, r2

OneUnit == [p \in {p1} |-> 1]
TwoUnits == [p \in {p1} |-> 2]
NoBodies == [{p1} -> {<<>>}]
Single == [{p1} -> {<<>>, <<1>>}]
Doubled == [{p1} -> {<<>>, <<1>>, <<1, 1>>}]
Oversold == [{p1} -> {<<>>, <<1>>, <<2, 2>>}]

Every == {"update", "edit", "confirm", "cancel", "reopen", "close", "end"}
EveryAndSeller == r1 :> Every @@ r2 :> {"update", "end"}
NoSeller == [r \in {r1, r2} |-> Every \ {"edit", "cancel"}]
OnlyEnd == [r \in {r1} |-> {"end"}]
OnlyUpdate == [r \in {r1} |-> {"update"}]

=============================================================================

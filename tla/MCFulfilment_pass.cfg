SPECIFICATION Spec
CONSTANTS
  Users = {u1, u2}
  Enders = {e1, e2}
  Requests = {r1, r2}
  Ops = {"early", "courier"}
  NoUser = NoUser
  MaxOrders = 3
SYMMETRY Symmetry
INVARIANTS TypeOK OrdersBounded Coupled WinnerHasOrder
CHECK_DEADLOCK FALSE

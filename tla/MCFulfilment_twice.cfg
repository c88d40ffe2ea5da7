SPECIFICATION Spec
CONSTANTS
  Users = {u1, u2}
  Enders = {e1, e2}
  Requests = {r1, r2}
  Ops = {}
  NoUser = NoUser
  MaxOrders = 2
INVARIANTS OneOrderPerWinner
CHECK_DEADLOCK FALSE

SPECIFICATION Spec
CONSTANTS
  a1 = a1  p1 = p1  r1 = r1  r2 = r2
  Auctions = {a1}
  Products = {p1}
  Requests = {r1}
  Bodies <- Single
  Times = {1, 2}
  InitialStock <- OneUnit
  Ops <- OnlyEnd
  MaxStock = 2
  MaxTasks = 1
  Horizon = 3
INVARIANTS StockConserved
CHECK_DEADLOCK FALSE

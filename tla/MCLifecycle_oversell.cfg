SPECIFICATION Spec
CONSTANTS
  a1 = a1  p1 = p1  r1 = r1  r2 = r2
  Auctions = {a1}
  Products = {p1}
  Requests = {r1}
  Bodies <- Oversold
  Times = {1, 2}
  InitialStock <- TwoUnits
  Ops <- OnlyUpdate
  MaxStock = 4
  MaxTasks = 1
  Horizon = 3
INVARIANTS NoOversell
CHECK_DEADLOCK FALSE

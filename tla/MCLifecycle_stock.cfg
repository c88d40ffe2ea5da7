SPECIFICATION Spec
CONSTANTS
  a1 = a1  p1 = p1  r1 = r1  r2 = r2
  Auctions = {a1}
  Products = {p1}
  Requests = {r1, r2}
  Bodies <- Doubled
  Times = {1, 2}
  InitialStock <- OneUnit
  Ops <- EveryAndSeller
  MaxStock = 1
  MaxTasks = 6
  Horizon = 3
INVARIANTS TypeOK
PROPERTIES UnitsKept ImplementsConsignment
CHECK_DEADLOCK FALSE

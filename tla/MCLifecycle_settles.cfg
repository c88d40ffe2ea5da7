SPECIFICATION FairSpec
CONSTANTS
  a1 = a1  p1 = p1  r1 = r1  r2 = r2
  Auctions = {a1}
  Products = {p1}
  Requests = {r1, r2}
  Bodies <- NoBodies
  Times = {1, 2}
  InitialStock <- OneUnit
  Ops <- NoSeller
  MaxStock = 1
  MaxTasks = 6
  Horizon = 3
PROPERTIES ExpiredSettled
CHECK_DEADLOCK FALSE

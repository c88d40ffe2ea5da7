SPECIFICATION Spec
CONSTANTS
  Users = {u1, u2}
  Requests = {r1}
  Amounts = {2, 3, 4, 5}
  Deposits = {4}
  Funds = 8
  InitialBalance <- MCInitialBalance
  StartingPrice = 1
  MinimumBidIncrement = 1
  StartTime = 1
  EndTime = 2
  LastMinutes = 0
  Ops = {"bid", "hidden", "close", "end"}
  NoUser = NoUser
  NoBid = NoBid
  MaxBids = 3
  MaxDeposits = 0
  Horizon = 3
SYMMETRY Symmetric
CHECK_DEADLOCK FALSE
PROPERTIES
  CloseRefundsLastBid

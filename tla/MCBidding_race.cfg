SPECIFICATION Spec
CONSTANTS
  Users = {u1, u2}
  Requests = {r1, r2}
  Amounts = {3, 5}
  Deposits = {3}
  Funds = 5
  InitialBalance <- MCInitialBalance
  StartingPrice = 1
  MinimumBidIncrement = 2
  StartTime = 0
  EndTime = 1
  LastMinutes = 0
  Ops = {"bid", "hidden", "close", "deposit"}
  NoUser = NoUser
  NoBid = NoBid
  MaxBids = 3
  MaxDeposits = 1
  Horizon = 1
SYMMETRY Symmetric
CHECK_DEADLOCK FALSE
INVARIANTS
  TypeOK
  RefundMatchesBid
  BidCountExact
  BalanceMatchesLedger
  OverdraftBounded
PROPERTIES
  ManualCloseNeverPays
  OneInOneOut
  MoneyFollowsBids

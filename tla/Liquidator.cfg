CONSTANTS
  a = a
  b = b
  swb = swb
  pyth = pyth
  U64Max = 10000
  Markets = {swb, pyth}
  Loans = {a, b}
  MarketOf <- MCMarketOf
  Bodies <- MCBodies
  KeeperBps <- MCBps
  MinProfit = 90
  Paused = {}
  Banked = {swb, pyth}
  Switchboard = {swb}
  HasCranker = TRUE
  Faulty = {b, pyth}
  CheckCu <- MCCheckCu
  RealCu <- MCRealCu
  UpdateCu = 230
  DefaultCu = 200
  V0Cu = 1400
  Balances = {1000, 5000}
  Copies = 2
  MaxWire = 2
  MaxMoves = 1
SPECIFICATION Spec
INVARIANTS TypeOK ClaimsMatchVisit RevertsOnlyAfterInterference
PROPERTIES MaturedLoansClose ImplementsKeeper

CONSTANTS
  good = good
  bad = bad
  a = a
  b = b
  c = c
  p = p
  Markets = {good, bad}
  Bids = {b}
  Asks = {a, c}
  Others = {p}
  MarketOf <- MCMarketOf
  Rate <- MCRate
  Kind <- MCKind
  SelfCross <- MCSelf
  Paused = {}
  DebtBanked = {good, bad}
  CollBanked = {good, bad}
  ForeignVault = {}
  Switchboard = {good}
  HasCranker = TRUE
  Faulty = {bad, p}
  MaxFills = 8
  CrankCu = 300
  PromoteCu = 350
  DefaultCu = 200
  RoutineCu = 400
  V0Cu = 1400
  Copies = 2
  MaxWire = 2
  Moving = {a, p, good}
  MaxMoves = 1
SPECIFICATION Spec
INVARIANTS TypeOK WasteOnlyAfterInterference
PROPERTIES ImplementKeeper WorkDrains

CONSTANTS
  m1 = m1
  m2 = m2
  v = v
  w = w
  x = x
  y = y
  z = z
  Markets = {m1, m2}
  Vaults = {v, w}
  Seats = {x, y, z}
  MarketOf <- MCMarketOf
  VaultOf <- MCVaultOf
  Paused = {}
  Banked = {m1, m2}
  Faulty = {m2, z}
  ShareValue = 2
  Shares <- MCShares
  RepayShares = 2
  MaxShares = 5
  Copies = 2
  MaxWire = 2
  MaxMoves = 2
SPECIFICATION Spec
INVARIANT TypeOK
PROPERTIES ImplementsKeeper SweepsSettle

CONSTANTS
  x = x
  y = y
  z = z
  k = k
  l = l
  Vaults = {x, y, z}
  Curators = {k, l}
  Keys = {k, l}
  Atas = {k}
  Banked = {x, y, z}
  SameBank = {x, y}
  Faulty = {y}
  Floor = 2
  MaxFee = 2
  Copies = 2
  MaxWire = 2
  Moving = {x, y}
  MaxMoves = 2
SPECIFICATION Spec
INVARIANTS TypeOK ClaimsFailForAReason
PROPERTY FeesClaimed

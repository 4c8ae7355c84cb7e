CONSTANTS
  NoBank = NoBank
  usdc = usdc
  sol = sol
  jup = jup
  bad = bad
  bUsdc = bUsdc
  bUsdc2 = bUsdc2
  bSol = bSol
  bJup = bJup
  bBad = bBad
  solUsdc = solUsdc
  jupUsdc = jupUsdc
  badUsdc = badUsdc
  solUsdc2 = solUsdc2
  Mints = {usdc, sol, jup, bad}
  Banks = {bUsdc, bUsdc2, bSol, bJup, bBad}
  Debt <- MCDebt
  Coll <- MCColl
  Resolvable = {bUsdc, bUsdc2, bSol, bJup}
  Pull = {bJup}
  Markets = {solUsdc, jupUsdc, badUsdc, solUsdc2}
  AccountLimit = 4
  CreateLimit = 3
SPECIFICATION Spec
INVARIANTS TypeOK WrongBankOnlyAfterConflict BootMintsHaveAtas
PROPERTIES KnownBanksStay BootsUnlessStuck MarketsSurfaceUnlessBlocked

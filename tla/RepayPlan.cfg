CONSTANTS
  U64Max = 200000
  StartLoans <- MCLoans
  AtaLevels <- MCBalances
  Accruals = {1, 30}
  DebtBound = 150030
  MaxDisturbed = 2
  Refill = 1500
SPECIFICATION RepaySpec
INVARIANTS PicksLargestFundable
PROPERTY UnderfundedNeverDeadlocks
CHECK_DEADLOCK FALSE

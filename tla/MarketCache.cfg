CONSTANTS
  c1 = c1
  c2 = c2
  m1 = m1
  m2 = m2
  bad = bad
  Callers = {c1, c2}
  Markets = {m1, m2, bad}
  Malformed = {bad}
  TTL = 2
  MaxLatency = 2
  MaxTime = 4
SYMMETRY Symmetry
SPECIFICATION Spec
INVARIANTS TypeOK OldMarketsListed
PROPERTY NoBlackout
CHECK_DEADLOCK FALSE

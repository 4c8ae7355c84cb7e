CONSTANTS
  x = x
  y = y
  z = z
  Mints = {x, y, z}
  CHUNK_SIZE = 2
  MAX_CONCURRENCY = 1
  MaxVersion = 1
SPECIFICATION BatchSpec
INVARIANTS BatchTypeOK
PROPERTIES RoundsAreTrue RoundsEnd
CHECK_DEADLOCK FALSE

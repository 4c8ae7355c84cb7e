CONSTANTS
  Handlers = {liquidator, curator}
  liquidator = liquidator
  curator = curator
  OwnSigner = {curator}
  Warmkeeper = TRUE
  Gateways = 2
  MaxAttempts = 2
  MaxItems = 1
  MaxFlips = 1
SPECIFICATION Spec
INVARIANTS TypeOK NoDeadHandler LateSendsPerHandler LateWarmSends
CHECK_DEADLOCK FALSE
PROPERTIES ShutdownCompletes FundedHandlersTick

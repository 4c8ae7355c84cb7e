CONSTANT MaxAttempts = 3
SPECIFICATION Spec
INVARIANTS TypeOK AtMostOneLateSend OneTransactionPerAttempt
PROPERTIES ImplementsSubmission CallReturns
CHECK_DEADLOCK FALSE

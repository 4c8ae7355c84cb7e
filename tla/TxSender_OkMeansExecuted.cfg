CONSTANT MaxAttempts = 3
SPECIFICATION Spec
INVARIANT OkMeansExecuted
CHECK_DEADLOCK FALSE

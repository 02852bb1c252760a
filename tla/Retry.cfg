SPECIFICATION Spec
CONSTANTS
  RetryFiles <- SmallRetries
  Timeouts = {0, 3, 8}
  Second = 2
  DefaultMaxDelay = 14
  MaxDuration = 31
  MaxRunTime = 3
INVARIANT TypeOK
INVARIANT WaitsBackOff
INVARIANT TimeoutCoversRetries
INVARIANT OutcomeIsRight
PROPERTY StepReturns
\* the step returns once
CHECK_DEADLOCK FALSE

CONSTANTS
  Enabled = TRUE
  MaxRetries = 3
  RetryInterval = 3
  BackoffNum = 3
  BackoffDen = 2
  MaxRetryInterval = 5
  MaxTransports = 4
  MaxFaults = 3
SPECIFICATION Spec
INVARIANT DelayIsBackedOff
CHECK_DEADLOCK FALSE

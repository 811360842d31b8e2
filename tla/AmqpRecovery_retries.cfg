CONSTANTS
  Enabled = TRUE
  MaxRetries = 3
  RetryInterval = 3
  BackoffNum = 3
  BackoffDen = 2
  MaxRetryInterval = 5
  MaxTransports = 8
  MaxFaults = 7
SPECIFICATION FairSpec
INVARIANTS TypeOK Supervised SingleAttach RetriesBounded BackoffLagsOne StopDetaches StatusIsTrue
PROPERTIES StopIsFinal ImplementsAdapter EventuallyAttached
CHECK_DEADLOCK FALSE

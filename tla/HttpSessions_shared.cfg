CONSTANTS
  MaxRequests = 3
  Ids = {1, 2}
  MaxTransports = 2
SPECIFICATION HttpSpec
INVARIANT SessionsAreServed
CHECK_DEADLOCK FALSE

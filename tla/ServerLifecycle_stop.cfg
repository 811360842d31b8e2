\* One request can run while another comes; two transports can take the server
\* from each other; the attach at the start can fail and be retried.
CONSTANTS
  MaxRequests = 2
  Ids = {1, 2}
  MaxTransports = 2
  MaxAttaches = 2
SPECIFICATION Spec
INVARIANTS TypeOK SteadyGetTheirAnswer GracefulExit
PROPERTIES StopEnds
CONSTRAINT FirstIdIsLowest
\* A process that has ended does nothing more.
CHECK_DEADLOCK FALSE

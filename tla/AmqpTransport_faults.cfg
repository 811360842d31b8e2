CONSTANTS
  MaxReconnectAttempts = 2
  MaxDials = 12
  MaxFaults = 2
  ChannelFaults = TRUE
  SplitEvents = TRUE
SPECIFICATION FairSpec
INVARIANTS TypeOK NeverStranded
PROPERTIES NoReconnectAfterClose ImplementsLink EventuallySettled
CHECK_DEADLOCK FALSE

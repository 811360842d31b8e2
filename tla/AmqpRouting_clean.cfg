CONSTANTS
  first = first
  second = second
  bare = bare
  reply = reply
  note = note
  event = event
  garbage = garbage
  idA = idA
  idB = idB
  idC = idC
  NoRoute = NoRoute
  MaxReconnectAttempts = 2
  MaxDials = 4
  MaxFaults = 3
  ChannelFaults = FALSE
  SplitEvents = FALSE
  Messages = {first, second, bare, garbage}
  Ids = {idA, idB, idC}
  KindOf <- MCKindOf
  IdOf <- DistinctIdOf
  Addressed = {first, second}
  MessageTTL = 1
SPECIFICATION RoutingSpec
INVARIANTS OneDialAtATime ConnectedIsLive CloseReleasesBroker ClosureIsPermanent
  RepliesReachAsker DeliveriesSettle
CHECK_DEADLOCK FALSE

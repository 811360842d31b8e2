CONSTANTS
  first = first
  second = second
  bare = bare
  reply = reply
  note = note
  event = event
  garbage = garbage
  idA = idA
  idB = idB
  idC = idC
  NoRoute = NoRoute
  MaxReconnectAttempts = 1
  MaxDials = 3
  MaxFaults = 0
  ChannelFaults = FALSE
  SplitEvents = FALSE
  Messages = {first, second}
  Ids = {idA}
  KindOf <- MCKindOf
  IdOf <- SharedIdOf
  Addressed = {first, second}
  MessageTTL = 1
SPECIFICATION RoutingSpec
INVARIANT RepliesReachAsker
CHECK_DEADLOCK FALSE

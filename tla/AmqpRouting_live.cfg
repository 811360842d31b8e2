CONSTANTS
  first = first
  second = second
  bare = bare
  reply = reply
  note = note
  event = event
  garbage = garbage
  idA = idA
  idB = idB
  idC = idC
  NoRoute = NoRoute
  MaxReconnectAttempts = 1
  MaxDials = 3
  MaxFaults = 2
  ChannelFaults = TRUE
  SplitEvents = FALSE
  Messages = {first, second, event, reply}
  Ids = {idA}
  KindOf <- MCKindOf
  IdOf <- SharedIdOf
  Addressed = {first, second, event, reply}
  MessageTTL = 1
SPECIFICATION RoutingFairSpec
INVARIANTS RoutingTypeOK AtMostOneReply
PROPERTIES RoutesLast RoutesExpire
CHECK_DEADLOCK FALSE

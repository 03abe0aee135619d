\* Every kind of request, tried twice, with every fault, from start to end.
SPECIFICATION FairSpec
CONSTANTS
  a1 = a1
  a2 = a2
  u1 = u1
  u2 = u2
  old = old
  large = large
  gone = gone
  Users = {u1, u2}
  Admins = {u2}
  Objects <- MCObjects
  Junk = Junk
  Sizes <- MCSizes
  MaxFile = 30
  Faults = {"store_error", "outage", "hang", "expiry", "disk", "leave", "late", "limiter", "shutdown", "crash"}
  None = None
  Tries <- MCTries
  Wishes <- MCWishes
  Malformed = Malformed
  Stored <- MCStored
  JsonLimit = 3
  ForwardLimit = 30
  GrpcLimit = 12
  CallOverhead = 1
  ReplyOverhead = 2
  AuthDials = 2
  MaxOutages = 1
INVARIANTS TypeOK RefusalsChangeNothing SuccessIsDone StoredAsSent
PROPERTIES  EveryRequestEnds GatewayStops ComesUp
CHECK_DEADLOCK FALSE

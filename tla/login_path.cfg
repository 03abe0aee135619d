\* Logins that overlap, pass or fail, with every fault, behind the limiter.
SPECIFICATION FairSpec
CONSTANTS
  Clients = {k1}
  Requests = 2
  Window = 1
  MaxTime = 4
  NoWindow = NoWindow
  Handlers = {h1, h2}
  Emails = {e1}
  Limit = 2
  MaxSlips = 1
  Faults = {"redis_error", "reply_lost", "db_error", "crash"}
INVARIANTS GuardTypeOK OvershootIsBounded CountersAreMortal LimiterTypeOK TwiceTheLimit RefusalsAreDeserved
PROPERTY LockoutsEnd
CHECK_DEADLOCK FALSE

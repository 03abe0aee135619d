\* Uploads of every size through a gateway and services without faults.
SPECIFICATION FairSpec
CONSTANTS
  a1 = a1
  a2 = a2
  u1 = u1
  u2 = u2
  old = old
  large = large
  gone = gone
  Users = {u1, u2}
  Admins = {u2}
  Objects <- MCObjects
  Junk = Junk
  Sizes <- MCSizes
  MaxFile = 30
  Faults = {}
  None = None
  Tries <- MCTries
  Wishes <- Uploads
  Malformed = Malformed
  Stored <- MCStored
  JsonLimit = 3
  ForwardLimit = 30
  GrpcLimit = 12
  CallOverhead = 1
  ReplyOverhead = 2
  AuthDials = 2
  MaxOutages = 0
INVARIANT FilesUpToTheLimitAreStored
CHECK_DEADLOCK FALSE

\* What the reply to an upload says of the stored document; nothing fails.
SPECIFICATION Spec
CONSTANTS
  Calls = {c1, c2}
  Users = {u1, u2}
  Admins = {u2}
  None = None
  Faults = {}
INVARIANT AddReplyIsStored
CHECK_DEADLOCK FALSE

\* A burst at the end of one window and another at the start of the next.
SPECIFICATION Spec
CONSTANTS
  Clients = {k1}
  Requests = 2
  Window = 3
  MaxTime = 5
  NoWindow = NoWindow
  Handlers = {h1}
  Emails = {e1}
  Limit = 2
  MaxSlips = 0
  Faults = {}
INVARIANT NeverMoreThanTheLimit
CHECK_DEADLOCK FALSE

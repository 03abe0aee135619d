\* Refinement of the board, clients taking turns on each of two tasks: calls
\* arrive in order, replies and events are lost, the server stops and crashes.
SPECIFICATION OrderedSpec
CONSTANTS
  Tasks = {t1, t2}
  Workers = {w1}
  Texts = {m1}
  Reasons = {r1}
  Calls = {c1, c2, c3, c4}
  Partitions = {p1}
  None = None
  Faults = {"db_hang", "reply_lost", "publish_lost", "shutdown", "crash"}
  Serialised = TRUE
  MaxOpenConns = 1
  MaxLog = 2
INVARIANTS ReasonOnlyWhenNeedsHelp OneEventPerEntry
PROPERTIES ImplementsBoard StopCompletes
CHECK_DEADLOCK FALSE

\* Four overlapping calls, statements that fail, replies and events
\* lost, events stored twice, crashes.
SPECIFICATION Spec
CONSTANTS
  Tasks = {t1}
  Workers = {w1}
  Texts = {m1}
  Reasons = {r1, r2}
  Calls = {c1, c2, c3, c4}
  Partitions = {p1}
  None = None
  Faults = {"db_error", "reply_lost", "publish_lost", "publish_retry", "crash"}
  Serialised = FALSE
  MaxOpenConns = 3
  MaxLog = 2
SYMMETRY CallSymmetry
INVARIANTS TypeOK NeedsHelpHasReason EventsAreTrue NeedIsAnnounced
PROPERTY StatusChangeIsRequested
CHECK_DEADLOCK FALSE

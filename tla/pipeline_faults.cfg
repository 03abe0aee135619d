\* Overlapping calls; both services crash, statements, commits and calls fail.
SPECIFICATION PipelineSpec
CONSTANTS
  Tasks = {t1}
  Workers = {w1, w2}
  Texts = {m1}
  Reasons = {r1, r2}
  Calls = {c1, c2, c3}
  Partitions = {p1, p2}
  None = None
  Faults = {"reply_lost", "publish_lost", "crash"}
  Serialised = FALSE
  MaxOpenConns = 3
  MaxLog = 2
  Managers = {b1}
  Staff = {w1}
  Absent = Absent
  Outages = {"commit_fails", "commit_reply_lost", "rpc_fails", "crash"}
  MaxTopic = 3
SYMMETRY CallSymmetry
INVARIANTS NotificationsAreTrue ToldOncePerCall
CHECK_DEADLOCK FALSE

\* Clients take turns, a task may come to need help twice; events are lost, commits
\* and calls fail, both services crash: help is heard, or lost to what befell it.
SPECIFICATION OrderedPipelineSpec
CONSTANTS
  Tasks = {t1}
  Workers = {w1}
  Texts = {m1}
  Reasons = {r1}
  Calls = {c1, c2, c3, c4}
  Partitions = {p1}
  None = None
  Faults = {"publish_lost", "crash"}
  Serialised = TRUE
  MaxOpenConns = 3
  MaxLog = 2
  Managers = {b1}
  Staff = {w1}
  Absent = Absent
  Outages = {"commit_fails", "rpc_fails", "crash"}
  MaxTopic = 3
PROPERTY HelpIsHeard
CHECK_DEADLOCK FALSE

\* One consumer, two partitions, every outage and restarts.
SPECIFICATION FairSpec
CONSTANTS
  help1 = help1
  help2 = help2
  junk = junk
  w1 = w1
  w2 = w2
  Partitions = {p1, p2}
  Records <- MCRecords
  Junk <- MCJunk
  WorkerOf <- MCWorkerOf
  Workers <- MCWorkers
  Managers = {b1}
  Staff <- MCStaff
  None = None
  Absent = Absent
  Outages = {"commit_fails", "commit_reply_lost", "rpc_fails", "crash"}
  MaxTopic = 2
INVARIANTS TypeOK OnceInOrder ToldTheManager NothingSkipped
PROPERTY NothingBlocks
CHECK_DEADLOCK FALSE

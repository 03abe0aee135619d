\* Overlapping adds, deletes and downloads with every fault.
SPECIFICATION OrderedSpec
CONSTANTS
  Calls = {c1, c2, c3}
  Users = {u1, u2}
  Admins = {u2}
  None = None
  Faults = {"error", "reply_lost", "hang", "shutdown", "crash"}
INVARIANTS TypeOK ListedIsStored OrphansAreOwned DeletedOnce GetIsWhatWasAdded
PROPERTIES ImplementsRegistry OrphansGo StopCompletes
CHECK_DEADLOCK FALSE

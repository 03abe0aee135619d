\* Two overlapping updates: a reason outlives the NEEDS_HELP it was given for.
SPECIFICATION Spec
CONSTANTS
  Tasks = {t1}
  Workers = {w1}
  Texts = {m1}
  Reasons = {r1}
  Calls = {c1, c2, c3, c4}
  Partitions = {p1}
  None = None
  Faults = {}
  Serialised = FALSE
  MaxOpenConns = 3
  MaxLog = 2
SYMMETRY CallSymmetry
INVARIANT ReasonOnlyWhenNeedsHelp
CHECK_DEADLOCK FALSE

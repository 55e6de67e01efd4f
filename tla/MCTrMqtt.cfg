SPECIFICATION MSpec
CONSTANTS
  Requests = {r1, r2}
  Cap = 1
  MaxWork = 4
  MaxChanges = 3
  MaxFaults = 1
SYMMETRY Symmetry
INVARIANT ForgottenAreConcurrent
INVARIANT FeedIsAsSaved
INVARIANT NewestIsKept
CHECK_DEADLOCK FALSE

SPECIFICATION FairSpec
CONSTANTS
  Conns = {c1, c2}
  Reasons = {"client", "signout"}
  QueueSize = 2
INVARIANT HistoryInv
PROPERTY EndsAreFinal
PROPERTY WriterKeepsUp

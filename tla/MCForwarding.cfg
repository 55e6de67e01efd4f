SPECIFICATION FairSpec
CONSTANTS
  Targets = {t}
  Calls = 2
  Admins = {a1, a2}
  Kinds = {"downstream", "webhook"}
  Attempts = 2
  QueueCap = 1
  MaxGens = 3
  MaxEdits = 2
CHECK_DEADLOCK FALSE
INVARIANT ConfigTakesEffect
INVARIANT RowAgrees
PROPERTY ForwardingGoesOn

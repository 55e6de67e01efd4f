SPECIFICATION Spec
CONSTANTS
  Users = {alice}
  Requests = {r1, r2}
  MaxGrants = 2
  MaxTime = 3
  AccessTTL = 2
  ReplayGrace = 1
  MaxTokens = 1
  MaxFamilies = 1
  RestartDelay = 1
  FailingSteps = {"burn", "evict", "tableFamily"}
SYMMETRY Interchangeable
VIEW StillCounts
CHECK_DEADLOCK FALSE
INVARIANT RevocationIsFinal
INVARIANT DevicesAreKnown
PROPERTY DeadFamilyStaysDead

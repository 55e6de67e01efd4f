SPECIFICATION Spec
CONSTANTS
  Requests = {r1, r2}
  Asks <- MCAsks
  everyone = everyone
  limited = limited
  Listeners <- MCListeners
  Grants <- MCGrants
  Loads <- MCLoads
  FirstDb <- MCFirstDb
  QueueCap = 1
  MaxFaults = 2
SYMMETRY Symmetry
INVARIANT CatalogInv
PROPERTY OnlyOverlapUndoes
PROPERTY RestoredIsTheFile
PROPERTY ReviewMatches
CHECK_DEADLOCK FALSE

SPECIFICATION ASpec
CONSTANTS
  home = home
  away = away
  Addresses <- MCAddresses
  Ranges <- MCRanges
  TrustLists <- MCTrustLists
  Systems = {y}
  Requests = {r1, r2}
  Sweeper = sweeper
  Connections = {c}
  Uploads = {u}
  Grace = 1
  Unknown = unknown
  None = none
  MaxTime = 1
  MaxRows = 2
  Loads <- MCLoads
INVARIANT AdmissionInv
INVARIANT SecretsKeepTheirWord
INVARIANT UploadsAreAnsweredRight
PROPERTY BlocksTakeEffect
CHECK_DEADLOCK FALSE

SPECIFICATION AFairSpec
CONSTANTS
  u1 = u1
  u2 = u2
  x1 = x1
  x2 = x2
  alice = alice
  bob = bob
  Uploads = {u1, u2}
  None = nobody
  Calls <- TwoCalls
  Old = 2
  Window = 2
  Workers = 2
  Batch = 1
  MaxIds = 2
  MaxFailures = 1
  MaxRestarts = 1
  Users = {alice, bob}
  Admins = {}
  Other = somebody
  Visitors = {x1, x2}
  By <- Whose
  Lifetime = 1
  MaxLinks = 3
  Loads <- TheLoads
CHECK_DEADLOCK FALSE
INVARIANT RowsHaveTheirAudio
INVARIANT DuplicatesAreConcurrent
INVARIANT TokensStand
INVARIANT SearchReachesAll
PROPERTY CallsSettle

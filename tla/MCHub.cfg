SPECIFICATION FairSpec
CONSTANTS
  c1 = c1
  c2 = c2
  alice = alice
  Conns = {c1, c2}
  Owners = {alice}
  OwnerOf <- MCOwnerOf
  Admins = {c2}
  NoConn = nobody
  Breakers = {b1}
  MaxClients = 2
  UserLimit = 1
CHECK_DEADLOCK FALSE
INVARIANT HubInv
PROPERTY LogSpec
PROPERTY ConnectionsEnd

SPECIFICATION FairSpec
CONSTANTS
  alice = alice
  Listeners = {l1}
  Users = {alice}
  UserOf <- MCUserOf
  Calls = {c1, c2}
  FramesOf = 3
  MaxFrames = 4
  Prime = 1
  MaxWritten = 6
  MaxRetunes = 2
CHECK_DEADLOCK FALSE
INVARIANT StreamInv
INVARIANT CallsArePlayedInOneStretch
INVARIANT UnwantedIsUnheard
PROPERTY CancelledLeave

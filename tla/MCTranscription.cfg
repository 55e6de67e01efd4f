SPECIFICATION FairSpec
CONSTANTS
  a = a
  b = b
  upload = upload
  retry = retry
  other = other
  Calls = {a, b}
  Jobs = {upload, retry, other}
  CallOf <- MCCallOf
  Forced = {retry}
  MaxPools = 2
  Workers = 1
  JobCap = 1
  ResultCap = 1
  SharedCap = 1
INVARIANT TranscriptionInv
PROPERTY JobsMoveOn

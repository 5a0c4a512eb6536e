\* One device among others, a record and a blob, one restore.
SPECIFICATION FairSpec
CONSTANTS
  d1 = d1
  k1 = k1
  b1 = b1
  Devices = {d1}
  Keys = {k1, b1}
  BlobKeys = {b1}
  StartKeys = {k1}
  MaxContent = 2
  PageLimit = 1
  MaxRestores = 1
  MaxMishaps = 1
  MaxOthers = 1
  MaxRecoveries = 2
CHECK_DEADLOCK FALSE
INVARIANTS
  Reunited
  BytesClimbBackIfListed
PROPERTIES
  EventuallyReunited

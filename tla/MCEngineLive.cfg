\* Liveness.
SPECIFICATION FairSpec
CONSTANTS
  d1 = d1
  d2 = d2
  k1 = k1
  k2 = k2
  k3 = k3
  NoKey = NoKey
  Devices = {d1, d2}
  Keys = {k1}
  MaxContent = 2
  StartLogs <- Shared
  PageLimit = 1
  TombstoneCap = 1
  MaxMishaps = 2
  Undos = FALSE
  Deferral = FALSE
CHECK_DEADLOCK FALSE
PROPERTIES
  EventuallyConverged

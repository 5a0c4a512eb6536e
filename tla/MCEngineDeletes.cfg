\* Three keys: a page may hold a tombstone past the cap and a record after it.
SPECIFICATION Spec
CONSTANTS
  d1 = d1
  d2 = d2
  k1 = k1
  k2 = k2
  k3 = k3
  NoKey = NoKey
  Devices = {d1, d2}
  Keys = {k1, k2, k3}
  MaxContent = 3
  StartLogs <- SharedPair
  PageLimit = 3
  TombstoneCap = 1
  MaxMishaps = 2
  Undos = TRUE
  Deferral = TRUE
SYMMETRY Symmetry
CHECK_DEADLOCK FALSE
INVARIANTS
  WatermarkCovers
PROPERTIES
  NoFalseTamper

\* Two devices, one key shared or to be created; contents for two or three writes, one mishap.
SPECIFICATION Spec
CONSTANTS
  d1 = d1
  d2 = d2
  k1 = k1
  k2 = k2
  k3 = k3
  NoKey = NoKey
  Devices = {d1, d2}
  Keys = {k1}
  MaxContent = 3
  StartLogs <- SharedOrNew
  PageLimit = 1
  TombstoneCap = 1
  MaxMishaps = 1
  Undos = FALSE
  Deferral = FALSE
SYMMETRY Symmetry
CHECK_DEADLOCK FALSE
INVARIANTS
  ChangesAreTended
  Converged
PROPERTIES
  NoBlindOverwrite

\* Two requests for any of two ids, with overlap.
SPECIFICATION Spec
CONSTANTS
  small = small
  big = big
  NoBody = NoBody
  Garbage = Garbage
  Nobody = Nobody
  BlobIds = {i1, i2}
  Bodies <- MCBodies
  Bytes <- MCBytes
  Floor = 2
  RecordCharge = 1
  QuotaBytes = 4
  Requests = {r1, r2}
SYMMETRY Symmetry
INVARIANTS
  QuotaExact
  WithinQuota
  PromiseKept
  WinnerKeepsObject
  RowHasItsObject

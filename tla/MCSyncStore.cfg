\* Two concurrent push requests and a pulling device; rows over the byte budget of a page.
SPECIFICATION FairSpec
CONSTANTS
  i1 = i1
  i2 = i2
  small = small
  large = large
  huge = huge
  NoVal = NoVal
  Nobody = Nobody
  Ids <- MCIds
  Collections <- MCCollections
  Vals <- MCVals
  Size <- MCSize
  MaxRecordBytes = 2
  QuotaBytes = 3
  Pushers = {p1, p2}
  Pullers = {d1}
  Batches <- MCBatches
  PullLimit = 2
  ByteBudget = 1
  MaxHead = 3
INVARIANTS
  NoSkippedRecord
  NoLostUpdate
  AckedIsStored
  BytesExact
PROPERTIES
  IsAFeed
  EveryDeviceCatchesUp

\* Two devices, three pairs, one sign-in besides the first, the server removed, one upset.
SPECIFICATION FairSpec
CONSTANTS
  None = None
  Devices = {d1, d2}
  MaxPairs = 3
  MaxUpsets = 1
  MaxSignIns = 1
  SignInsLost = FALSE
  Removing = TRUE
CHECK_DEADLOCK FALSE
INVARIANTS
  OnePresenter
  NoReplay
PROPERTIES
  PairNotDropped
  RowMovesOnward
  ClaimsEnd
  PairsSettle

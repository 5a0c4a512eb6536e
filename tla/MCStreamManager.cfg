SPECIFICATION FairSpec
CONSTANTS
  MaxAttempts = 3
  Earlier = 1
  MaxRounds = 1
  MaxFaults = 2
INVARIANTS OpenerOnce PreservedIsKept CompleteIsWhole
PROPERTIES DiscardedStaysGone SuccessSparesOthers SendComesBack
CHECK_DEADLOCK FALSE

SPECIFICATION Spec
CONSTANTS
  b1 = b1
  t1 = t1
  t2 = t2
  None = None
  Browsers <- OneBrowser
  Tabs <- TwoTabs
  Home <- AllAtB1
  Slots <- TwoSlots
  HasLocks = TRUE
  MaxTokens = 3
  MaxClock = 0
  MaxUpsets = 1
  MaxEvictions = 1
SYMMETRY Symmetry
INVARIANTS OneLiveToken EvictedStaysOut
PROPERTIES RefusedForCause
CHECK_DEADLOCK FALSE

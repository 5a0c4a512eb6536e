SPECIFICATION FairSpec
CONSTANTS
  b1 = b1
  t1 = t1
  t2 = t2
  None = None
  Browsers <- OneBrowser
  Tabs <- TwoTabs
  Home <- AllAtB1
  Slots <- TwoSlots
  HasLocks = TRUE
  MaxTokens = 3
  MaxClock = 1
  MaxUpsets = 1
  MaxEvictions = 0
PROPERTIES RefreshSettles
CHECK_DEADLOCK FALSE

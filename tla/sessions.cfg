SPECIFICATION FairClientSpec
CONSTANTS
  t1 = t1
  k1 = k1
  k2 = k2
  Tabs <- OneTab
  Calls <- TwoCalls
  Slots <- OneTabSlots
  TabOf <- OneTabOf
  MaxPairs = 3
INVARIANTS
  WaitersHaveRefresh
  StoredTokenCurrent
PROPERTIES
  RevokedForGood
  NoAccessAfterRevocation
  EveryCallSettles
CHECK_DEADLOCK FALSE

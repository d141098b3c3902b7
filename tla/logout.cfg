SPECIFICATION ClientSpec
CONSTANTS
  t1 = t1
  k1 = k1
  k2 = k2
  Tabs <- OneTab
  Calls <- TwoCalls
  Slots <- OneTabSlots
  TabOf <- OneTabOf
  MaxPairs = 2
INVARIANT
  LogoutRevokes
CHECK_DEADLOCK FALSE

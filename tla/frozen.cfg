SPECIFICATION LiveSpec
CONSTANTS
  a = a
  b = b
  r1 = r1
  Customers <- TwoCustomers
  Requests <- OneRequest
  Operations <- OneOfEachKind
  MaximumCapacity = 2
  MaxEntries = 2
  MaxUnread = 1
  MaxReloads = 1
CHECK_DEADLOCK FALSE
INVARIANT
  PositionsShown

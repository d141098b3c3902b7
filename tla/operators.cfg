SPECIFICATION FairSpec
CONSTANTS
  Customers = {c1}
  Requests = {r1, r2}
  Operations <- OperatorOperations
  MaximumCapacity = 2
  MaxEntries = 1
INVARIANTS
  WaitingHasPosition
  OneWinner
PROPERTIES
  ImplementsLifecycle
  EveryRequestAnswered
CHECK_DEADLOCK FALSE

SPECIFICATION Spec
CONSTANTS
  Customers = {c1, c2}
  Requests = {r1, r2}
  Operations <- JoinOperations
  MaximumCapacity = 2
  MaxEntries = 3
SYMMETRY Symmetry
INVARIANTS
  TypeOK
  TokensConsecutive
  OverbookingBounded
CHECK_DEADLOCK FALSE

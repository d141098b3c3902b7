SPECIFICATION Spec
CONSTANTS
  Customers = {c1}
  Requests = {r1, r2}
  Operations <- ServeAndLeave
  MaximumCapacity = 1
  MaxEntries = 1
SYMMETRY Symmetry
PROPERTY FinalStatusKept
CHECK_DEADLOCK FALSE

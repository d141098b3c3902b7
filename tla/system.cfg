SPECIFICATION SystemSpec
CONSTANTS
  Customers = {c1, c2, c3}
  Requests = {r1}
  Managers = {m1}
  Operations <- CounterOperations
  AdminOperations <- AllAdminOperations
  Bodies <- SomeBodies
  MaximumCapacity = 2
  MaxEntries = 3
SYMMETRY Symmetry
INVARIANTS
  SystemTypeOK
  LiveQueueConsistent
  CapacityRespected
  OneTicketPerCustomer
PROPERTIES
  CallsInOrder
  DeletedIsFinal
CHECK_DEADLOCK FALSE

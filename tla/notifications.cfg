SPECIFICATION FairNoteSpec
CONSTANTS
  u1 = u1
  u2 = u2
  e1 = e1
  Thunks <- TwoThunks
  SocketIds <- OneEvent
  Limits <- OneOrTwo
  MaxItems = 2
  MaxNotes = 2
  MaxBadge = 2
INVARIANTS
  NoteTypeOK
  BadgeCoversItems
  InStep
PROPERTIES
  LoadingEnds
CHECK_DEADLOCK FALSE

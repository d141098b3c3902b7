SPECIFICATION FairServerSpec
CONSTANTS
  r1 = r1
  s1 = s1
  s2 = s2
  e1 = e1
  e2 = e2
  e3 = e3
  c1 = c1
  None = None
  Requests <- OneRequest
  Sockets <- TwoSockets
  EventIds <- ThreeEvents
  Counters <- OneCounter
  Users <- ThreeUsers
  Targets <- TwoNamesAndAnArray
  MaxRecent = 1
  RetryAttempts = 2
  RedisEnabled = TRUE
INVARIANTS
  NobodyCutOff
  PresenceExact
  RoomsAuthorized
  RecentBounded
PROPERTIES
  ShutdownEnds

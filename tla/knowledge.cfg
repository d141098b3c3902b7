SPECIFICATION FairKnowledgeSpec
CONSTANTS
  r1 = r1
  r2 = r2
  u1 = u1
  u2 = u2
  n1 = n1
  Requests <- TwoRequests
  Organizers <- TwoOrganizers
  Names <- OneName
  MaxOrganizations = 2
  MaxDocuments = 1
  MaxChunks = 1
INVARIANTS
  KnowledgeTypeOK
  OneOrganizationEach
  KnowledgeConsistent
PROPERTIES
  KnowledgeRequestsEnd
CHECK_DEADLOCK FALSE

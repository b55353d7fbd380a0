SPECIFICATION Spec
CONSTANTS
  r1 = r1  r2 = r2  r3 = r3
  o1 = o1  o2 = o2
  w1 = w1  w2 = w2
  NoRequest = NoRequest
  Requests <- MCRequests
  Orgs <- MCOrgs
  OrgOf <- MCOrgOf
  Leaving <- MCOrgs
  Batches <- MCBatches
  Workers <- MCWorkers
  MaxTicket = 3
  Blank <- MCBlank
  MaxLives = 3
SYMMETRY Symmetry
CHECK_DEADLOCK FALSE
INVARIANTS
  TypeOK
  TicketInOnePlace
  MetricsConserved
  ServedInOrder
  AckDurable
  StoredOnce
  DeletedLeaveNothing
  ExplanationAtomic
  NumbersAheadOfDb
  WaiterSeesOwnOutcome
PROPERTIES
  CompletedStaysCompleted
  KeepsContract

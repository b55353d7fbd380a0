SPECIFICATION FairSpec
CONSTANTS
  r1 = r1  r2 = r2  r3 = r3
  o1 = o1  o2 = o2
  w1 = w1  w2 = w2
  NoRequest = NoRequest
  Requests <- MCRequests
  Orgs <- MCOrgs
  OrgOf <- MCOrgOf
  Leaving <- OneLeaves
  Batches <- MCBatches
  Workers <- MCWorkers
  MaxTicket = 3
  Blank <- MCBlank
  MaxLives = 1
CHECK_DEADLOCK FALSE
PROPERTIES
  TicketFinishes
  TakenWaiterAnswered
  StopCompletes

SPECIFICATION Spec
CONSTANTS
  p1 = p1  p2 = p2
  o1 = o1  o2 = o2
  a1 = a1  a2 = a2
  l1 = l1
  b1 = b1  b2 = b2
  n1 = n1  n2 = n2
  None = None
  NotGiven = NotGiven
  Requests <- TwoRequests
  Orgs <- TwoOrgs
  Admins <- TwoAdmins
  Logs <- OneLog
  Boxes <- TwoBoxes
  Phones <- TwoPhones
SYMMETRY Symmetry
CHECK_DEADLOCK FALSE
INVARIANTS
  TypeOK
  NoDanglingRows
  DeletionIsFinal
PROPERTIES
  TenantsApart

SPECIFICATION Spec
CONSTANTS
  o1 = o1  o2 = o2
  l1 = l1  l2 = l2
  Orgs <- MCOrgs
  Logs <- MCLogs
  NoOwner = NoOwner
  Absent = Absent
PROPERTY
  RefusedForLegacyLogs

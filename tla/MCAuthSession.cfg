SPECIFICATION Spec
CONSTANTS
  p1 = p1  p2 = p2
  i1 = i1
  s1 = s1  s2 = s2
  t1 = t1  t2 = t2  t3 = t3
  old = old  new = new
  None = None
  Requests <- TwoRequests
  Identities <- MCIdentities
  Passwords <- OnePassword
  Sessions <- TwoSessions
  Tokens <- ThreeTokens
  FirstPassword = old
  OldHashes <- MCIdentities
SYMMETRY Symmetry
CHECK_DEADLOCK FALSE
INVARIANTS
  TypeOK
  OneOpenToken
  LiveWhenAsked
  RefusalRevokes
  AllSessionsRevoked
  OnlyRevocationsGetStuck
PROPERTIES
  KeepsSessionContract

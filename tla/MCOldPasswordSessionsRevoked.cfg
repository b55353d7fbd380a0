SPECIFICATION Spec
CONSTANTS
  p1 = p1  p2 = p2
  i1 = i1
  s1 = s1  s2 = s2
  t1 = t1  t2 = t2  t3 = t3
  old = old  new = new
  None = None
  Requests <- TwoRequests
  Identities <- MCIdentities
  Passwords <- TwoPasswords
  Sessions <- TwoSessions
  Tokens <- ThreeTokens
  FirstPassword = old
  OldHashes = {}
CHECK_DEADLOCK FALSE
PROPERTIES
  OldPasswordSessionsRevoked

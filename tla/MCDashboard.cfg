SPECIFICATION FairSpec
CONSTANTS
  b1 = b1
  a1 = a1  a2 = a2
  t1 = t1  t2 = t2
  None = None
  Tabs <- MCTabs
  Accounts <- MCAccounts
  Tokens <- MCTokens
  AccountOf <- MCAccountOf
  Calls <- MCCalls
INVARIANTS
  TypeOK
  StoredIsHeld
PROPERTIES
  OnlyRefusalSignsOut
  RefusalIsNoticed
  DisplayCatchesUp

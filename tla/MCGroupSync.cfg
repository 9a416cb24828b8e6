CONSTANTS
  g1 = g1
  g2 = g2
  admin = admin
  other = other
  Nil = Nil
  Groups <- MCGroups
  Names <- MCNames
  PrefixedNames <- MCPrefixedNames
  Principals = {}
  ServicePrincipals = {}
  SyncInterval = 2
  MaxLatency = 1
  MaxTime = 5
SYMMETRY GroupSymmetry
SPECIFICATION SyncSpec
INVARIANTS
  SyncTypeOK
  GroupsAvailableBetweenSyncs
  CachedNamesBounded

CONSTANTS
  r1 = r1
  g1 = g1
  g2 = g2
  p1 = p1
  admin = admin
  Nil = Nil
  Groups <- MCGroups
  Names = {admin}
  PrefixedNames = {admin}
  Principals = {p1}
  ServicePrincipals = {}
  Requests = {r1}
  Subs = {"s1"}
  Usernames = {"ann"}
  Tokens <- MCTokens
  HeaderSets <- MCHeaderSets
  MaxGroupCount = 2
  GroupIdentifier = "OBJECTID"
  SyncInterval = 2
  MaxLatency = 0
  MaxTime = 3
SYMMETRY GroupSymmetry
SPECIFICATION Spec
INVARIANTS
  GroupLimit
  ImpersonationRefused
PROPERTIES
  ListedGroupsKept

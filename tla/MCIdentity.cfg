CONSTANTS
  r1 = r1
  r2 = r2
  g1 = g1
  p1 = p1
  p2 = p2
  admin = admin
  Nil = Nil
  Groups = {g1}
  Names = {admin}
  PrefixedNames = {admin}
  Principals = {p1, p2}
  ServicePrincipals = {p2}
  Requests <- MCRequests
  Subs = {"s1", "s2"}
  Usernames = {"ann", "ann-b"}
  Tokens <- MCTokens
  HeaderSets <- MCHeaderSets
  MaxGroupCount = 2
  GroupIdentifier = "OBJECTID"
  SyncInterval = 1
  MaxLatency = 0
  MaxTime = 0
SYMMETRY RequestSymmetry
SPECIFICATION Spec
INVARIANTS
  OwnIdentity
  MembershipBounded
PROPERTIES
  ForwardsAsPromised

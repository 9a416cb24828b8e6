CONSTANTS
  r1 = r1
  r2 = r2
  g1 = g1
  p1 = p1
  admin = admin
  Nil = Nil
  Groups = {g1}
  Names = {admin}
  PrefixedNames = {admin}
  Principals = {p1}
  ServicePrincipals = {}
  Requests = {r1}
  Subs = {"s1"}
  Usernames = {"u1"}
  Tokens <- MCTokens
  HeaderSets <- MCHeaderSets
  MaxGroupCount = 2
  GroupIdentifier = "NAME"
  SyncInterval = 1
  MaxLatency = 1
  MaxTime = 6
SPECIFICATION Spec
INVARIANTS
  TypeOK
  MembershipBounded
  NamesBounded

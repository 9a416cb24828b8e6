CONSTANTS
  t1 = t1
  t2 = t2
  k1 = k1
  k2 = k2
  k3 = k3
  Texts <- MCTexts
  Empty = Empty
  Applications <- MCApplications
  Subscriptions <- MCSubscriptions
  Pages <- MCPages
  Keys <- MCKeys
  Ours <- MCOurs
  Objects <- MCObjects
  Nil = Nil
  Malformed = Malformed
  Unreachable = Unreachable
  MaxSubscriptions = 2
SYMMETRY Symmetry
SPECIFICATION Spec
INVARIANTS
  TypeOK
  FirstFoundIsUsed
  NoGoodOneIsMissed
  ApplicationsAsTagged
CHECK_DEADLOCK FALSE

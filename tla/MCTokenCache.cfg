CONSTANTS
  l1 = l1
  l2 = l2
  c1 = c1
  c2 = c2
  NoToken = NoToken
  Processes <- MCProcesses
  Clusters <- MCClusters
  Resources = {"r1"}
  Lifetimes = {1, 2}
  ExpiryDelta = 1
  MaxLatency = 1
  MaxTime = 4
SYMMETRY Symmetry
SPECIFICATION Spec
INVARIANTS
  TypeOK
  HandedOutUnexpired
  TokensKept
PROPERTIES
  LoadFailureHasCause
  AtomicUnlessMissed

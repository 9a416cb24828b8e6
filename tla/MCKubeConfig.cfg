CONSTANTS
  r1 = r1
  r2 = r2
  n1 = n1
  n2 = n2
  Foreign = Foreign
  None = None
  Runs <- MCRuns
  Names <- MCNames
  Targets = {"t1"}
SYMMETRY Symmetry
SPECIFICATION Spec
INVARIANTS
  TypeOK
PROPERTIES
  EntriesKept
  OverwritesWithConsent
  AtomicUnlessMissed

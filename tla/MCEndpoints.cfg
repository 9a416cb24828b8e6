CONSTANTS
  good = good
  bad = bad
  bearer = bearer
  p = p
  q = q
  Nil = Nil
  CorsEnabled = TRUE
  Requests <- MCRequests
  Accepted <- MCAccepted
  Rejected <- MCRejected
  Bearers <- MCBearers
  Others <- MCOthers
  Rules <- MCRules
  MaxTokens = 3
SYMMETRY Symmetry
SPECIFICATION Spec
INVARIANTS
  TypeOK
  NoClientToken
  ProtocolsKept
PROPERTY ReadyMeansAccepted

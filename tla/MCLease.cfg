SPECIFICATION AnswersSpec
CONSTANTS
  k1 = k1
  k2 = k2
  p1 = p1
  p2 = p2
  w1 = w1
  w2 = w2
  None = None
  Keys <- MCKeys
  Profiles <- MCProfiles
  Sessions <- MCSessions
  Welcomes <- MCWelcomes
  MaxRevision = 9
SYMMETRY MCSymmetry
INVARIANTS ReplayOnlyUnadmitted ClientsAgree
PROPERTIES ImplementsSessionGrant

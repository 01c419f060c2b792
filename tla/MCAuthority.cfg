SPECIFICATION AuthoritySpec
CONSTANTS
  Resources = {"surfaces"}
  Root = root
  c1 = c1
  c2 = c2
  k1 = k1
  k2 = k2
  ClassSets <- TwoClassSets
  MaxContextRevision = 3
  NodeIds = {1, 2}
  TransactionIds = {1}
  MaxMutations = 2
  MaxSceneRevision = 2
  Definitions <- SurfaceDefinitions
  Descriptors <- TargetDescriptors
  MaxSurfaceRevision = 2
  MaxSurfaceGeneration = 2
  MaxTargetGeneration = 2
  Keys <- TwoKeys
  MaxEntries = 1
  ContextIds <- TwoContexts
  SurfaceIds <- TwoSurfaces
  Amounts = {1, 2}
  Expectations <- CommitExpectations
  MaxRequests = 6
CHECK_DEADLOCK FALSE
SYMMETRY AuthoritySymmetry
INVARIANTS DelegationCovered AppliedOnce
PROPERTIES AllOrNothing TeardownContained DefinitionNamed

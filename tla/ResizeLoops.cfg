CONSTANTS
  Interval = 2
  MaxRetries = 3
  MaxCall = 3
  MaxPods = 3
  Instances = {1, 2, 3}
  Strays <- TwoStrays
  StrayOrdinal <- TwoStraysNumber
  Replicas <- FromMinusOne
SPECIFICATION Spec
INVARIANT TypeOK PacedCalls BoundedBlocking MatchesOrdinals
PROPERTY ImplementsResizing

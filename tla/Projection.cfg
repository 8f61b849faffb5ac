CONSTANTS
  worker = worker
  once = once
  Projector <- TwoProjectors
  MaxAttempts = 2
  MaxClaims = 4
SPECIFICATION FairSpec
INVARIANTS
  PostsOnce
PROPERTIES
  KeepsPromise
  ProjectionEnds
CHECK_DEADLOCK FALSE

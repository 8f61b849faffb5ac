CONSTANTS
  supervisor = supervisor
  once = once
  Dispatcher <- TwoDispatchers
  MaxAttempts = 2
  MaxClaims = 5
  Prompt = FALSE
SPECIFICATION FairSpec
INVARIANT
  SubmissionsWithinLimit
PROPERTIES
  KeepsPromise
  ClosedRequestIsQuiet
  DeliveryEnds
CHECK_DEADLOCK FALSE

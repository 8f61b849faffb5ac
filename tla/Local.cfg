CONSTANTS
  h1 = h1
  k1 = k1
  k2 = k2
  w1 = w1
  w2 = w2
  good = good
  unfounded = unfounded
  Handler <- OneHandler
  Worker <- TwoWorkers
  PostKey <- TwoKeys
  Answer <- Answers
  Valid <- Answers
  Acceptable <- GoodAnswers
  ReviewerType <- Both
  MaxRequests = 1
  MaxVersion = 2
  MaxFaults = 1
  MaxAttempts = 2
  MaxClaims = 2
SPECIFICATION LocalSpec
INVARIANT
  AckedWasEvaluated
PROPERTIES
  InboxDrains
CHECK_DEADLOCK FALSE

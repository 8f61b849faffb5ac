CONSTANTS
  h1 = h1
  h2 = h2
  k1 = k1
  k2 = k2
  good = good
  unfounded = unfounded
  Handler <- TwoHandlers
  PostKey <- TwoKeys
  Answer <- Answers
  Valid <- Answers
  Acceptable <- GoodAnswers
  ReviewerType <- Grok
  MaxRequests = 2
  MaxVersion = 2
  MaxFaults = 1
SYMMETRY Interchangeable
SPECIFICATION Spec
INVARIANTS
  OneReviewAsAnswered
  RefusedForCause
  OpenToItsReviewer
CHECK_DEADLOCK FALSE
